------------------------------ MODULE MailProofs ------------------------------
(***************************************************************************)
(* Theorems about the mail service: its campaigns, for every set of        *)
(* campaigns, people, domains and clients, every cap and every bound, and  *)
(* the sync of a mailbox, for every number of messages, page size, cap,    *)
(* removal, failure and send.                                              *)
(***************************************************************************)
EXTENDS MailCampaigns, MailSync, FiniteSetTheorems, WellFoundedInduction, TLAPS

-----------------------------------------------------------------------------
(***************************************************************************)
(* The sum of a function over the subsets of a finite set: what the fold   *)
(* of the log's rows counts is a number, and no less than any sender's     *)
(* share of it.  The recursion has a value, which is shown for the subsets *)
(* of at most n elements by taking the least n that has none.              *)
(***************************************************************************)
\* The recursive definition of a sum over the subsets of S.
IsSum(g, f, S) ==
    g = [T \in SUBSET S |-> IF T = {} THEN 0
                            ELSE LET x == CHOOSE x \in T : TRUE IN f[x] + g[T \ {x}]]

\* Of the subsets with at most n elements.
Small(S, n) == {T \in SUBSET S : Cardinality(T) <= n}
SmallSum(g, f, S, n) ==
    g = [T \in Small(S, n) |-> IF T = {} THEN 0
                            ELSE LET x == CHOOSE x \in T : TRUE IN f[x] + g[T \ {x}]]

LEMMA LeastElement ==
    ASSUME NEW S \in SUBSET Nat, S # {}
    PROVE  \E n \in S : \A m \in S : n <= m
<1>1. IsWellFoundedOn(OpToRel(<, Nat), Nat)
  BY NatLessThanWellFounded
<1>2. PICK n \in S : \A m \in S : <<m, n>> \notin OpToRel(<, Nat)
  BY <1>1, WFMin
<1>3. \A m \in S : ~(m < n)
  BY <1>2 DEF OpToRel
<1> QED
  BY <1>3

LEMMA SmallSumExists ==
    ASSUME NEW S, IsFiniteSet(S), NEW f
    PROVE  \A n \in Nat : \E g : SmallSum(g, f, S, n)
<1> DEFINE bad == {n \in Nat : ~ \E g : SmallSum(g, f, S, n)}
<1> SUFFICES ASSUME bad # {} PROVE FALSE
  OBVIOUS
<1>1. PICK n \in bad : \A m \in bad : n <= m
  <2> HIDE DEF bad
  <2>1. bad \in SUBSET Nat
    BY DEF bad
  <2> QED
    BY <2>1, LeastElement
<1>2. CASE n = 0
  <2> DEFINE g == [T \in Small(S, 0) |-> 0]
  <2>1. \A T \in Small(S, 0) : T = {}
    BY FS_Subset, FS_EmptySet, FS_CardinalityType DEF Small
  <2>2. SmallSum(g, f, S, 0)
    BY <2>1 DEF SmallSum
  <2> QED
    BY <1>2, <2>2
<1>3. CASE n # 0
  <2>1. n - 1 \in Nat /\ n - 1 \notin bad
    BY <1>1, <1>3
  <2>2. PICK h : SmallSum(h, f, S, n - 1)
    BY <2>1
  <2> DEFINE Def(T) == IF T = {} THEN 0 ELSE LET x == CHOOSE x \in T : TRUE IN f[x] + h[T \ {x}]
             g == [T \in Small(S, n) |-> Def(T)]
  <2>3. \A T \in Small(S, n - 1) : g[T] = h[T]
    <3> TAKE T \in Small(S, n - 1)
    <3>0. Cardinality(T) \in Nat
      BY FS_Subset, FS_CardinalityType DEF Small
    <3>1. T \in Small(S, n)
      BY <3>0, <2>1 DEF Small
    <3> QED
      BY <2>2, <3>1 DEF SmallSum
  <2>4. \A T \in Small(S, n) : \A x \in T : T \ {x} \in Small(S, n - 1)
    <3> TAKE T \in Small(S, n)
    <3> TAKE x \in T
    <3>1. IsFiniteSet(T)
      BY FS_Subset DEF Small
    <3>2. Cardinality(T \ {x}) = Cardinality(T) - 1 /\ Cardinality(T) \in Nat
      BY <3>1, FS_RemoveElement, FS_CardinalityType
    <3> QED
      BY <3>2 DEF Small
  <2>5. SmallSum(g, f, S, n)
    <3>1. \A T \in Small(S, n) :
            Def(T) = IF T = {} THEN 0 ELSE LET x == CHOOSE x \in T : TRUE IN f[x] + g[T \ {x}]
      <4> TAKE T \in Small(S, n)
      <4> CASE T = {}
        OBVIOUS
      <4> CASE T # {}
        <5> DEFINE x == CHOOSE x \in T : TRUE
        <5>1. x \in T
          OBVIOUS
        <5>2. g[T \ {x}] = h[T \ {x}]
          BY <5>1, <2>3, <2>4
        <5> QED
          BY <5>2
      <4> QED
        OBVIOUS
    <3> QED
      BY ZenonT(60), <3>1 DEF SmallSum
  <2> QED
    BY <2>5
<1> QED
  BY <1>1, <1>2, <1>3

LEMMA SumExists ==
    ASSUME NEW S, IsFiniteSet(S), NEW f
    PROVE  \E g : IsSum(g, f, S)
<1>1. Cardinality(S) \in Nat
  BY FS_CardinalityType
<1>2. Small(S, Cardinality(S)) = SUBSET S
  BY FS_Subset DEF Small
<1>3. PICK g : SmallSum(g, f, S, Cardinality(S))
  BY <1>1, SmallSumExists
<1>4. IsSum(g, f, S)
  <2> DEFINE term(T) == IF T = {} THEN 0 ELSE LET x == CHOOSE x \in T : TRUE IN f[x] + g[T \ {x}]
  <2>1. g = [T \in Small(S, Cardinality(S)) |-> term(T)]
    BY <1>3 DEF SmallSum
  <2>2. g = [T \in SUBSET S |-> term(T)]
    <3> HIDE DEF term
    <3> QED
      BY <2>1, <1>2
  <2> QED
    BY <2>2 DEF IsSum
<1> QED
  BY <1>4

LEMMA SumBoundsTerms ==
    ASSUME NEW S, IsFiniteSet(S), NEW f \in [S -> Nat], NEW g, IsSum(g, f, S)
    PROVE  \A T \in SUBSET S : g[T] \in Nat /\ \A x \in T : f[x] <= g[T]
<1> DEFINE Good(T) == g[T] \in Nat /\ \A x \in T : f[x] <= g[T]
           bad == {T \in SUBSET S : ~Good(T)}
<1> SUFFICES ASSUME bad # {} PROVE FALSE
  OBVIOUS
<1>1. PICK T \in bad : \A U \in bad : <<U, T>> \notin StrictSubsetOrdering(S)
  <2>1. bad \subseteq FiniteSubsetsOf(S)
    BY FS_FiniteSubsetsOfFinite
  <2> QED
    BY <2>1, WFMin, FS_StrictSubsetOrderingWellFounded
<1>2. T # {}
  BY <1>1 DEF IsSum
<1> DEFINE x == CHOOSE x \in T : TRUE
<1>3. x \in T /\ T \in SUBSET S
  BY <1>1, <1>2
<1>4. g[T] = f[x] + g[T \ {x}]
  BY <1>2, <1>3 DEF IsSum
<1>5. Good(T \ {x})
  <2> HIDE DEF x
  <2>1. <<T \ {x}, T>> \in StrictSubsetOrdering(S)
    BY <1>3 DEF StrictSubsetOrdering
  <2>2. T \ {x} \in SUBSET S /\ T \ {x} \notin bad
    BY <2>1, <1>1, <1>3
  <2> QED
    BY <2>2
<1>6. f[x] \in Nat
  BY <1>3
<1>7. Good(T)
  <2> HIDE DEF x
  <2>1. g[T] \in Nat /\ f[x] <= g[T] /\ g[T \ {x}] <= g[T]
    BY <1>4, <1>5, <1>6
  <2> QED
    BY <2>1, <1>3, <1>5
<1> QED
  BY <1>1, <1>7

LEMMA SentTodayBounds ==
    ASSUME IsFiniteSet(Senders), sentToday \in [Senders -> [Domains -> Nat]], NEW d \in Domains
    PROVE  SentToday(d) \in Nat /\ \A s \in Senders : sentToday[s][d] <= SentToday(d)
<1> DEFINE f == [s \in Senders |-> sentToday[s][d]]
           Def(g) == [T \in SUBSET Senders |->
                        IF T = {} THEN 0
                        ELSE LET x == CHOOSE x \in T : TRUE IN sentToday[x][d] + g[T \ {x}]]
           sum == CHOOSE g : g = Def(g)
<1>1. \A g : IsSum(g, f, Senders) <=> g = Def(g)
  <2> TAKE g
  <2> DEFINE byF(T) == IF T = {} THEN 0 ELSE LET x == CHOOSE x \in T : TRUE IN f[x] + g[T \ {x}]
             byS(T) == IF T = {} THEN 0
                       ELSE LET x == CHOOSE x \in T : TRUE IN sentToday[x][d] + g[T \ {x}]
  <2>1. \A T \in SUBSET Senders :
          byF(T) = byS(T)
    BY DEF byF, byS
  <2>2. [T \in SUBSET Senders |-> byF(T)] = Def(g)
    BY <2>1
  <2> QED
    BY <2>2 DEF IsSum
<1>2. sum = Def(sum)
  <2> HIDE DEF f, Def
  <2>1. PICK g : g = Def(g)
    BY <1>1, SumExists
  <2> QED
    BY <2>1
<1>3. SentToday(d) = sum[Senders]
  BY DEF SentToday, MapThenSumSet, MapThenFoldSet
<1>4. f \in [Senders -> Nat]
  OBVIOUS
<1> QED
  <2> HIDE DEF sum, f
  <2>1. sum[Senders] \in Nat /\ \A s \in Senders : f[s] <= sum[Senders]
    BY <1>1, <1>2, <1>4, SumBoundsTerms
  <2> QED
    BY <2>1, <1>3 DEF f

-----------------------------------------------------------------------------
(***************************************************************************)
(* The inductive invariant.                                                *)
(***************************************************************************)
\* A merge calls suppressed only who has been contacted, then and since.
RequestOK ==
    \A u \in Users : request[u].op = "add" =>
        \A p \in request[u].suppressed : Contacted(p)

\* Whom a tick has still to mail is pending, and the mail on its way was
\* opened against a budget.
TickFine(c) ==
    /\ \A p \in tick[c].todo : pool[c][p] = "pending"
    /\ tick[c].person # None =>
        /\ tick[c].pc = "sending"
        /\ tick[c].person \notin tick[c].todo
        /\ pool[c][tick[c].person] = "pending"
        /\ tick[c].domain # None
        /\ tick[c].budget[tick[c].domain] > 0
TickOK == \A c \in Campaigns : TickFine(c)

\* A caller is not mailing somebody whom it has a record of.
DirectOK ==
    \A k \in Callers : direct[k] # AtRest =>
        /\ direct[k].to # None /\ direct[k].domain # None
        /\ direct[k].to \notin contacted[k]

\* Mails delivered are mails recorded, once each, and mails lost.
LogOK ==
    \A s \in Senders, p \in People :
        delivered[s][p] = lost[s][p] + (IF p \in contacted[s] THEN 1 ELSE 0)

\* Nobody is claimed by two senders who did not pass the check side by side.
Claims(s, p) == p \in contacted[s] \/ OnItsWay(s, p)
OneClaim ==
    \A p \in People \ raced : \A s, t \in Senders : Claims(s, p) /\ Claims(t, p) => s = t

\* What a sender has sent and what it may still send is within the cap.
CapOK ==
    /\ cap <= highest
    /\ \A c \in Campaigns, d \in Domains : sentToday[c][d] + tick[c].budget[d] <= highest
    /\ \A k \in Callers, d \in Domains :
        sentToday[k][d] + (IF direct[k].domain = d THEN 1 ELSE 0) <= highest

StateOK == TickOK /\ DirectOK /\ LogOK /\ OneClaim /\ PoolAgreesWithTheLog /\ CapOK
CampaignInv == TypeOK /\ RequestOK /\ StateOK

-----------------------------------------------------------------------------
LEMMA SendersFinite == IsFiniteSet(Senders)
BY SendersAssumption, FS_Union DEF Senders

LEMMA RemainingBounds ==
    ASSUME TypeOK, NEW d \in Domains
    PROVE  /\ Remaining(d) \in Nat
           /\ \A s \in Senders : Remaining(d) > 0 => sentToday[s][d] + Remaining(d) <= cap
<1>1. SentToday(d) \in Nat /\ \A s \in Senders : sentToday[s][d] <= SentToday(d)
  BY SendersFinite, SentTodayBounds DEF TypeOK
<1>2. cap \in Nat
  BY CapsAssumption DEF TypeOK
<1>3. ASSUME NEW s \in Senders
      PROVE  sentToday[s][d] \in Nat
  BY DEF TypeOK
<1> QED
  BY <1>1, <1>2, <1>3 DEF Remaining

\* A budget leaves room under the cap for all that its campaign has sent.
LEMMA BudgetsBounds ==
    ASSUME TypeOK, NEW c \in Campaigns, NEW b \in Budgets(c)
    PROVE  /\ b \in [Domains -> Nat]
           /\ \A d \in Domains : b[d] > 0 => sentToday[c][d] + b[d] <= cap
<1> DEFINE opened(open) == [d \in Domains |-> IF d \in open THEN Smaller(Remaining(d), PerCycle) ELSE 0]
<1>1. PICK open \in SUBSET Domains : b = opened(open)
  BY DEF Budgets
<1>2. c \in Senders
  BY DEF Senders
<1>3. ASSUME NEW d \in Domains
      PROVE  /\ b[d] \in Nat
             /\ b[d] > 0 => sentToday[c][d] + b[d] <= cap
  <2>1. PerCycle \in Nat /\ cap \in Nat /\ sentToday[c][d] \in Nat
    BY <1>2, CapsAssumption DEF TypeOK
  <2>2. b[d] = 0 \/ (b[d] \in Nat /\ b[d] <= Remaining(d) /\ Remaining(d) \in Nat)
    BY <1>1, <2>1, RemainingBounds DEF Smaller
  <2> QED
    BY <2>1, <2>2, <1>2, RemainingBounds
<1> QED
  BY <1>1, <1>3

LEMMA LargerOfTwo ==
    ASSUME NEW m \in Nat, NEW n \in Nat
    PROVE  Max({m, n}) \in {m, n} /\ m <= Max({m, n}) /\ n <= Max({m, n})
<1>1. \E x \in {m, n} : \A y \in {m, n} : x >= y
  OBVIOUS
<1> QED
  BY <1>1 DEF Max

-----------------------------------------------------------------------------
LEMMA InitTyped == Init => TypeOK
<1> SUFFICES ASSUME Init PROVE TypeOK
  OBVIOUS
<1>1. Idle \in Tick /\ AtRest \in Direct
  BY DEF Idle, AtRest, Tick, Direct
<1>2. /\ tick \in [Campaigns -> Tick] /\ direct \in [Callers -> Direct]
      /\ request \in [Users -> Request]
  BY <1>1 DEF Init, Request
<1> QED
  BY <1>2, BoundsAssumption, ListsAssumption DEF Init, TypeOK, Senders

LEMMA SharedTyped ==
    ASSUME TypeOK, TickAll \/ NextCampaign \/ SetCap \/ Midnight \/ Restart
    PROVE  TypeOK'
<1>1. CASE TickAll
  BY <1>1 DEF TypeOK, TickAll, sending
<1>2. CASE NextCampaign
  BY <1>2 DEF TypeOK, NextCampaign, sending
<1>3. CASE SetCap
  <2>1. highest' \in {highest, cap'} /\ cap' \in Caps
    BY <1>3, CapsAssumption, LargerOfTwo DEF TypeOK, SetCap
  <2> QED
    BY <1>3, <2>1, BoundsAssumption DEF TypeOK, SetCap, sending
<1>4. CASE Midnight
  BY <1>4 DEF TypeOK, Midnight
<1>5. CASE Restart
  <2>1. PICK taken \in SUBSET {sp \in Senders \X People : OnItsWay(sp[1], sp[2])} :
          LET more == [s \in Senders |-> [p \in People |-> IF <<s, p>> \in taken THEN 1 ELSE 0]]
          IN  /\ delivered' = [s \in Senders |-> [p \in People |-> delivered[s][p] + more[s][p]]]
              /\ lost' = [s \in Senders |-> [p \in People |-> lost[s][p] + more[s][p]]]
    BY <1>5 DEF Restart
  <2>2. delivered' \in [Senders -> [People -> Nat]] /\ lost' \in [Senders -> [People -> Nat]]
    BY <2>1 DEF TypeOK
  <2>3. Idle \in Tick /\ AtRest \in Direct
    BY DEF Idle, AtRest, Tick, Direct
  <2>4. /\ tick' \in [Campaigns -> Tick] /\ direct' \in [Callers -> Direct]
        /\ request' \in [Users -> Request]
    BY <1>5, <2>3 DEF Restart, Request
  <2> QED
    BY <1>5, <2>2, <2>4, BoundsAssumption DEF Restart, TypeOK
<1> QED
  BY <1>1, <1>2, <1>3, <1>4, <1>5

\* What the steps of a tick make of its record.
LEMMA TicksTyped ==
    ASSUME NEW t \in Tick
    PROVE  /\ Idle \in Tick
           /\ \A by \in {"loop", "start"} : [Idle EXCEPT !.pc = "entered", !.by = by] \in Tick
           /\ [Idle EXCEPT !.pc = "drained", !.by = t.by] \in Tick
           /\ [t EXCEPT !.pc = "drained"] \in Tick
           /\ \A b \in [Domains -> Nat], todo \in SUBSET People :
                [t EXCEPT !.pc = "sending", !.budget = b, !.todo = todo] \in Tick
           /\ \A p \in People : [t EXCEPT !.todo = @ \ {p}] \in Tick
           /\ \A p \in People, d \in Domains :
                [t EXCEPT !.todo = @ \ {p}, !.person = p, !.domain = d] \in Tick
           /\ [t EXCEPT !.person = None, !.domain = None] \in Tick
BY DEF Tick, Idle

LEMMA TickTyped ==
    ASSUME TypeOK, TickOK, NEW c \in Campaigns, TickStep(c) \/ NoAnswer(c)
    PROVE  TypeOK'
<1> DEFINE t == tick[c]
           p == t.person
           d == t.domain
<1>1. tick \in [Campaigns -> Tick] /\ t \in Tick /\ c \in Senders
  BY DEF TypeOK, Senders
<1>2. CASE LoopTick(c)
  BY ZenonT(60), <1>1, <1>2, TicksTyped DEF TypeOK, LoopTick, Enter, sending
<1>3. CASE SpawnedTick(c)
  BY <1>1, <1>3, TicksTyped DEF TypeOK, SpawnedTick, Enter, sending
<1>4. CASE Plan(c)
  <2>1. PICK b \in Budgets(c) :
          LET next == [tick[c] EXCEPT !.pc = "sending", !.budget = b, !.todo = Pending(c)]
          IN  CASE \A e \in Domains : mailbox[e] = "error" -> Release(c)
                [] Pending(c) = {} ->
                      tick' = [tick EXCEPT ![c].pc = "drained"] /\ UNCHANGED loop
                [] Spent(b) /\ Pending(c) # {} -> Release(c)
                [] OTHER -> tick' = [tick EXCEPT ![c] = next] /\ UNCHANGED loop
    BY <1>4 DEF Plan
  <2>2. b \in [Domains -> Nat] /\ Pending(c) \in SUBSET People
    BY BudgetsBounds DEF Pending
  <2>3. /\ tick' \in [Campaigns -> Tick]
        /\ loop' \in [queue : SUBSET Campaigns, at : Campaigns \cup {None}]
    <3>1. CASE Release(c)
      BY <3>1, <1>1, TicksTyped DEF Release, TypeOK
    <3>2. CASE tick' = [tick EXCEPT ![c].pc = "drained"] /\ UNCHANGED loop
      BY <3>2, <1>1, TicksTyped DEF TypeOK
    <3>3. CASE /\ tick' = [tick EXCEPT ![c] = [tick[c] EXCEPT !.pc = "sending", !.budget = b,
                                                               !.todo = Pending(c)]]
               /\ UNCHANGED loop
      BY <3>3, <1>1, <2>2, TicksTyped DEF TypeOK
    <3> QED
      BY <2>1, <3>1, <3>2, <3>3
  <2> QED
    BY <1>4, <2>3 DEF Plan, TypeOK, sending
<1>5. CASE Suppress(c)
  <2>1. PICK q \in t.todo :
          /\ SetPool(c, q, "suppressed")
          /\ tick' = [tick EXCEPT ![c].todo = @ \ {q}]
    BY <1>5 DEF Suppress
  <2>2. q \in People
    BY <1>1 DEF Tick
  <2>3. tick' \in [Campaigns -> Tick]
    BY <2>1, <2>2, <1>1, TicksTyped
  <2> QED
    BY <1>5, <2>1, <2>2, <2>3 DEF Suppress, SetPool, TypeOK, sending
<1>6. CASE StartSend(c)
  <2>1. PICK q \in t.todo, e \in Domains :
          /\ PassCheck(q)
          /\ tick' = [tick EXCEPT ![c].todo = @ \ {q}, ![c].person = q, ![c].domain = e]
    BY <1>6 DEF StartSend
  <2>2. q \in People
    BY <1>1 DEF Tick
  <2>3. tick' = [tick EXCEPT ![c] = [t EXCEPT !.todo = @ \ {q}, !.person = q, !.domain = e]]
    BY <2>1, <1>1 DEF Tick
  <2>4. tick' \in [Campaigns -> Tick]
    <3>1. [t EXCEPT !.todo = @ \ {q}, !.person = q, !.domain = e] \in Tick
      BY <2>2, <1>1, TicksTyped
    <3> QED
      BY <2>3, <3>1, <1>1
  <2>5. raced' \subseteq People
    BY <2>1, <2>2 DEF PassCheck, TypeOK
  <2> QED
    BY <1>6, <2>4, <2>5 DEF StartSend, TypeOK
<1>7. CASE Sent(c)
  <2>1. p \in People /\ d \in Domains /\ t.budget[d] > 0
    BY <1>7, <1>1 DEF Sent, OnTheWire, TickOK, TickFine, Tick
  <2>2. [NextMail(c) EXCEPT !.budget[d] = @ - 1] \in Tick
    <3>1. NextMail(c) \in Tick /\ NextMail(c).budget = t.budget
      BY ZenonT(60), <1>1, TicksTyped DEF NextMail, Tick
    <3>2. [t.budget EXCEPT ![d] = @ - 1] \in [Domains -> Nat]
      BY <1>1, <2>1 DEF Tick
    <3>3. [NextMail(c) EXCEPT !.budget = [t.budget EXCEPT ![d] = @ - 1]] \in Tick
      BY <3>1, <3>2 DEF Tick
    <3> QED
      BY <3>1, <3>3 DEF Tick
  <2>3. tick' \in [Campaigns -> Tick]
    BY <1>7, <1>1, <2>2 DEF Sent
  <2>4. /\ delivered' \in [Senders -> [People -> Nat]]
        /\ sentToday' \in [Senders -> [Domains -> Nat]]
        /\ contacted' \in [Senders -> SUBSET People]
    BY <1>7, <1>1, <2>1 DEF Sent, Delivered, Record, TypeOK
  <2>5. pool' \in [Campaigns -> [People -> {"none", "pending", "sent", "suppressed", "failed"}]]
    BY <1>7, <2>1 DEF Sent, SetPool, TypeOK
  <2> QED
    BY <1>7, <2>3, <2>4, <2>5 DEF Sent, TypeOK
<1>8. CASE Refused(c)
  <2>1. p \in People /\ d \in Domains
    BY <1>8, <1>1 DEF Refused, OnTheWire, TickOK, TickFine, Tick
  <2>2. tick' \in [Campaigns -> Tick]
    BY <1>8, <1>1, TicksTyped DEF Refused, NextMail
  <2> QED
    BY <1>8, <2>1, <2>2 DEF Refused, SetPool, TypeOK, sending
<1>9. CASE NoAnswer(c)
  <2>1. p \in People
    BY <1>9, <1>1 DEF NoAnswer, OnTheWire, Tick
  <2>2. /\ tick' \in [Campaigns -> Tick]
        /\ loop' \in [queue : SUBSET Campaigns, at : Campaigns \cup {None}]
    BY <1>9, <1>1, TicksTyped DEF NoAnswer, Release, TypeOK
  <2>3. delivered' \in [Senders -> [People -> Nat]] /\ lost' \in [Senders -> [People -> Nat]]
    <3>1. CASE Delivered(c, p) /\ LoseRecord(c, p)
      BY <3>1, <1>1, <2>1 DEF Delivered, LoseRecord, TypeOK
    <3>2. CASE UNCHANGED <<delivered, lost>>
      BY <3>2 DEF TypeOK
    <3> QED
      BY <1>9, <3>1, <3>2 DEF NoAnswer
  <2> QED
    BY <1>9, <2>2, <2>3, BoundsAssumption DEF NoAnswer, TypeOK
<1>10. CASE Recount(c)
  <2>1. /\ tick' \in [Campaigns -> Tick]
        /\ loop' \in [queue : SUBSET Campaigns, at : Campaigns \cup {None}]
    <3>1. CASE Release(c)
      BY <3>1, <1>1, TicksTyped DEF Release, TypeOK
    <3>2. CASE /\ tick' = [tick EXCEPT ![c] = [Idle EXCEPT !.pc = "drained", !.by = t.by]]
               /\ UNCHANGED loop
      BY <3>2, <1>1, TicksTyped DEF TypeOK
    <3> QED
      BY <1>10, <3>1, <3>2 DEF Recount
  <2> QED
    BY <1>10, <2>1 DEF Recount, TypeOK, sending
<1>11. CASE Complete(c)
  BY <1>11, <1>1, TicksTyped DEF Complete, Release, TypeOK, sending
<1> QED
  BY <1>2, <1>3, <1>4, <1>5, <1>6, <1>7, <1>8, <1>9, <1>10, <1>11 DEF TickStep

LEMMA RequestTyped ==
    ASSUME TypeOK, NEW u \in Users,
           \/ CommitStatus(u) \/ CommitAdd(u)
           \/ \E c \in Campaigns :
                ReadForStart(u, c) \/ ReadForPause(u, c) \/ ReadForCancel(u, c) \/ ReadForAdd(u, c)
    PROVE  TypeOK'
<1>1. request \in [Users -> Request] /\ NoRequest \in Request
  BY DEF TypeOK, Request
<1>2. CASE CommitStatus(u)
  <2>1. request[u].op \in {"start", "pause", "cancel"} /\ request[u].of \in Campaigns
    BY <1>1, <1>2 DEF CommitStatus, Request, NoRequest, None
  <2>2. /\ status' \in [Campaigns -> {"draft", "running", "paused", "completed", "cancelled"}]
        /\ spawned' \subseteq Campaigns
    BY <1>2, <2>1 DEF CommitStatus, TypeOK
  <2> QED
    BY <1>1, <1>2, <2>2 DEF CommitStatus, Answered, TypeOK, sending
<1>3. CASE CommitAdd(u)
  <2>1. request[u] \in [op : {"add"}, of : Campaigns, pending : SUBSET People,
                        suppressed : SUBSET People]
    BY <1>1, <1>3 DEF CommitAdd, Request, NoRequest, None
  <2>2. pool' \in [Campaigns -> [People -> {"none", "pending", "sent", "suppressed", "failed"}]]
    BY <1>3, <2>1 DEF CommitAdd, TypeOK
  <2> QED
    BY <1>1, <1>3, <2>2 DEF CommitAdd, Answered, TypeOK, sending
<1>4. ASSUME NEW r \in Request, Read(u, r)
      PROVE  TypeOK'
  BY <1>1, <1>4, BoundsAssumption DEF Read, TypeOK, sending
<1>5. ASSUME NEW c \in Campaigns,
             ReadForStart(u, c) \/ ReadForPause(u, c) \/ ReadForCancel(u, c)
      PROVE  TypeOK'
  <2>1. \A op \in {"start", "pause", "cancel"} : [op |-> op, of |-> c] \in Request
    BY DEF Request
  <2> QED
    BY <1>4, <1>5, <2>1 DEF ReadForStart, ReadForPause, ReadForCancel
<1>6. ASSUME NEW c \in Campaigns, ReadForAdd(u, c)
      PROVE  TypeOK'
  <2>1. \A new, gone \in SUBSET People :
            [op |-> "add", of |-> c, pending |-> new, suppressed |-> gone] \in Request
    BY DEF Request
  <2> QED
    BY <1>4, <1>6, <2>1 DEF ReadForAdd
<1> QED
  BY <1>2, <1>3, <1>5, <1>6

LEMMA DirectTyped ==
    ASSUME TypeOK, DirectOK, NEW k \in Callers, DirectStep(k) \/ DirectNotFetched(k)
    PROVE  TypeOK'
<1>1. /\ direct \in [Callers -> Direct] /\ AtRest \in Direct /\ k \in Senders
      /\ \A p \in People, d \in Domains : [to |-> p, domain |-> d] \in Direct
  BY DEF TypeOK, AtRest, Direct, Senders
<1>2. CASE DirectCheck(k)
  <2>1. direct' \in [Callers -> Direct] /\ raced' \subseteq People
    BY <1>1, <1>2 DEF DirectCheck, PassCheck, TypeOK
  <2> QED
    BY <1>2, <2>1 DEF DirectCheck, TypeOK
<1>3. direct[k] # AtRest => direct[k].to \in People /\ direct[k].domain \in Domains
  BY <1>1 DEF DirectOK, Direct
<1>4. CASE DirectSent(k)
  <2>1. direct' \in [Callers -> Direct]
    BY <1>1, <1>4 DEF DirectSent
  <2>2. delivered' \in [Senders -> [People -> Nat]]
    BY <1>1, <1>3, <1>4 DEF DirectSent, Delivered, TypeOK
  <2>3. /\ sentToday' \in [Senders -> [Domains -> Nat]]
        /\ contacted' \in [Senders -> SUBSET People]
    BY <1>1, <1>3, <1>4 DEF DirectSent, Record, TypeOK
  <2> QED
    BY <1>4, <2>1, <2>2, <2>3 DEF DirectSent, TypeOK
<1>5. CASE DirectRefused(k)
  <2>1. direct' \in [Callers -> Direct]
    BY <1>1, <1>5 DEF DirectRefused
  <2> QED
    BY <1>3, <1>5, <2>1 DEF DirectRefused, TypeOK, sending
<1>6. CASE DirectNotFetched(k)
  <2>1. direct' \in [Callers -> Direct]
    BY <1>1, <1>6 DEF DirectNotFetched
  <2>2. delivered' \in [Senders -> [People -> Nat]] /\ lost' \in [Senders -> [People -> Nat]]
    BY <1>1, <1>3, <1>6 DEF DirectNotFetched, Delivered, LoseRecord, TypeOK
  <2> QED
    BY <1>6, <2>1, <2>2, BoundsAssumption DEF DirectNotFetched, TypeOK
<1> QED
  BY <1>2, <1>4, <1>5, <1>6 DEF DirectStep

LEMMA TypeKept == TypeOK /\ TickOK /\ DirectOK /\ [Next]_vars => TypeOK'
<1> SUFFICES ASSUME TypeOK, TickOK, DirectOK, [Next]_vars PROVE TypeOK'
  OBVIOUS
<1>1. CASE UNCHANGED vars
  BY <1>1 DEF vars, sending, TypeOK
<1>2. ASSUME NEW d \in Domains, Synced(d)
      PROVE  TypeOK'
  BY <1>2 DEF Synced, sending, TypeOK
<1> QED
  BY <1>1, <1>2, SharedTyped, TickTyped, DirectTyped, RequestTyped DEF Next

-----------------------------------------------------------------------------
LEMMA InitState == Init => StateOK /\ RequestOK
<1> SUFFICES ASSUME Init PROVE StateOK /\ RequestOK
  OBVIOUS
<1>1. /\ \A c \in Campaigns : tick[c] = Idle
      /\ \A k \in Callers : direct[k] = AtRest
      /\ \A u \in Users : request[u] = NoRequest
      /\ \A s \in Senders : contacted[s] = {}
      /\ \A s \in Senders, p \in People : delivered[s][p] = 0 /\ lost[s][p] = 0
      /\ \A s \in Senders, d \in Domains : sentToday[s][d] = 0
      /\ cap \in Nat /\ highest = cap /\ cap > 0
  BY CapsAssumption DEF Init
<1>2. TickOK /\ DirectOK /\ LogOK
  BY <1>1 DEF TickOK, TickFine, DirectOK, LogOK, Idle
<1>3. OneClaim
  BY <1>1, SendersAssumption DEF OneClaim, Claims, OnItsWay, Idle, AtRest
<1>4. PoolAgreesWithTheLog
  BY <1>1 DEF Init, PoolAgreesWithTheLog, Senders
<1>5. CapOK
  BY <1>1, SendersAssumption DEF CapOK, Idle, AtRest, Senders
<1>6. RequestOK
  BY <1>1 DEF RequestOK, NoRequest, None
<1> QED
  BY <1>2, <1>3, <1>4, <1>5, <1>6 DEF StateOK

\* Steps that neither mail nor log: a tick is as it was, its place aside while
\* nobody is on the way, or has nothing more to mail.
Calmer(t, u) ==
    \/ /\ u.person = t.person /\ u.domain = t.domain /\ u.todo = t.todo /\ u.budget = t.budget
       /\ u.person # None => u.pc = t.pc
    \/ /\ u.person = None /\ u.todo = {}
       /\ \A d \in Domains : u.budget[d] = 0

LEMMA QuietStep ==
    ASSUME TypeOK, StateOK, TypeOK',
           UNCHANGED <<pool, cap, highest, direct, sentToday, contacted, delivered, lost, raced>>,
           \A c \in Campaigns : Calmer(tick[c], tick'[c])
    PROVE  StateOK'
<1>1. TickOK'
  BY DEF StateOK, TickOK, TickFine, Calmer
<1>2. DirectOK'
  BY DEF StateOK, DirectOK
<1>3. LogOK'
  BY DEF StateOK, LogOK
<1>4. \A s \in Senders, p \in People : Claims(s, p)' => Claims(s, p)
  BY SendersAssumption DEF Claims, OnItsWay, Calmer
<1>5. OneClaim'
  BY <1>4 DEF StateOK, OneClaim
<1>6. PoolAgreesWithTheLog'
  BY DEF StateOK, PoolAgreesWithTheLog, Contacted
<1>7. CapOK'
  <2>1. \A c \in Campaigns, d \in Domains :
          sentToday[c][d] \in Nat /\ tick[c].budget[d] \in Nat /\ highest \in Nat
    BY CapsAssumption DEF TypeOK, Senders, Tick
  <2>2. \A c \in Campaigns, d \in Domains :
          tick'[c].budget[d] = tick[c].budget[d] \/ tick'[c].budget[d] = 0
    BY DEF Calmer
  <2> QED
    BY <2>1, <2>2 DEF StateOK, CapOK
<1> QED
  BY <1>1, <1>2, <1>3, <1>5, <1>6, <1>7 DEF StateOK

\* A mail starts: to somebody whom nobody has a record of, and whom nobody is
\* mailing unless the person is marked.
LEMMA CheckPassed ==
    ASSUME TypeOK, StateOK, NEW s \in Senders, NEW p \in People, PassCheck(p),
           UNCHANGED contacted,
           \A t \in Senders, q \in People : OnItsWay(t, q)' => OnItsWay(t, q) \/ (t = s /\ q = p)
    PROVE  OneClaim'
<1>1. raced \subseteq raced' /\ (p \notin raced' => ~Contacted(p) /\ ~InFlight(p))
  BY DEF PassCheck
<1>2. \A t \in Senders, q \in People : Claims(t, q)' => Claims(t, q) \/ (t = s /\ q = p)
  BY DEF Claims
<1>3. p \notin raced' => \A t \in Senders : ~Claims(t, p)
  BY <1>1 DEF Claims, Contacted, InFlight
<1> QED
  BY <1>1, <1>2, <1>3 DEF StateOK, OneClaim

LEMMA OnTheWay ==
    ASSUME TypeOK, NEW p \in People
    PROVE  /\ \A c \in Campaigns : OnItsWay(c, p) <=> tick[c].person = p
           /\ \A k \in Callers : OnItsWay(k, p) <=> direct[k].to = p
BY SendersAssumption DEF OnItsWay

LEMMA TickState ==
    ASSUME TypeOK, StateOK, TypeOK', NEW c \in Campaigns, TickStep(c) \/ NoAnswer(c)
    PROVE  StateOK'
<1> DEFINE t == tick[c]
           p == t.person
           d == t.domain
<1>1. /\ tick \in [Campaigns -> Tick] /\ t \in Tick /\ c \in Senders /\ c \notin Callers
      /\ None \notin People /\ None \notin Domains
      /\ \A b \in Campaigns : b \in Senders
      /\ \A k \in Callers : k \in Senders
  BY SendersAssumption DEF TypeOK, Senders
<1>2. Idle.person = None /\ Idle.todo = {} /\ \A e \in Domains : Idle.budget[e] = 0
  BY DEF Idle
<1>3. ASSUME UNCHANGED <<pool, cap, highest, direct, sentToday, contacted, delivered, lost, raced>>,
             tick' = tick \/ \E u : tick' = [tick EXCEPT ![c] = u] /\ Calmer(t, u)
      PROVE  StateOK'
  BY <1>1, <1>3, QuietStep DEF Calmer
<1>4. Calmer(t, Idle) /\ Calmer(t, [Idle EXCEPT !.pc = "drained", !.by = t.by])
        /\ \A by : Calmer(t, [Idle EXCEPT !.pc = "entered", !.by = by])
  BY <1>2 DEF Calmer, Idle
<1>5. CASE LoopTick(c) \/ SpawnedTick(c)
  BY <1>3, <1>4, <1>5 DEF LoopTick, SpawnedTick, Enter, sending
<1>6. CASE Recount(c) \/ Complete(c)
  BY <1>3, <1>4, <1>6 DEF Recount, Complete, Release, sending
<1>7. CASE Plan(c)
  <2>1. PICK b \in Budgets(c) :
          LET next == [tick[c] EXCEPT !.pc = "sending", !.budget = b, !.todo = Pending(c)]
          IN  CASE \A e \in Domains : mailbox[e] = "error" -> Release(c)
                [] Pending(c) = {} ->
                      tick' = [tick EXCEPT ![c].pc = "drained"] /\ UNCHANGED loop
                [] Spent(b) /\ Pending(c) # {} -> Release(c)
                [] OTHER -> tick' = [tick EXCEPT ![c] = next] /\ UNCHANGED loop
    BY <1>7 DEF Plan
  <2>2. p = None
    BY <1>7, <1>1 DEF Plan, StateOK, TickOK, TickFine
  <2>3. CASE Release(c)
    BY <1>3, <1>4, <1>7, <2>3 DEF Plan, Release, sending
  <2>4. CASE tick' = [tick EXCEPT ![c].pc = "drained"]
    <3>1. Calmer(t, [t EXCEPT !.pc = "drained"])
      BY <1>1, <2>2 DEF Calmer, Tick
    <3>2. tick' = [tick EXCEPT ![c] = [t EXCEPT !.pc = "drained"]]
      BY <2>4
    <3> QED
      BY <1>3, <1>7, <3>1, <3>2 DEF Plan, sending
  <2>5. CASE tick' = [tick EXCEPT ![c] = [t EXCEPT !.pc = "sending", !.budget = b, !.todo = Pending(c)]]
    <3>1. UNCHANGED <<pool, cap, highest, direct, sentToday, contacted, delivered, lost, raced>>
      BY <1>7 DEF Plan, sending
    <3>2. /\ tick'[c].person = None /\ tick'[c].todo = Pending(c) /\ tick'[c].budget = b
          /\ \A a \in Campaigns \ {c} : tick'[a] = tick[a]
      BY <2>2, <2>5, <1>1 DEF Tick
    <3>3. TickOK'
      BY <3>1, <3>2 DEF StateOK, TickOK, TickFine, Pending
    <3>4. DirectOK' /\ LogOK' /\ PoolAgreesWithTheLog'
      BY <3>1 DEF StateOK, DirectOK, LogOK, PoolAgreesWithTheLog, Contacted
    <3>5. \A s \in Senders, q \in People : Claims(s, q)' => Claims(s, q)
      BY <3>1, <3>2, <1>1 DEF Claims, OnItsWay
    <3>6. OneClaim'
      BY <3>1, <3>5 DEF StateOK, OneClaim
    <3>7. CapOK'
      <4>1. \A e \in Domains : sentToday[c][e] + b[e] <= highest
        <5> TAKE e \in Domains
        <5>1. b[e] \in Nat /\ (b[e] > 0 => sentToday[c][e] + b[e] <= cap)
          BY BudgetsBounds
        <5>2. /\ sentToday[c][e] \in Nat /\ cap \in Nat /\ highest \in Nat
              /\ tick[c].budget[e] \in Nat
          BY <1>1, CapsAssumption DEF TypeOK, Tick
        <5> QED
          BY <5>1, <5>2 DEF StateOK, CapOK
      <4> QED
        BY <4>1, <3>1, <3>2 DEF StateOK, CapOK
    <3> QED
      BY <3>3, <3>4, <3>6, <3>7 DEF StateOK
  <2> QED
    BY <2>1, <2>3, <2>4, <2>5
<1>8. CASE Suppress(c)
  <2>1. PICK q \in t.todo :
          /\ Contacted(q) /\ pool' = [pool EXCEPT ![c][q] = "suppressed"]
          /\ tick' = [tick EXCEPT ![c].todo = @ \ {q}]
    BY <1>8 DEF Suppress, SetPool
  <2>2. UNCHANGED <<cap, highest, direct, sentToday, contacted, delivered, lost, raced>>
    BY <1>8 DEF Suppress, sending
  <2>3. /\ p = None /\ q \in People /\ pool[c][q] = "pending"
        /\ tick'[c].person = None /\ tick'[c].todo = t.todo \ {q} /\ tick'[c].budget = t.budget
        /\ \A a \in Campaigns \ {c} : tick'[a] = tick[a]
    BY <1>1, <1>8, <2>1 DEF Suppress, BetweenMails, StateOK, TickOK, TickFine, Tick
  <2>4. /\ pool'[c][q] = "suppressed"
        /\ \A a \in Campaigns, r \in People : a # c \/ r # q => pool'[a][r] = pool[a][r]
    BY <2>1, <2>3 DEF TypeOK
  <2>5. TickOK'
    <3>1. \A a \in Campaigns : tick[a].todo \subseteq People /\ tick[a].person \in People \cup {None}
      BY <1>1 DEF Tick
    <3>2. ASSUME NEW a \in Campaigns, a # c
          PROVE  TickFine(a)'
      BY <3>1, <3>2, <2>3, <2>4 DEF StateOK, TickOK, TickFine
    <3>3. TickFine(c)'
      BY <3>1, <2>3, <2>4 DEF StateOK, TickOK, TickFine
    <3> QED
      BY <3>2, <3>3 DEF TickOK
  <2>6. DirectOK' /\ LogOK'
    BY <2>2 DEF StateOK, DirectOK, LogOK
  <2>7. PoolAgreesWithTheLog'
    BY <2>1, <2>2, <2>3, <2>4 DEF StateOK, PoolAgreesWithTheLog, Contacted
  <2>8. \A s \in Senders, r \in People : Claims(s, r)' => Claims(s, r)
    BY <1>1, <2>2, <2>3 DEF Claims, OnItsWay
  <2>9. OneClaim'
    BY <2>2, <2>8 DEF StateOK, OneClaim
  <2>10. CapOK'
    BY <2>2, <2>3 DEF StateOK, CapOK
  <2> QED
    BY <2>5, <2>6, <2>7, <2>9, <2>10 DEF StateOK
<1>9. CASE StartSend(c)
  <2>1. PICK q \in t.todo, e \in Domains :
          /\ Picks(c, e) /\ PassCheck(q)
          /\ tick' = [tick EXCEPT ![c].todo = @ \ {q}, ![c].person = q, ![c].domain = e]
    BY <1>9 DEF StartSend
  <2>2. UNCHANGED <<pool, cap, highest, direct, sentToday, contacted, delivered, lost>>
    BY <1>9 DEF StartSend
  <2>3. /\ q \in People /\ pool[c][q] = "pending" /\ t.budget[e] > 0 /\ t.pc = "sending"
        /\ tick'[c].person = q /\ tick'[c].domain = e /\ tick'[c].todo = t.todo \ {q}
        /\ tick'[c].budget = t.budget /\ tick'[c].pc = "sending"
        /\ \A a \in Campaigns \ {c} : tick'[a] = tick[a]
    BY <1>1, <1>9, <2>1 DEF StartSend, BetweenMails, Picks, StateOK, TickOK, TickFine, Tick
  <2>4. TickOK'
    BY <1>1, <2>2, <2>3 DEF StateOK, TickOK, TickFine
  <2>5. DirectOK' /\ LogOK' /\ PoolAgreesWithTheLog'
    BY <2>2 DEF StateOK, DirectOK, LogOK, PoolAgreesWithTheLog, Contacted
  <2>6. \A s \in Senders, r \in People : OnItsWay(s, r)' => OnItsWay(s, r) \/ (s = c /\ r = q)
    BY <1>1, <2>2, <2>3 DEF OnItsWay
  <2>7. OneClaim'
    BY <1>1, <2>1, <2>2, <2>3, <2>6, CheckPassed
  <2>8. CapOK'
    BY <2>2, <2>3 DEF StateOK, CapOK
  <2> QED
    BY <2>4, <2>5, <2>7, <2>8 DEF StateOK
<1>10. CASE Sent(c)
  <2>1. /\ p \in People /\ d \in Domains /\ pool[c][p] = "pending" /\ t.budget[d] > 0
        /\ p \notin t.todo /\ p \notin contacted[c]
    BY <1>1, <1>10 DEF Sent, OnTheWire, StateOK, TickOK, TickFine, PoolAgreesWithTheLog, Tick
  <2>2. /\ delivered' = [delivered EXCEPT ![c][p] = @ + 1]
        /\ contacted' = [contacted EXCEPT ![c] = @ \cup {p}]
        /\ sentToday' = [sentToday EXCEPT ![c][d] = @ + 1]
        /\ pool' = [pool EXCEPT ![c][p] = "sent"]
        /\ tick' = [tick EXCEPT ![c] = [NextMail(c) EXCEPT !.budget[d] = @ - 1]]
        /\ UNCHANGED <<cap, highest, direct, lost, raced>>
    BY <1>10 DEF Sent, Delivered, Record, SetPool
  <2>3. /\ tick'[c].person = None /\ tick'[c].todo = t.todo
        /\ tick'[c].budget = [t.budget EXCEPT ![d] = @ - 1]
        /\ \A a \in Campaigns \ {c} : tick'[a] = tick[a]
    BY <1>1, <2>2 DEF NextMail, Tick
  <2>4. /\ pool'[c][p] = "sent" /\ contacted'[c] = contacted[c] \cup {p}
        /\ \A a \in Campaigns, r \in People : a # c \/ r # p => pool'[a][r] = pool[a][r]
        /\ \A s \in Senders \ {c} : contacted'[s] = contacted[s]
    BY <1>1, <2>1, <2>2 DEF TypeOK
  <2>5. TickOK'
    <3>1. \A a \in Campaigns : tick[a].todo \subseteq People /\ tick[a].person \in People \cup {None}
      BY <1>1 DEF Tick
    <3>2. ASSUME NEW a \in Campaigns, a # c
          PROVE  TickFine(a)'
      BY <3>1, <3>2, <2>1, <2>3, <2>4 DEF StateOK, TickOK, TickFine
    <3>3. TickFine(c)'
      BY <3>1, <2>1, <2>3, <2>4 DEF StateOK, TickOK, TickFine
    <3> QED
      BY <3>2, <3>3 DEF TickOK
  <2>6. DirectOK'
    BY <1>1, <2>2, <2>4 DEF StateOK, DirectOK
  <2>7. LogOK'
    <3>1. delivered'[c][p] = delivered[c][p] + 1
          /\ \A s \in Senders, r \in People : s # c \/ r # p => delivered'[s][r] = delivered[s][r]
      BY <1>1, <2>1, <2>2 DEF TypeOK
    <3>2. \A s \in Senders, r \in People : lost[s][r] \in Nat
      BY DEF TypeOK
    <3> QED
      BY <1>1, <2>1, <2>2, <2>4, <3>1, <3>2 DEF StateOK, LogOK
  <2>8. PoolAgreesWithTheLog'
    <3>1. \A r \in People : Contacted(r) => Contacted(r)'
      BY <2>4 DEF Contacted
    <3>2. \A a \in Campaigns, r \in People : a # c \/ r # p =>
            delivered'[a][r] = delivered[a][r] /\ lost'[a][r] = lost[a][r]
      BY <1>1, <2>1, <2>2 DEF TypeOK
    <3>3. \A a \in Campaigns, r \in People : a # c \/ r # p => (r \in contacted'[a] <=> r \in contacted[a])
      BY <1>1, <2>4
    <3> QED
      BY <1>1, <2>1, <2>4, <3>1, <3>2, <3>3 DEF StateOK, PoolAgreesWithTheLog
  <2>9. \A s \in Senders, r \in People : Claims(s, r)' => Claims(s, r)
    <3>1. OnItsWay(c, p)
      BY <1>1 DEF OnItsWay
    <3> QED
      BY <1>1, <2>2, <2>3, <2>4, <3>1 DEF Claims, OnItsWay
  <2>10. OneClaim'
    BY <2>2, <2>9 DEF StateOK, OneClaim
  <2>11. CapOK'
    <3>1. /\ sentToday'[c][d] = sentToday[c][d] + 1
          /\ \A s \in Senders, e \in Domains : s # c \/ e # d => sentToday'[s][e] = sentToday[s][e]
      BY <1>1, <2>1, <2>2 DEF TypeOK
    <3>2. \A a \in Campaigns, e \in Domains : sentToday[a][e] \in Nat /\ tick[a].budget[e] \in Nat
      BY <1>1 DEF TypeOK, Tick
    <3>3. highest \in Nat
      BY CapsAssumption DEF TypeOK
    <3>4. /\ tick'[c].budget[d] = t.budget[d] - 1
          /\ \A e \in Domains \ {d} : tick'[c].budget[e] = t.budget[e]
      BY <1>1, <2>1, <2>3 DEF Tick
    <3>5. \A a \in Campaigns, e \in Domains : (sentToday[a][e] + tick[a].budget[e] <= highest)'
      BY <2>1, <2>2, <2>3, <3>1, <3>2, <3>3, <3>4, <1>1 DEF StateOK, CapOK
    <3> QED
      BY <1>1, <2>2, <3>1, <3>5 DEF StateOK, CapOK
  <2> QED
    BY <2>5, <2>6, <2>7, <2>8, <2>10, <2>11 DEF StateOK
<1>11. CASE Refused(c)
  <2>1. p \in People /\ pool[c][p] = "pending" /\ p \notin t.todo
    BY <1>1, <1>11 DEF Refused, OnTheWire, StateOK, TickOK, TickFine, Tick
  <2>2. /\ pool' = [pool EXCEPT ![c][p] = "failed"] /\ tick' = [tick EXCEPT ![c] = NextMail(c)]
        /\ UNCHANGED <<cap, highest, direct, sentToday, contacted, delivered, lost, raced>>
    BY <1>11 DEF Refused, SetPool, sending
  <2>3. /\ tick'[c].person = None /\ tick'[c].todo = t.todo /\ tick'[c].budget = t.budget
        /\ \A a \in Campaigns \ {c} : tick'[a] = tick[a]
    BY <1>1, <2>2 DEF NextMail, Tick
  <2>4. /\ pool'[c][p] = "failed"
        /\ \A a \in Campaigns, r \in People : a # c \/ r # p => pool'[a][r] = pool[a][r]
    BY <2>1, <2>2 DEF TypeOK
  <2>5. TickOK'
    <3>1. \A a \in Campaigns : tick[a].todo \subseteq People /\ tick[a].person \in People \cup {None}
      BY <1>1 DEF Tick
    <3>2. ASSUME NEW a \in Campaigns, a # c
          PROVE  TickFine(a)'
      BY <3>1, <3>2, <2>1, <2>3, <2>4 DEF StateOK, TickOK, TickFine
    <3>3. TickFine(c)'
      BY <3>1, <2>1, <2>3, <2>4 DEF StateOK, TickOK, TickFine
    <3> QED
      BY <3>2, <3>3 DEF TickOK
  <2>6. DirectOK' /\ LogOK'
    BY <2>2 DEF StateOK, DirectOK, LogOK
  <2>7. p \notin contacted[c] /\ delivered[c][p] = lost[c][p]
    <3>1. p \notin contacted[c]
      BY <2>1 DEF StateOK, PoolAgreesWithTheLog
    <3>2. lost[c][p] \in Nat
      BY <1>1, <2>1 DEF TypeOK
    <3> QED
      BY <1>1, <2>1, <3>1, <3>2 DEF StateOK, LogOK
  <2>8. PoolAgreesWithTheLog'
    BY <2>1, <2>2, <2>4, <2>7 DEF StateOK, PoolAgreesWithTheLog, Contacted
  <2>9. \A s \in Senders, r \in People : Claims(s, r)' => Claims(s, r)
    BY <1>1, <2>2, <2>3 DEF Claims, OnItsWay
  <2>10. OneClaim'
    BY <2>2, <2>9 DEF StateOK, OneClaim
  <2>11. CapOK'
    BY <2>2, <2>3 DEF StateOK, CapOK
  <2> QED
    BY <2>5, <2>6, <2>8, <2>10, <2>11 DEF StateOK
<1>12. CASE NoAnswer(c)
  <2>1. p \in People
    BY <1>1, <1>12 DEF NoAnswer, OnTheWire, Tick
  <2>2. /\ tick' = [tick EXCEPT ![c] = Idle]
        /\ UNCHANGED <<pool, cap, highest, direct, sentToday, contacted, raced>>
    BY <1>12 DEF NoAnswer, Release
  <2>3. CASE UNCHANGED <<delivered, lost>>
    BY <1>3, <1>4, <2>2, <2>3
  <2>4. CASE Delivered(c, p) /\ LoseRecord(c, p)
    <3>1. \A s \in Senders, r \in People :
            /\ delivered[s][r] \in Nat /\ lost[s][r] \in Nat
            /\ delivered'[s][r] = delivered[s][r] + (IF s = c /\ r = p THEN 1 ELSE 0)
            /\ lost'[s][r] = lost[s][r] + (IF s = c /\ r = p THEN 1 ELSE 0)
      BY <1>1, <2>1, <2>4 DEF Delivered, LoseRecord, TypeOK
    <3>2. LogOK'
      BY <2>2, <3>1 DEF StateOK, LogOK
    <3>3. PoolAgreesWithTheLog'
      BY <1>1, <2>2, <3>1 DEF StateOK, PoolAgreesWithTheLog, Contacted
    <3>4. /\ tick'[c] = Idle
          /\ \A a \in Campaigns \ {c} : tick'[a] = tick[a]
      BY <1>1, <2>2
    <3>5. TickOK' /\ DirectOK'
      BY <1>2, <2>2, <3>4 DEF StateOK, TickOK, TickFine, DirectOK
    <3>6. \A s \in Senders, r \in People : Claims(s, r)' => Claims(s, r)
      BY <1>1, <1>2, <2>2, <3>4 DEF Claims, OnItsWay
    <3>7. OneClaim'
      BY <2>2, <3>6 DEF StateOK, OneClaim
    <3>8. \A a \in Campaigns, e \in Domains :
            sentToday[a][e] \in Nat /\ tick[a].budget[e] \in Nat /\ highest \in Nat
      BY <1>1, CapsAssumption DEF TypeOK, Tick
    <3>9. CapOK'
      BY <1>2, <2>2, <3>4, <3>8 DEF StateOK, CapOK
    <3> QED
      BY <3>2, <3>3, <3>5, <3>7, <3>9 DEF StateOK
  <2> QED
    BY <1>12, <2>3, <2>4 DEF NoAnswer
<1> QED
  BY <1>5, <1>6, <1>7, <1>8, <1>9, <1>10, <1>11, <1>12 DEF TickStep

LEMMA DirectState ==
    ASSUME TypeOK, StateOK, TypeOK', NEW k \in Callers, DirectStep(k) \/ DirectNotFetched(k)
    PROVE  StateOK'
<1> DEFINE p == direct[k].to
           d == direct[k].domain
<1>1. /\ direct \in [Callers -> Direct] /\ k \in Senders /\ k \notin Campaigns
      /\ None \notin People /\ None \notin Domains
      /\ \A c \in Campaigns : c \in Senders
      /\ \A j \in Callers : j \in Senders /\ j \notin Campaigns
  BY SendersAssumption DEF TypeOK, Senders
<1>2. direct[k] # AtRest => p \in People /\ d \in Domains /\ p \notin contacted[k]
  BY <1>1 DEF StateOK, DirectOK, Direct
<1>3. /\ \A s \in Senders, r \in People : delivered[s][r] \in Nat /\ lost[s][r] \in Nat
      /\ \A s \in Senders, e \in Domains : sentToday[s][e] \in Nat
      /\ highest \in Nat /\ cap \in Nat
  BY CapsAssumption DEF TypeOK
<1>4. AtRest.to = None /\ AtRest.domain = None
  BY DEF AtRest
<1>5. CASE DirectCheck(k)
  <2>1. PICK q \in People, e \in Domains :
          /\ PassCheck(q) /\ SentToday(e) + 1 <= cap
          /\ direct' = [direct EXCEPT ![k] = [to |-> q, domain |-> e]]
    BY <1>5 DEF DirectCheck
  <2>2. UNCHANGED <<pool, cap, highest, tick, sentToday, contacted, delivered, lost>>
    BY <1>5 DEF DirectCheck
  <2>3. /\ direct'[k].to = q /\ direct'[k].domain = e
        /\ \A j \in Callers \ {k} : direct'[j] = direct[j]
    BY <1>1, <2>1
  <2>4. TickOK' /\ LogOK' /\ PoolAgreesWithTheLog'
    BY <2>2 DEF StateOK, TickOK, TickFine, LogOK, PoolAgreesWithTheLog, Contacted
  <2>5. DirectOK'
    <3>1. q \notin contacted[k]
      BY <1>1, <2>1 DEF PassCheck, Contacted
    <3> QED
      BY <1>1, <2>2, <2>3, <3>1 DEF StateOK, DirectOK
  <2>6. \A s \in Senders, r \in People : OnItsWay(s, r)' => OnItsWay(s, r) \/ (s = k /\ r = q)
    BY <1>1, <2>2, <2>3 DEF OnItsWay
  <2>7. OneClaim'
    BY <1>1, <2>1, <2>2, <2>6, CheckPassed
  <2>8. sentToday[k][e] + 1 <= highest
    <3>1. SentToday(e) \in Nat /\ sentToday[k][e] <= SentToday(e)
      BY <1>1, SendersFinite, SentTodayBounds DEF TypeOK
    <3> QED
      BY <1>1, <1>3, <2>1, <3>1 DEF StateOK, CapOK
  <2>9. CapOK'
    <3>1. \A j \in Callers, f \in Domains :
            sentToday[j][f] + (IF direct'[j].domain = f THEN 1 ELSE 0) <= highest
      BY <1>1, <1>3, <2>3, <2>8 DEF StateOK, CapOK
    <3> QED
      BY <2>2, <3>1 DEF StateOK, CapOK
  <2> QED
    BY <2>4, <2>5, <2>7, <2>9 DEF StateOK
<1>6. CASE DirectSent(k)
  <2>1. /\ direct[k] # AtRest
        /\ delivered' = [delivered EXCEPT ![k][p] = @ + 1]
        /\ contacted' = [contacted EXCEPT ![k] = @ \cup {p}]
        /\ sentToday' = [sentToday EXCEPT ![k][d] = @ + 1]
        /\ direct' = [direct EXCEPT ![k] = AtRest]
        /\ UNCHANGED <<pool, cap, highest, tick, lost, raced>>
    BY <1>6 DEF DirectSent, Delivered, Record
  <2>2. /\ direct'[k] = AtRest
        /\ \A j \in Callers \ {k} : direct'[j] = direct[j]
        /\ contacted'[k] = contacted[k] \cup {p}
        /\ \A s \in Senders \ {k} : contacted'[s] = contacted[s]
    BY <1>1, <2>1 DEF TypeOK
  <2>3. TickOK'
    BY <2>1 DEF StateOK, TickOK, TickFine
  <2>4. DirectOK'
    BY <1>1, <2>2 DEF StateOK, DirectOK
  <2>5. \A s \in Senders, r \in People :
          delivered'[s][r] = delivered[s][r] + (IF s = k /\ r = p THEN 1 ELSE 0)
    BY <1>1, <1>2, <2>1 DEF TypeOK
  <2>6. LogOK'
    BY <1>1, <1>2, <1>3, <2>1, <2>2, <2>5 DEF StateOK, LogOK
  <2>7. PoolAgreesWithTheLog'
    <3>1. \A r \in People : Contacted(r) => Contacted(r)'
      BY <2>2 DEF Contacted
    <3>2. \A c \in Campaigns, r \in People : delivered'[c][r] = delivered[c][r]
      BY <1>1, <1>3, <2>5
    <3> QED
      BY <1>1, <2>1, <2>2, <3>1, <3>2 DEF StateOK, PoolAgreesWithTheLog
  <2>8. \A s \in Senders, r \in People : Claims(s, r)' => Claims(s, r)
    <3>1. OnItsWay(k, p)
      BY <1>1 DEF OnItsWay
    <3> QED
      BY <1>1, <1>4, <2>1, <2>2, <3>1 DEF Claims, OnItsWay
  <2>9. OneClaim'
    BY <2>1, <2>8 DEF StateOK, OneClaim
  <2>10. CapOK'
    <3>1. /\ sentToday'[k][d] = sentToday[k][d] + 1
          /\ \A s \in Senders, e \in Domains : s # k \/ e # d => sentToday'[s][e] = sentToday[s][e]
      BY <1>1, <1>2, <2>1 DEF TypeOK
    <3>2. \A j \in Callers, e \in Domains :
            (sentToday[j][e] + (IF direct[j].domain = e THEN 1 ELSE 0) <= highest)'
      <4> TAKE j \in Callers, e \in Domains
      <4>1. CASE j = k
        BY <4>1, <1>1, <1>2, <1>3, <1>4, <2>1, <2>2, <3>1 DEF StateOK, CapOK
      <4>2. CASE j # k
        BY <4>2, <1>1, <2>1, <2>2, <3>1 DEF StateOK, CapOK
      <4> QED
        BY <4>1, <4>2
    <3>3. \A c \in Campaigns, e \in Domains : sentToday'[c][e] = sentToday[c][e]
      BY <1>1, <3>1
    <3> QED
      BY <2>1, <3>2, <3>3 DEF StateOK, CapOK
  <2> QED
    BY <2>3, <2>4, <2>6, <2>7, <2>9, <2>10 DEF StateOK
<1>7. CASE DirectRefused(k) \/ DirectNotFetched(k)
  <2>1. /\ direct' = [direct EXCEPT ![k] = AtRest] /\ direct[k] # AtRest
        /\ UNCHANGED <<pool, cap, highest, tick, sentToday, contacted, raced>>
    BY <1>7 DEF DirectRefused, DirectNotFetched, sending
  <2>2. direct'[k] = AtRest /\ \A j \in Callers \ {k} : direct'[j] = direct[j]
    BY <1>1, <2>1
  <2>3. \/ \A s \in Senders, r \in People : delivered'[s][r] = delivered[s][r] /\ lost'[s][r] = lost[s][r]
        \/ \A s \in Senders, r \in People :
             /\ delivered'[s][r] = delivered[s][r] + (IF s = k /\ r = p THEN 1 ELSE 0)
             /\ lost'[s][r] = lost[s][r] + (IF s = k /\ r = p THEN 1 ELSE 0)
    <3>1. CASE DirectRefused(k)
      BY <3>1 DEF DirectRefused, sending
    <3>2. CASE DirectNotFetched(k)
      BY <1>1, <1>2, <3>2 DEF DirectNotFetched, Delivered, LoseRecord, TypeOK
    <3> QED
      BY <1>7, <3>1, <3>2
  <2>4. TickOK'
    BY <2>1 DEF StateOK, TickOK, TickFine
  <2>5. DirectOK'
    BY <1>1, <2>1, <2>2 DEF StateOK, DirectOK
  <2>6. LogOK'
    BY <1>3, <2>1, <2>3 DEF StateOK, LogOK
  <2>7. PoolAgreesWithTheLog'
    BY <1>1, <1>3, <2>1, <2>3 DEF StateOK, PoolAgreesWithTheLog, Contacted
  <2>8. \A s \in Senders, r \in People : Claims(s, r)' => Claims(s, r)
    BY <1>1, <1>4, <2>1, <2>2 DEF Claims, OnItsWay
  <2>9. OneClaim'
    BY <2>1, <2>8 DEF StateOK, OneClaim
  <2>10. CapOK'
    <3>1. \A j \in Callers, e \in Domains :
            sentToday[j][e] + (IF direct'[j].domain = e THEN 1 ELSE 0) <= highest
      <4> TAKE j \in Callers, e \in Domains
      <4>1. CASE j = k
        BY <4>1, <1>1, <1>3, <1>4, <2>2 DEF StateOK, CapOK
      <4>2. CASE j # k
        BY <4>2, <2>2 DEF StateOK, CapOK
      <4> QED
        BY <4>1, <4>2
    <3> QED
      BY <2>1, <3>1 DEF StateOK, CapOK
  <2> QED
    BY <2>4, <2>5, <2>6, <2>7, <2>9, <2>10 DEF StateOK
<1> QED
  BY <1>5, <1>6, <1>7 DEF DirectStep

LEMMA SharedState ==
    ASSUME TypeOK, StateOK, TypeOK', TickAll \/ NextCampaign \/ SetCap \/ Midnight \/ Restart
    PROVE  StateOK'
<1>1. /\ \A c \in Campaigns : c \in Senders /\ tick[c] \in Tick
      /\ \A k \in Callers : k \in Senders /\ direct[k] \in Direct
      /\ None \notin People /\ None \notin Domains
  BY SendersAssumption DEF TypeOK, Senders
<1>2. /\ \A s \in Senders, r \in People : delivered[s][r] \in Nat /\ lost[s][r] \in Nat
      /\ \A s \in Senders, e \in Domains : sentToday[s][e] \in Nat
      /\ \A c \in Campaigns, e \in Domains : tick[c].budget[e] \in Nat
      /\ highest \in Nat /\ cap \in Nat
  BY <1>1, CapsAssumption DEF TypeOK, Tick
<1>3. CASE TickAll \/ NextCampaign
  BY <1>3, QuietStep DEF TickAll, NextCampaign, sending, Calmer
<1>4. CASE SetCap
  <2>1. cap' \in Nat /\ highest' \in Nat /\ highest <= highest' /\ cap' <= highest'
    BY <1>2, <1>4, CapsAssumption, LargerOfTwo DEF SetCap
  <2>2. UNCHANGED <<pool, tick, direct, sentToday, contacted, delivered, lost, raced>>
    BY <1>4 DEF SetCap, sending
  <2>3. TickOK' /\ DirectOK' /\ LogOK' /\ PoolAgreesWithTheLog'
    BY <2>2 DEF StateOK, TickOK, TickFine, DirectOK, LogOK, PoolAgreesWithTheLog, Contacted
  <2>4. OneClaim'
    BY <2>2 DEF StateOK, OneClaim, Claims, OnItsWay
  <2>5. CapOK'
    BY <1>1, <1>2, <2>1, <2>2 DEF StateOK, CapOK
  <2> QED
    BY <2>3, <2>4, <2>5 DEF StateOK
<1>5. CASE Midnight
  <2>1. /\ \A s \in Senders, e \in Domains : sentToday'[s][e] = 0
        /\ UNCHANGED <<pool, cap, highest, tick, direct, contacted, delivered, lost, raced>>
    BY <1>5 DEF Midnight
  <2>2. TickOK' /\ DirectOK' /\ LogOK' /\ PoolAgreesWithTheLog'
    BY <2>1 DEF StateOK, TickOK, TickFine, DirectOK, LogOK, PoolAgreesWithTheLog, Contacted
  <2>3. OneClaim'
    BY <2>1 DEF StateOK, OneClaim, Claims, OnItsWay
  <2>4. CapOK'
    BY <1>1, <1>2, <2>1 DEF StateOK, CapOK
  <2> QED
    BY <2>2, <2>3, <2>4 DEF StateOK
<1>6. CASE Restart
  <2>1. PICK taken \in SUBSET {sp \in Senders \X People : OnItsWay(sp[1], sp[2])} :
          LET more == [s \in Senders |-> [p \in People |-> IF <<s, p>> \in taken THEN 1 ELSE 0]]
          IN  /\ delivered' = [s \in Senders |-> [p \in People |-> delivered[s][p] + more[s][p]]]
              /\ lost' = [s \in Senders |-> [p \in People |-> lost[s][p] + more[s][p]]]
    BY <1>6 DEF Restart
  <2>2. \A s \in Senders, r \in People : \E m \in {0, 1} :
          delivered'[s][r] = delivered[s][r] + m /\ lost'[s][r] = lost[s][r] + m
    BY <2>1
  <2>3. /\ \A c \in Campaigns : tick'[c] = Idle
        /\ \A k \in Callers : direct'[k] = AtRest
        /\ UNCHANGED <<pool, cap, highest, sentToday, contacted, raced>>
    BY <1>6 DEF Restart
  <2>4. /\ Idle.person = None /\ Idle.todo = {} /\ \A e \in Domains : Idle.budget[e] = 0
        /\ AtRest.to = None /\ AtRest.domain = None
    BY DEF Idle, AtRest
  <2>5. TickOK' /\ DirectOK'
    BY <2>3, <2>4 DEF TickOK, TickFine, DirectOK
  <2>6. LogOK'
    BY <1>2, <2>2, <2>3 DEF StateOK, LogOK
  <2>7. PoolAgreesWithTheLog'
    BY <1>1, <1>2, <2>2, <2>3 DEF StateOK, PoolAgreesWithTheLog, Contacted
  <2>8. \A s \in Senders, r \in People : Claims(s, r)' => Claims(s, r)
    BY <1>1, <2>3, <2>4 DEF Claims, OnItsWay
  <2>9. OneClaim'
    BY <2>3, <2>8 DEF StateOK, OneClaim
  <2>10. CapOK'
    BY <1>1, <1>2, <2>3, <2>4 DEF StateOK, CapOK
  <2> QED
    BY <2>5, <2>6, <2>7, <2>9, <2>10 DEF StateOK
<1> QED
  BY <1>3, <1>4, <1>5, <1>6

LEMMA RequestState ==
    ASSUME TypeOK, StateOK, TypeOK', NEW u \in Users,
           \/ CommitStatus(u) \/ CommitAdd(u)
           \/ \E c \in Campaigns :
                ReadForStart(u, c) \/ ReadForPause(u, c) \/ ReadForCancel(u, c) \/ ReadForAdd(u, c),
           RequestOK
    PROVE  StateOK'
<1>1. CASE CommitAdd(u)
  <2>1. request[u] \in [op : {"add"}, of : Campaigns, pending : SUBSET People,
                        suppressed : SUBSET People]
    <3>1. request[u] \in Request
      BY DEF TypeOK
    <3> QED
      BY <1>1, <3>1 DEF CommitAdd, Request, NoRequest, None
  <2>2. UNCHANGED <<cap, highest, tick, direct, sentToday, contacted, delivered, lost, raced>>
    BY <1>1 DEF CommitAdd, sending
  <2>3. \A c \in Campaigns, p \in People :
          \/ pool'[c][p] = pool[c][p]
          \/ pool[c][p] = "none" /\ pool'[c][p] = "pending"
          \/ pool[c][p] = "none" /\ pool'[c][p] = "suppressed" /\ p \in request[u].suppressed
    BY <1>1, <2>1 DEF CommitAdd, TypeOK
  <2>4. TickOK'
    <3>1. \A c \in Campaigns : tick[c].todo \subseteq People /\ tick[c].person \in People \cup {None}
      BY DEF TypeOK, Tick
    <3> QED
      BY <2>2, <2>3, <3>1 DEF StateOK, TickOK, TickFine
  <2>5. DirectOK' /\ LogOK'
    BY <2>2 DEF StateOK, DirectOK, LogOK
  <2>6. PoolAgreesWithTheLog'
    BY <2>1, <2>2, <2>3 DEF StateOK, PoolAgreesWithTheLog, Contacted, RequestOK
  <2>7. OneClaim'
    BY <2>2 DEF StateOK, OneClaim, Claims, OnItsWay
  <2>8. CapOK'
    BY <2>2 DEF StateOK, CapOK
  <2> QED
    BY <2>4, <2>5, <2>6, <2>7, <2>8 DEF StateOK
<1>2. CASE ~CommitAdd(u)
  BY <1>2, QuietStep DEF CommitStatus, ReadForStart, ReadForPause, ReadForCancel, ReadForAdd, Read,
     sending, Calmer
<1> QED
  BY <1>1, <1>2

\* The log only grows, so what a merge has read of it stays true.
LEMMA RequestKept == CampaignInv /\ [Next]_vars => RequestOK'
<1> SUFFICES ASSUME CampaignInv, [Next]_vars PROVE RequestOK'
  OBVIOUS
<1>1. request \in [Users -> Request] /\ RequestOK /\ TypeOK
  BY DEF CampaignInv, TypeOK
<1>2. CASE UNCHANGED <<request, contacted>>
  BY <1>1, <1>2 DEF RequestOK, Contacted
<1>3. CASE UNCHANGED request /\ \A s \in Senders : contacted[s] \subseteq contacted'[s]
  BY <1>1, <1>3 DEF RequestOK, Contacted
<1>4. CASE UNCHANGED vars
  BY <1>2, <1>4 DEF vars, sending
<1>5. CASE TickAll \/ NextCampaign \/ SetCap \/ Midnight
  BY <1>2, <1>5 DEF TickAll, NextCampaign, SetCap, Midnight, sending
<1>6. CASE Restart
  BY <1>6 DEF Restart, RequestOK, NoRequest, None
<1>7. ASSUME NEW c \in Campaigns, TickStep(c) \/ NoAnswer(c)
      PROVE  RequestOK'
  <2>1. CASE Sent(c)
    BY <1>1, <1>3, <2>1 DEF Sent, Record, TypeOK
  <2>2. CASE ~Sent(c)
    BY <1>2, <1>7, <2>2 DEF TickStep, LoopTick, SpawnedTick, Plan, Suppress, StartSend, Refused,
       NoAnswer, Recount, Complete, sending
  <2> QED
    BY <2>1, <2>2
<1>8. ASSUME NEW k \in Callers, DirectStep(k) \/ DirectNotFetched(k)
      PROVE  RequestOK'
  <2>1. CASE DirectSent(k)
    BY <1>1, <1>3, <2>1 DEF DirectSent, Record, TypeOK
  <2>2. CASE ~DirectSent(k)
    BY <1>2, <1>8, <2>2 DEF DirectStep, DirectCheck, DirectRefused, DirectNotFetched, sending
  <2> QED
    BY <2>1, <2>2
<1>9. ASSUME NEW u \in Users, CommitStatus(u) \/ CommitAdd(u)
      PROVE  RequestOK'
  <2>1. request' = [request EXCEPT ![u] = NoRequest] /\ UNCHANGED contacted
    BY <1>9 DEF CommitStatus, CommitAdd, Answered, sending
  <2> QED
    BY <1>1, <2>1 DEF RequestOK, Contacted, NoRequest, None
<1>10. ASSUME NEW u \in Users, NEW c \in Campaigns,
              ReadForStart(u, c) \/ ReadForPause(u, c) \/ ReadForCancel(u, c) \/ ReadForAdd(u, c)
       PROVE  RequestOK'
  <2>1. PICK r : /\ r.op = "add" => \A p \in r.suppressed : Contacted(p)
                 /\ request' = [request EXCEPT ![u] = r] /\ UNCHANGED contacted
    BY <1>10 DEF ReadForStart, ReadForPause, ReadForCancel, ReadForAdd, Read, sending
  <2> QED
    BY <1>1, <2>1 DEF RequestOK, Contacted
<1>11. ASSUME NEW d \in Domains, Synced(d)
       PROVE  RequestOK'
  BY <1>2, <1>11 DEF Synced, sending
<1> QED
  BY <1>4, <1>5, <1>6, <1>7, <1>8, <1>9, <1>10, <1>11 DEF Next

LEMMA CampaignInit == Init => CampaignInv
BY InitTyped, InitState DEF CampaignInv

LEMMA CampaignStep == CampaignInv /\ [Next]_vars => CampaignInv'
<1> SUFFICES ASSUME CampaignInv, [Next]_vars PROVE CampaignInv'
  OBVIOUS
<1>1. TypeOK /\ StateOK /\ RequestOK
  BY DEF CampaignInv
<1>2. TypeOK'
  BY <1>1, TypeKept DEF StateOK
<1>3. RequestOK'
  BY RequestKept
<1>4. StateOK'
  <2>1. CASE UNCHANGED vars
    BY <1>1, <1>2, <2>1, QuietStep DEF vars, sending, Calmer
  <2>2. ASSUME NEW d \in Domains, Synced(d)
        PROVE  StateOK'
    BY <1>1, <1>2, <2>2, QuietStep DEF Synced, sending, Calmer
  <2> QED
    BY <1>1, <1>2, <2>1, <2>2, SharedState, TickState, DirectState, RequestState DEF Next
<1> QED
  BY <1>2, <1>3, <1>4 DEF CampaignInv

LEMMA InvariantHolds == Spec => []CampaignInv
BY CampaignInit, CampaignStep, PTL DEF Spec

-----------------------------------------------------------------------------
(***************************************************************************)
(* The rows are true, and keep everybody from being mailed twice: by one   *)
(* sender beyond what was lost, and by two senders that did not pass the   *)
(* check side by side (campaigns.py: suppression_reason, _tick_locked,     *)
(* _send_one; mail.py: do_send).                                           *)
(***************************************************************************)
THEOREM MailStaysSingle == Spec => []RowsKeepMailSingle
<1>1. CampaignInv => RowsKeepMailSingle
  <2> SUFFICES ASSUME CampaignInv PROVE RowsKeepMailSingle
    OBVIOUS
  <2>1. TypeOK /\ PoolAgreesWithTheLog /\ LogOK /\ OneClaim
    BY DEF CampaignInv, StateOK
  <2>2. \A s \in Senders, p \in People : delivered[s][p] \in Nat /\ lost[s][p] \in Nat
    BY <2>1 DEF TypeOK
  <2>3. NobodyTwiceBySender
    BY <2>1, <2>2 DEF NobodyTwiceBySender, LogOK
  <2>4. \A s \in Senders, p \in People : delivered[s][p] > lost[s][p] => Claims(s, p)
    BY <2>1, <2>2 DEF LogOK, Claims
  <2>5. SuppressionHoldsAcrossSenders
    BY <2>1, <2>4 DEF SuppressionHoldsAcrossSenders, OneClaim
  <2> QED
    BY <2>1, <2>3, <2>5 DEF RowsKeepMailSingle, RowsMatchTheLog, NobodyIsMailedTwice
<1> QED
  BY <1>1, InvariantHolds, PTL

(***************************************************************************)
(* No sender records more than the largest cap from a domain in a day:     *)
(* what it has sent and the budget it opened together stay within it       *)
(* (campaigns.py: _budget, enforce_direct_send).                           *)
(***************************************************************************)
THEOREM SendersKeepTheCap == Spec => []NoSenderExceedsTheCap
<1>1. CampaignInv => NoSenderExceedsTheCap
  <2> SUFFICES ASSUME CampaignInv, NEW s \in Senders, NEW d \in Domains
               PROVE  sentToday[s][d] <= highest
    BY DEF NoSenderExceedsTheCap
  <2>1. sentToday[s][d] \in Nat /\ highest \in Nat
    BY CapsAssumption DEF CampaignInv, TypeOK
  <2>2. CASE s \in Campaigns
    <3>1. tick[s].budget[d] \in Nat
      BY <2>2 DEF CampaignInv, TypeOK, Tick
    <3> QED
      BY <2>1, <2>2, <3>1 DEF CampaignInv, StateOK, CapOK
  <2>3. CASE s \in Callers
    BY <2>1, <2>3 DEF CampaignInv, StateOK, CapOK
  <2> QED
    BY <2>2, <2>3 DEF Senders
<1> QED
  BY <1>1, InvariantHolds, PTL

-----------------------------------------------------------------------------
(***************************************************************************)
(* Neither cursor of a mailbox moves over mail that is not stored and not  *)
(* Lost, for every number of messages, page size, cap, removal, failure    *)
(* and send.                                                               *)
(*                                                                         *)
(* The argument counts in message numbers.  A page is the top of what lies *)
(* below its token, so nothing lies between a page and the next (PageFacts,*)
(* from cardinalities).  History tells arrivals in their order, so what is *)
(* told up to a place in it has told every older arrival as well.  Between *)
(* cycles nothing is missing below a stored message but what lies ahead of *)
(* the backfill or was hidden (NoGap); a catch-up, which fills the archive *)
(* from the top, keeps that of the part that it has not walked and of the  *)
(* part that it has walked down to where it is (WalkedOK), which is why it *)
(* may stop at the first page without news.                                *)
(***************************************************************************)
(***************************************************************************)
(* What a cycle has in hand, what the history says up to a place in it,    *)
(* and what a message needs: to be stored, or to lie ahead of the backfill.*)
(***************************************************************************)
Upcoming(m) == m \in sync.todo \cup sync.staged
Told(kind, n, m) == \E i \in DOMAIN log : i <= n /\ log[i] = [kind |-> kind, id |-> m]
Reached(m) == Stored(m) \/ m < account.token
Accounted(m) == Reached(m) \/ m \in excuses.hidden

(* The history tells the arrivals in their order, and removals are final.  *)
HistoryOK ==
    /\ \A m \in (Old + 1)..arrived : Told("added", Len(log), m)
    /\ \A i, j \in DOMAIN log :
          log[i].kind = "added" /\ log[j].kind = "added" /\ log[i].id < log[j].id => i < j
    /\ \A i \in DOMAIN log : log[i].kind = "added" => log[i].id \in (Old + 1)..arrived
    /\ \A i \in DOMAIN log : log[i].kind = "removed" => log[i].id \in (1..arrived) \ box

(* What each phase of a cycle keeps in its fields.                         *)
CycleOK ==
    /\ \A m \in Ids : Stored(m) \/ Upcoming(m) => m <= arrived
    /\ mirror.pc # "none" => mirror.id \in 1..arrived
    /\ sync.pc \in {"idle", "history", "backfill", "catchup", "reanchor"} =>
          sync.todo = {} /\ sync.staged = {}
    /\ sync.pc = "history" => sync.below = Top
    /\ sync.pc \in {"catchup", "caught", "backfill", "page"} => sync.pages >= 1
    /\ CatchingUp => \A kind \in {"added", "removed"}, m \in Ids :
          Told(kind, sync.upto, m) => Told(kind, account.anchor, m) \/ m \in excuses.lapsed
    /\ sync.pc = "fetch" => account.anchor <= sync.upto
    /\ sync.pc = "fetch" => /\ \A m \in Ids : Upcoming(m) => Told("added", sync.upto, m)
                            /\ \A m \in sync.staged, n \in sync.todo : m < n
    /\ sync.pc = "page" => /\ sync.next <= account.token
                           /\ \A m \in Ids : Upcoming(m) => m < account.token
    /\ sync.pc = "caught" => /\ sync.next <= sync.below
                             /\ sync.next # 0 => sync.next < sync.below
                             /\ \A m \in Ids : Upcoming(m) => sync.next <= m /\ m < sync.below
                             /\ ~sync.fresh /\ sync.next # 0 => Stored(sync.next)
    /\ sync.pc = "reanchor" =>
          sync.below = sync.next /\ (~sync.fresh /\ sync.next # 0 => sync.next \in Ids /\ Stored(sync.next))

(* The page being stored leaves no old mail out.                           *)
PageOK ==
    sync.pc = "page" => \A m \in box :
        m <= Old /\ sync.next <= m /\ m < account.token => Stored(m) \/ Upcoming(m)

(* Removals: what is staged was there after the history that is applied.   *)
Applied == IF sync.pc = "fetch" THEN sync.upto ELSE account.anchor
RemovalsOK ==
    /\ sync.pc = "fetch" => \A m \in Ids :
          Told("removed", sync.upto, m) => m \in sync.gone \/ Told("removed", account.anchor, m)
    /\ \A m \in sync.staged : ~Told("removed", Applied, m)

(***************************************************************************)
(* Arrivals.  Below a stored message nothing is missing but what lies      *)
(* ahead of the backfill or is hidden; a catch-up keeps this of what it    *)
(* has not walked yet, and of what it has walked down to where it is.      *)
(***************************************************************************)
Under(m) == \E n \in Ids : m < n /\ Stored(n)
UnderComing(m) == \E n \in Ids : m < n /\ (Stored(n) \/ Upcoming(n))

NoGap == \A m \in box : Under(m) => Accounted(m)

WalkedOK ==
    /\ \A m \in box : sync.below <= m /\ (Told("added", sync.upto, m) \/ Under(m)) => Accounted(m)
    /\ \A m \in box, n \in Ids : m < n /\ n < sync.below /\ Stored(n) => Accounted(m)

CaughtOK ==
    \A m \in box : sync.next <= m /\ m < sync.below
                    /\ (Told("added", sync.upto, m) \/ UnderComing(m))
                        => Accounted(m) \/ Upcoming(m)

FetchedOK ==
    \A m \in box : Told("added", sync.upto, m) => Reached(m) \/ Upcoming(m) \/ Lost(m)

PagedOK ==
    \A m \in box : sync.next <= m /\ m < account.token =>
        /\ Told("added", account.anchor, m) => Stored(m) \/ Upcoming(m)
        /\ UnderComing(m) => Stored(m) \/ Upcoming(m) \/ m \in excuses.hidden

ArrivalsOK ==
    /\ ~CatchingUp => NoGap
    /\ CatchingUp => WalkedOK
    /\ sync.pc = "caught" => CaughtOK
    /\ sync.pc = "fetch" => FetchedOK
    /\ sync.pc = "page" => PagedOK
    /\ sync.pc = "reanchor" /\ ~sync.fresh /\ sync.next # 0 =>
          \A m \in box : m < sync.below => Accounted(m)

SyncInv ==
    /\ SyncOK /\ HistoryOK /\ CycleOK /\ PageOK /\ RemovalsOK /\ ArrivalsOK
    /\ BackfillSkipsNothing /\ AnchorLeavesNothingBehind

-----------------------------------------------------------------------------
(***************************************************************************)
(* Pages and the history.                                                  *)
(***************************************************************************)
LEMMA LeastOfNaturals ==
    ASSUME NEW S \in SUBSET Nat, S # {}
    PROVE  Min(S) \in S /\ \A m \in S : Min(S) <= m
<1>1. PICK n \in S : \A m \in S : <<m, n>> \notin OpToRel(<, Nat)
  BY NatLessThanWellFounded, WFMin
<1>2. \A m \in S : ~(m < n)
  BY <1>1 DEF OpToRel
<1>3. \A m \in S : n <= m
  BY <1>2
<1> QED
  BY <1>3 DEF Min

LEMMA LargestBelow ==
    ASSUME NEW S \in SUBSET Nat, S # {}, NEW b \in Nat, \A m \in S : m <= b
    PROVE  Max(S) \in S /\ \A m \in S : m <= Max(S)
<1> DEFINE R == {b - m : m \in S}
<1>1. R \in SUBSET Nat /\ R # {}
  <2>1. \A m \in S : b - m \in Nat
    OBVIOUS
  <2> QED
    BY <2>1
<1>2. PICK r \in R : \A q \in R : r <= q
  BY <1>1, LeastOfNaturals
<1>3. PICK n \in S : r = b - n
  BY <1>2
<1>4. \A m \in S : b - n <= b - m
  BY <1>2, <1>3
<1>5. \A m \in S : m <= n
  BY <1>4
<1> QED
  BY <1>5 DEF Max

(* A page holds the newest messages below its token, and the next page     *)
(* starts at the oldest of them: nothing lies between.                     *)
LEMMA PageFacts ==
    ASSUME arrived \in Nat, box \subseteq 1..arrived, NEW t \in Nat
    PROVE  /\ \A m \in Page(t) : m \in box /\ m < t /\ NextToken(t) <= m
           /\ \A m \in box : NextToken(t) <= m /\ m < t => m \in Page(t)
           /\ NextToken(t) \in Nat
           /\ NextToken(t) # 0 => NextToken(t) \in Page(t)
<1>0. box \in SUBSET Nat
  OBVIOUS
<1>1. Page(t) \in SUBSET Nat /\ \A m \in Page(t) : m \in box /\ m < t
  <2>1. \A m \in Page(t) : m \in box /\ m < t
    BY DEF Page
  <2> QED
    BY <1>0, <2>1
<1>2. CASE ~\E m \in box : m < t /\ m \notin Page(t)
  BY <1>1, <1>2 DEF NextToken
<1>3. CASE \E m \in box : m < t /\ m \notin Page(t)
  <2> DEFINE below == {m \in box : m < t}
             top == Max(below)
  <2>0. below \in SUBSET Nat /\ below # {} /\ \A m \in below : m <= t
    <3>1. \A m \in below : m \in Nat /\ m < t
      BY <1>0
    <3>2. \A m \in below : m <= t
      BY <3>1
    <3> QED
      BY <1>3, <3>1, <3>2
  <2>1. top \in below /\ \A m \in below : m <= top
    <3> HIDE DEF below
    <3> QED
      BY <2>0, LargestBelow
  <2>2. top \in Page(t)
    <3> DEFINE above == {n \in box : top < n /\ n < t}
    <3> HIDE DEF top
    <3>1. top \in Nat /\ \A n \in below : ~(top < n)
      BY <1>0, <2>1
    <3>2. above = {}
      BY <3>1
    <3>3. Cardinality(above) = 0
      BY <3>2, FS_EmptySet
    <3>4. PageSize \in Nat /\ PageSize # 0
      BY SizesAssumption
    <3>5. Cardinality(above) < PageSize
      BY <3>3, <3>4
    <3> QED
      BY <2>1, <3>5 DEF Page
  <2> DEFINE p == Min(Page(t))
  <2>3. p \in Page(t) /\ \A m \in Page(t) : p <= m
    BY <1>1, <2>2, LeastOfNaturals
  <2>4. NextToken(t) = p
    BY <1>3 DEF NextToken
  <2> HIDE DEF p
  <2>5. ASSUME NEW m \in box, p <= m, m < t
        PROVE  m \in Page(t)
    <3> DEFINE A == {n \in box : m < n /\ n < t}
               B == {n \in box : p < n /\ n < t}
    <3>1. p \in box /\ Cardinality(B) < PageSize
      BY <2>3 DEF Page
    <3>2. IsFiniteSet(box)
      <4>1. IsFiniteSet(1..arrived) /\ box \in SUBSET (1..arrived)
        BY FS_Interval
      <4> QED
        BY <4>1, FS_Subset
    <3>3. B \in SUBSET box /\ A \in SUBSET B
      <4>1. \A n \in A : n \in box /\ n \in Nat /\ m < n /\ n < t
        BY <1>0
      <4>2. p \in Nat /\ m \in Nat
        BY <1>0, <3>1
      <4>3. \A n \in A : p < n
        BY <2>5, <4>1, <4>2
      <4> QED
        BY <4>1, <4>3
    <3>4. IsFiniteSet(B) /\ Cardinality(A) <= Cardinality(B)
      BY <3>2, <3>3, FS_Subset
    <3>5. Cardinality(A) \in Nat /\ Cardinality(B) \in Nat
      BY <3>3, <3>4, FS_Subset, FS_CardinalityType
    <3>6. Cardinality(A) < PageSize
      BY <3>1, <3>4, <3>5, SizesAssumption
    <3> QED
      BY <2>5, <3>6 DEF Page
  <2> QED
    BY <1>1, <2>3, <2>4, <2>5
<1> QED
  BY <1>2, <1>3

LEMMA ToldAppended ==
    ASSUME NEW e \in [kind : {"added", "removed"}, id : Ids],
           log \in Seq([kind : {"added", "removed"}, id : Ids]), log' = Append(log, e),
           NEW kind, NEW n \in 0..Len(log), NEW m
    PROVE  Told(kind, n, m)' <=> Told(kind, n, m)
BY DEF Told

LEMMA ToldKept ==
    ASSUME log' = log, NEW kind, NEW n, NEW m
    PROVE  Told(kind, n, m)' <=> Told(kind, n, m)
BY DEF Told

LEMMA ToldLater ==
    ASSUME log \in Seq([kind : {"added", "removed"}, id : Ids]),
           NEW kind, NEW n \in Nat, NEW k \in Nat, n <= k, NEW m, Told(kind, n, m)
    PROVE  Told(kind, k, m)
BY DEF Told

(* What was removed is gone, and an older arrival was told of earlier.     *)
LEMMA RemovedIsGone ==
    ASSUME HistoryOK, NEW n, NEW m, Told("removed", n, m)
    PROVE  m \notin box
BY DEF HistoryOK, Told

LEMMA OlderToldEarlier ==
    ASSUME HistoryOK, log \in Seq([kind : {"added", "removed"}, id : Ids]), NEW n \in Nat,
           NEW k \in Nat, Told("added", n, k), NEW m \in (Old + 1)..arrived, m < k
    PROVE  Told("added", n, m)
<1>1. PICK i \in DOMAIN log : i <= n /\ log[i] = [kind |-> "added", id |-> k]
  BY DEF Told
<1>2. PICK j \in DOMAIN log : log[j] = [kind |-> "added", id |-> m]
  BY DEF HistoryOK, Told
<1>3. j < i
  BY <1>1, <1>2 DEF HistoryOK
<1> QED
  BY <1>1, <1>2, <1>3 DEF Told

-----------------------------------------------------------------------------
(***************************************************************************)
(* Types.                                                                  *)
(***************************************************************************)
SyncType ==
    [pc : {"idle", "history", "fetch", "catchup", "caught", "reanchor", "backfill", "page"},
     todo : SUBSET Ids, gone : SUBSET Ids, staged : SUBSET Ids, upto : 0..Len(log),
     below : 0..Top, next : 0..Top, pages : 0..(CyclePages + CatchUpPages),
     fresh : BOOLEAN, backup : BOOLEAN]

AccountType == [anchor : 0..Len(log), token : 0..Top, done : BOOLEAN, authorized : BOOLEAN]
EntryType == [kind : {"added", "removed"}, id : Ids]
RowsType == [Ids -> {"absent", "live", "deleted"}]
ExcusesType == [hidden : SUBSET Ids, lapsed : SUBSET Ids]

(* What is excused stays excused. *)
Excusing == excuses.hidden \subseteq excuses'.hidden /\ excuses.lapsed \subseteq excuses'.lapsed

LEMMA Sizes ==
    /\ Old \in Nat /\ Arrivals \in Nat /\ PageSize \in Nat \ {0} /\ CyclePages \in Nat \ {0}
    /\ CatchUpPages \in Nat \ {0} /\ Top \in Nat /\ Top = Old + Arrivals + 1
    /\ Ids = 1..(Old + Arrivals) /\ MaxFaults \in Nat /\ MaxSends \in Nat
BY SizesAssumption DEF Top, Ids

LEMMA Typed ==
    SyncOK <=> /\ arrived \in Old..(Old + Arrivals) /\ box \subseteq 1..arrived
               /\ log \in Seq(EntryType) /\ kept \in 0..Len(log)
               /\ archive \in RowsType /\ account \in AccountType /\ sync \in SyncType
               /\ mirror \in [id : Ids \cup {0}, pc : {"none", "sent", "insert", "update"}]
               /\ excuses \in ExcusesType
               /\ faults \in 0..MaxFaults /\ sends \in 0..MaxSends
BY DEF SyncOK, EntryType, RowsType, ExcusesType, AccountType, SyncType

(* The numbers that the proofs count with. *)
LEMMA Numbers ==
    ASSUME SyncOK
    PROVE  /\ arrived \in Nat /\ box \in SUBSET (1..arrived) /\ box \in SUBSET Ids
           /\ arrived <= Old + Arrivals /\ Len(log) \in Nat
           /\ account.anchor \in 0..Len(log) /\ account.token \in 0..Top
           /\ account.anchor \in Nat /\ account.token \in Nat
           /\ sync.upto \in 0..Len(log) /\ sync.upto \in Nat /\ sync.next \in Nat
           /\ sync.below \in Nat /\ sync.pages \in Nat
           /\ sync.todo \in SUBSET Ids /\ sync.staged \in SUBSET Ids /\ sync.gone \in SUBSET Ids
           /\ sync \in SyncType /\ account \in AccountType /\ log \in Seq(EntryType)
           /\ archive \in RowsType
<1>1. Len(log) \in Nat
  BY Typed DEF EntryType
<1>2. /\ arrived \in Nat /\ box \in SUBSET (1..arrived) /\ box \in SUBSET Ids
      /\ arrived <= Old + Arrivals
  BY Typed, Sizes
<1>3. account \in AccountType /\ sync \in SyncType /\ log \in Seq(EntryType) /\ archive \in RowsType
  BY Typed
<1>4. account.anchor \in 0..Len(log) /\ account.token \in 0..Top
  BY <1>3 DEF AccountType
<1>5. /\ sync.upto \in 0..Len(log) /\ sync.next \in 0..Top /\ sync.below \in 0..Top
      /\ sync.pages \in 0..(CyclePages + CatchUpPages)
      /\ sync.todo \in SUBSET Ids /\ sync.staged \in SUBSET Ids /\ sync.gone \in SUBSET Ids
  BY <1>3 DEF SyncType
<1> QED
  BY <1>1, <1>2, <1>3, <1>4, <1>5, Sizes

LEMMA NoCycleFields ==
    /\ NoCycle.pc = "idle" /\ NoCycle.todo = {} /\ NoCycle.staged = {}
    /\ ThenBackfill.pc \in {"idle", "backfill"}
    /\ ThenBackfill.pc = "backfill" => ThenBackfill.pages >= 1
    /\ ThenBackfill.todo = {} /\ ThenBackfill.staged = {}
    /\ NoCycle \in SyncType /\ ThenBackfill \in SyncType
<1>1. CyclePages >= 1
  BY Sizes
<1>3. 0 \in 0..Len(log) /\ 0 \in 0..Top /\ Top \in 0..Top
      /\ 0 \in 0..(CyclePages + CatchUpPages) /\ CyclePages \in 0..(CyclePages + CatchUpPages)
  BY Sizes
<1>2. NoCycle \in SyncType
  BY <1>3 DEF NoCycle, SyncType
<1> QED
  BY <1>1, <1>2, <1>3 DEF NoCycle, ThenBackfill, SyncType

(* A page listed from a token is a part of the mailbox above the next one. *)
LEMMA ListedPage ==
    ASSUME SyncOK, NEW t \in 0..Top
    PROVE  /\ \A m \in Page(t) : m \in box /\ m \in Ids /\ m < t /\ NextToken(t) <= m
           /\ \A m \in box : NextToken(t) <= m /\ m < t => m \in Page(t)
           /\ NextToken(t) \in 0..Top /\ NextToken(t) \in Nat /\ NextToken(t) <= t
           /\ NextToken(t) # 0 => NextToken(t) \in Page(t)
           /\ Page(t) \in SUBSET Ids
           /\ Unknown(Page(t)) \in SUBSET Page(t)
<1>1. arrived \in Nat /\ box \subseteq 1..arrived /\ t \in Nat /\ box \subseteq Ids
  BY Numbers, Sizes
<1>2. /\ \A m \in Page(t) : m \in box /\ m < t /\ NextToken(t) <= m
      /\ \A m \in box : NextToken(t) <= m /\ m < t => m \in Page(t)
      /\ NextToken(t) \in Nat
      /\ NextToken(t) # 0 => NextToken(t) \in Page(t)
  BY <1>1, PageFacts
<1>3. NextToken(t) <= t
  <2>1. CASE NextToken(t) = 0
    BY <1>1, <2>1
  <2>2. CASE NextToken(t) # 0
    BY <1>1, <1>2, <2>2
  <2> QED
    BY <2>1, <2>2
<1>4. NextToken(t) \in 0..Top
  BY <1>2, <1>3, Sizes
<1>5. Unknown(Page(t)) \in SUBSET Page(t)
  BY DEF Unknown
<1> QED
  BY <1>1, <1>2, <1>3, <1>4, <1>5

(* The message that is fetched is one that is still to be fetched. *)
Fetching == IF sync.pc = "fetch" THEN Min(sync.todo) ELSE Max(sync.todo)

LEMMA FetchingMember ==
    ASSUME SyncOK, sync.todo # {}
    PROVE  /\ Fetching \in sync.todo /\ Fetching \in Ids
           /\ sync.pc = "fetch" => \A m \in sync.todo : Fetching <= m
<1>1. sync.todo \in SUBSET Ids /\ Ids \subseteq Nat /\ Old + Arrivals \in Nat
      /\ \A m \in sync.todo : m <= Old + Arrivals
  BY Numbers, Sizes
<1> QED
  BY <1>1, LeastOfNaturals, LargestBelow DEF Fetching

-----------------------------------------------------------------------------
(***************************************************************************)
(* What the steps of a cycle do, field by field.                           *)
(***************************************************************************)
Outside == UNCHANGED <<arrived, box, log, mirror>>

LEMMA StoredRows ==
    ASSUME SyncOK, NEW gone, archive' = Rows(sync.staged, gone)
    PROVE  /\ archive' \in RowsType
           /\ \A m \in Ids : Stored(m)' <=> Stored(m) \/ m \in sync.staged
           /\ \A m \in Ids : archive'[m] = IF m \in sync.staged THEN "live"
                                           ELSE IF m \in gone /\ Stored(m) THEN "deleted"
                                           ELSE archive[m]
<1>1. archive \in RowsType
  BY Typed
<1>2. archive' = [m \in Ids |-> IF m \in sync.staged THEN "live"
                   ELSE IF m \in gone /\ Stored(m) THEN "deleted" ELSE archive[m]]
  BY DEF Rows
<1> QED
  BY <1>1, <1>2 DEF RowsType, Stored

LEMMA StartEffect ==
    ASSUME SyncOK, Start
    PROVE  /\ Outside /\ UNCHANGED <<archive, account, excuses>>
           /\ sync.pc = "idle" /\ sync'.pc = "history" /\ sync'.todo = {} /\ sync'.staged = {}
           /\ sync'.below = Top /\ sync' \in SyncType
<1>1. account.authorized \in BOOLEAN /\ account.done \in BOOLEAN
  BY Typed DEF AccountType
<1>2. NoCycle \in SyncType /\ NoCycle.todo = {} /\ NoCycle.staged = {} /\ NoCycle.below = Top
  BY NoCycleFields DEF NoCycle
<1>3. sync' = [NoCycle EXCEPT !.pc = "history", !.backup = account.authorized /\ ~account.done]
      /\ sync.pc = "idle"
  BY DEF Start
<1>4. (account.authorized /\ ~account.done) \in BOOLEAN
  BY <1>1
<1> DEFINE b == account.authorized /\ ~account.done
<1> HIDE DEF b
<1>5. sync' = [NoCycle EXCEPT !.pc = "history", !.backup = b] /\ b \in BOOLEAN
  BY <1>3, <1>4 DEF b
<1>6. /\ sync'.pc = "history" /\ sync'.todo = {} /\ sync'.staged = {}
      /\ sync'.below = Top /\ sync' \in SyncType
  BY <1>2, <1>5 DEF SyncType
<1> QED
  BY <1>3, <1>6 DEF Start, Outside, gmail

LEMMA HistoryEffect ==
    ASSUME SyncOK, History
    PROVE  /\ Outside /\ UNCHANGED <<archive, account, excuses>>
           /\ sync.pc = "history" /\ sync'.pc = "fetch" /\ sync'.upto = Len(log)
           /\ sync'.gone = Since("removed", account.anchor)
           /\ sync'.todo = Since("added", account.anchor) \ sync'.gone
           /\ sync'.staged = sync.staged /\ sync' \in SyncType
<1> DEFINE gone == Since("removed", account.anchor)
           todo == Since("added", account.anchor) \ gone
<1>0. \A i \in DOMAIN log : log[i].id \in Ids
  <2>1. log \in Seq(EntryType)
    BY Numbers
  <2>2. \A i \in DOMAIN log : log[i] \in EntryType
    BY <2>1
  <2> QED
    BY <2>2 DEF EntryType
<1>1. gone \in SUBSET Ids /\ todo \in SUBSET Ids
  BY <1>0 DEF Since
<1>2. /\ sync' = [sync EXCEPT !.pc = "fetch", !.gone = gone, !.upto = Len(log), !.todo = todo]
      /\ sync.pc = "history"
  BY DEF History
<1>3. sync \in SyncType /\ Len(log) \in 0..Len(log)
  BY Numbers
<1> HIDE DEF gone, todo
<1>4. /\ sync'.pc = "fetch" /\ sync'.upto = Len(log) /\ sync'.gone = gone /\ sync'.todo = todo
      /\ sync'.staged = sync.staged /\ sync' \in SyncType
  BY <1>1, <1>2, <1>3 DEF SyncType
<1> QED
  BY <1>2, <1>4 DEF History, Outside, gmail, gone, todo

LEMMA ExpiredEffect ==
    ASSUME SyncOK, HistoryExpired
    PROVE  /\ Outside /\ UNCHANGED <<archive, account>>
           /\ excuses' = [excuses EXCEPT !.lapsed = @ \cup Since("added", account.anchor)
                                                      \cup Since("removed", account.anchor)]
           /\ sync.pc = "history" /\ sync'.pc = "catchup" /\ sync'.upto = Len(log)
           /\ sync'.pages = CatchUpPages /\ sync'.todo = sync.todo
           /\ sync'.staged = sync.staged /\ sync'.below = sync.below /\ sync' \in SyncType
<1>1. /\ sync' = [sync EXCEPT !.pc = "catchup", !.upto = Len(log), !.pages = CatchUpPages]
      /\ sync.pc = "history"
  BY DEF HistoryExpired
<1>2. /\ sync \in SyncType /\ Len(log) \in 0..Len(log)
      /\ CatchUpPages \in 0..(CyclePages + CatchUpPages)
  BY Numbers, Sizes
<1>3. /\ sync'.pc = "catchup" /\ sync'.upto = Len(log) /\ sync'.pages = CatchUpPages
      /\ sync'.todo = sync.todo /\ sync'.staged = sync.staged /\ sync'.below = sync.below
      /\ sync' \in SyncType
  BY <1>1, <1>2 DEF SyncType
<1> QED
  BY <1>1, <1>3 DEF HistoryExpired, Outside, gmail

LEMMA FetchEffect ==
    ASSUME SyncOK, Fetch
    PROVE  /\ Outside /\ UNCHANGED <<archive, account, excuses>>
           /\ sync.pc \in {"fetch", "caught", "page"}
           /\ Fetching \in sync.todo /\ Fetching \in Ids
           /\ sync.pc = "fetch" => \A m \in sync.todo : Fetching <= m
           /\ sync'.todo = sync.todo \ {Fetching}
           /\ sync'.staged = IF Fetching \in box /\ ~Stored(Fetching)
                             THEN sync.staged \cup {Fetching} ELSE sync.staged
           /\ sync'.pc = sync.pc /\ sync'.upto = sync.upto /\ sync'.gone = sync.gone
           /\ sync'.below = sync.below /\ sync'.next = sync.next /\ sync'.pages = sync.pages
           /\ sync'.fresh = sync.fresh /\ sync' \in SyncType
<1> DEFINE rest == sync.todo \ {Fetching}
           held == IF Fetching \in box THEN sync.staged \cup Unknown({Fetching}) ELSE sync.staged
<1>1. /\ Fetching \in sync.todo /\ Fetching \in Ids
      /\ sync.pc = "fetch" => \A m \in sync.todo : Fetching <= m
  BY FetchingMember DEF Fetch
<1>2. sync' = [sync EXCEPT !.todo = rest, !.staged = held]
  BY DEF Fetch, Fetching
<1>3. held = IF Fetching \in box /\ ~Stored(Fetching)
             THEN sync.staged \cup {Fetching} ELSE sync.staged
  <2>1. Unknown({Fetching}) = IF ~Stored(Fetching) THEN {Fetching} ELSE {}
    BY DEF Unknown
  <2> QED
    BY <2>1
<1>4. sync \in SyncType /\ rest \in SUBSET Ids /\ held \in SUBSET Ids
  BY <1>1, <1>3, Numbers
<1> HIDE DEF rest, held
<1>5. /\ sync'.todo = rest /\ sync'.staged = held
      /\ sync'.pc = sync.pc /\ sync'.upto = sync.upto /\ sync'.gone = sync.gone
      /\ sync'.below = sync.below /\ sync'.next = sync.next /\ sync'.pages = sync.pages
      /\ sync'.fresh = sync.fresh /\ sync' \in SyncType
  BY <1>2, <1>4 DEF SyncType
<1> QED
  BY <1>1, <1>3, <1>5 DEF Fetch, Outside, gmail, rest

LEMMA CatchUpPageEffect ==
    ASSUME SyncOK, CatchUpPage
    PROVE  /\ Outside /\ UNCHANGED <<archive, account, excuses>>
           /\ sync.pc = "catchup" /\ sync'.pc = "caught" /\ sync'.todo = Unknown(Page(sync.below))
           /\ sync'.fresh = (sync'.todo # {}) /\ sync'.next = NextToken(sync.below)
           /\ sync'.upto = sync.upto /\ sync'.staged = sync.staged /\ sync'.below = sync.below
           /\ sync'.pages = sync.pages /\ sync' \in SyncType
<1> DEFINE todo == Unknown(Page(sync.below))
           next == NextToken(sync.below)
           fresh == todo # {}
<1>1. /\ sync' = [sync EXCEPT !.pc = "caught", !.todo = todo, !.fresh = fresh, !.next = next]
      /\ sync.pc = "catchup"
  BY DEF CatchUpPage
<1>2. sync \in SyncType /\ sync.below \in 0..Top
  BY Numbers DEF SyncType
<1>3. todo \in SUBSET Ids /\ next \in 0..Top
  BY <1>2, ListedPage
<1>4. fresh \in BOOLEAN
  OBVIOUS
<1> HIDE DEF todo, next, fresh
<1>5. /\ sync'.pc = "caught" /\ sync'.todo = todo /\ sync'.fresh = fresh /\ sync'.next = next
      /\ sync'.upto = sync.upto /\ sync'.staged = sync.staged /\ sync'.below = sync.below
      /\ sync'.pages = sync.pages /\ sync' \in SyncType
  BY <1>1, <1>2, <1>3, <1>4 DEF SyncType
<1> QED
  BY <1>1, <1>5 DEF CatchUpPage, Outside, gmail, todo, next, fresh

LEMMA BackfillEffect ==
    ASSUME SyncOK, BackfillPage
    PROVE  /\ Outside /\ UNCHANGED <<archive, account, excuses>>
           /\ sync.pc = "backfill" /\ sync'.pc = "page" /\ sync'.todo = Unknown(Page(account.token))
           /\ sync'.next = NextToken(account.token) /\ sync'.upto = sync.upto
           /\ sync'.staged = sync.staged /\ sync'.pages = sync.pages /\ sync' \in SyncType
<1> DEFINE todo == Unknown(Page(account.token))
           next == NextToken(account.token)
<1>1. sync' = [sync EXCEPT !.pc = "page", !.todo = todo, !.next = next] /\ sync.pc = "backfill"
  BY DEF BackfillPage, Walk
<1>2. sync \in SyncType /\ account.token \in 0..Top
  BY Numbers
<1>3. todo \in SUBSET Ids /\ next \in 0..Top
  BY <1>2, ListedPage
<1> HIDE DEF todo, next
<1>5. /\ sync'.pc = "page" /\ sync'.todo = todo /\ sync'.next = next
      /\ sync'.upto = sync.upto /\ sync'.staged = sync.staged
      /\ sync'.pages = sync.pages /\ sync' \in SyncType
  BY <1>1, <1>2, <1>3 DEF SyncType
<1> QED
  BY <1>1, <1>5 DEF BackfillPage, Walk, Outside, gmail, todo, next

(* A cycle that is given up leaves the table and the account as they are.  *)
Dropped ==
    /\ Outside /\ UNCHANGED <<archive, account>>
    /\ sync' = NoCycle /\ excuses' = Torn(archive)

(* A commit adds what is staged. *)
Written(gone) ==
    /\ Outside /\ sync.staged \subseteq Unknown(Ids)
    /\ archive' = Rows(sync.staged, gone)

LEMMA ApplyEffect ==
    ASSUME SyncOK, Apply
    PROVE  /\ sync.pc = "fetch" /\ sync.todo = {}
           /\ \/ Dropped
              \/ /\ Written(sync.gone) /\ excuses' = excuses /\ sync' = ThenBackfill
                 /\ account'.anchor = sync.upto /\ account'.token = account.token
                 /\ account' \in AccountType
<1>1. account \in AccountType /\ sync.upto \in 0..Len(log)
  BY Numbers
<1>2. account' = [account EXCEPT !.anchor = sync.upto] =>
        /\ account'.anchor = sync.upto /\ account'.token = account.token
        /\ account' \in AccountType
  BY <1>1 DEF AccountType
<1> QED
  BY <1>2 DEF Apply, Fetched, Commit, RollBack, Dropped, Written, Outside, gmail

LEMMA CatchUpStoredEffect ==
    ASSUME SyncOK, CycleOK, CatchUpStored
    PROVE  /\ sync.pc = "caught" /\ sync.todo = {}
           /\ \/ Dropped
              \/ /\ Written({}) /\ UNCHANGED <<account, excuses>>
                 /\ sync'.pc = (IF CaughtUp THEN "reanchor" ELSE "catchup")
                 /\ sync'.todo = {} /\ sync'.staged = {} /\ sync'.below = sync.next
                 /\ sync'.next = sync.next /\ sync'.fresh = sync.fresh /\ sync'.upto = sync.upto
                 /\ sync'.pages = sync.pages - 1 /\ sync' \in SyncType
<1> DEFINE pc == IF CaughtUp THEN "reanchor" ELSE "catchup"
           new == [sync EXCEPT !.pc = pc, !.staged = {}, !.below = sync.next, !.pages = @ - 1]
<1>1. sync.pc = "caught" /\ sync.todo = {} /\ Commit({}, account, new)
  BY DEF CatchUpStored, Fetched
<1>2. sync \in SyncType /\ sync.pages >= 1 /\ pc \in {"reanchor", "catchup"}
  BY <1>1, Numbers DEF CycleOK
<1>3. sync.pages - 1 \in 0..(CyclePages + CatchUpPages) /\ sync.next \in 0..Top
  BY <1>2, Sizes DEF SyncType
<1> HIDE DEF pc
<1>4. /\ new.pc = pc /\ new.todo = sync.todo /\ new.staged = {} /\ new.below = sync.next
      /\ new.next = sync.next /\ new.fresh = sync.fresh /\ new.upto = sync.upto
      /\ new.pages = sync.pages - 1 /\ new \in SyncType
  BY <1>2, <1>3 DEF SyncType
<1> HIDE DEF new
<1> QED
  BY <1>1, <1>4 DEF CatchUpStored, Commit, RollBack, Dropped, Written, Outside, gmail, pc

LEMMA ReanchorEffect ==
    ASSUME SyncOK, Reanchor
    PROVE  /\ Outside /\ archive' = archive /\ sync.pc = "reanchor" /\ sync' = ThenBackfill
           /\ account'.anchor = sync.upto /\ account'.token = account.token
           /\ account' \in AccountType
           /\ excuses' = IF sync.fresh /\ sync.next # 0
                         THEN [excuses EXCEPT !.hidden = @ \cup Missing(archive, sync.next)]
                         ELSE excuses
<1>1. account \in AccountType /\ sync.upto \in 0..Len(log)
  BY Numbers
<1>2. account' = [account EXCEPT !.anchor = sync.upto]
  BY DEF Reanchor, NewAnchor
<1>3. /\ account'.anchor = sync.upto /\ account'.token = account.token
      /\ account' \in AccountType
  BY <1>1, <1>2 DEF AccountType
<1> QED
  BY <1>3 DEF Reanchor, Outside, gmail

LEMMA PageStoredEffect ==
    ASSUME SyncOK, CycleOK, PageStored
    PROVE  /\ sync.pc = "page" /\ sync.todo = {}
           /\ \/ Dropped
              \/ /\ Written({}) /\ excuses' = excuses
                 /\ account'.anchor = account.anchor /\ account'.token = sync.next
                 /\ account' \in AccountType
                 /\ sync'.pc \in {"idle", "backfill"} /\ sync'.todo = {} /\ sync'.staged = {}
                 /\ sync'.pc = "backfill" => sync'.pages >= 1
                 /\ sync' \in SyncType
<1> DEFINE row == [account EXCEPT !.token = sync.next, !.done = sync.next = 0]
           again == [NoCycle EXCEPT !.pc = "backfill", !.pages = sync.pages - 1]
           new == IF WalkedEnough THEN NoCycle ELSE again
<1>1. sync.pc = "page" /\ sync.todo = {} /\ Commit({}, row, new)
  BY DEF PageStored, Fetched
<1>2. /\ sync \in SyncType /\ account \in AccountType /\ sync.pages >= 1
      /\ sync.pages \in 0..(CyclePages + CatchUpPages) /\ sync.next \in 0..Top
  BY <1>1, Numbers DEF CycleOK, SyncType
<1>3. row.anchor = account.anchor /\ row.token = sync.next /\ row \in AccountType
  BY <1>2 DEF AccountType
<1>4. ~WalkedEnough => /\ again.pages >= 1 /\ again \in SyncType
                       /\ again.pc = "backfill" /\ again.todo = {} /\ again.staged = {}
  <2> SUFFICES ASSUME ~WalkedEnough
               PROVE  /\ again.pages >= 1 /\ again \in SyncType
                      /\ again.pc = "backfill" /\ again.todo = {} /\ again.staged = {}
    OBVIOUS
  <2>1. sync.pages - 1 >= 1 /\ sync.pages - 1 \in 0..(CyclePages + CatchUpPages)
    BY <1>2, Sizes DEF WalkedEnough
  <2>2. NoCycle \in SyncType /\ NoCycle.todo = {} /\ NoCycle.staged = {}
    BY NoCycleFields
  <2> QED
    BY <2>1, <2>2 DEF SyncType
<1>5. /\ new.pc \in {"idle", "backfill"} /\ new.todo = {} /\ new.staged = {}
      /\ new.pc = "backfill" => new.pages >= 1
      /\ new \in SyncType
  <2> HIDE DEF again
  <2> QED
    BY <1>4, NoCycleFields
<1> HIDE DEF row, new
<1> QED
  BY <1>1, <1>3, <1>5 DEF PageStored, Commit, RollBack, Dropped, Written, Outside, gmail

LEMMA RefusedEffect ==
    ASSUME SyncOK, AnswerRefused
    PROVE  \/ Dropped
           \/ /\ Written({}) /\ sync' = NoCycle /\ account' = account
              /\ excuses' = Torn(Rows(sync.staged, {}))
BY DEF AnswerRefused, RollBack, Dropped, Written, Outside, gmail

LEMMA BrokenEffect ==
    ASSUME Broken
    PROVE  Dropped
BY DEF Broken, RollBack, Dropped, Outside, gmail

-----------------------------------------------------------------------------
(***************************************************************************)
(* What the parts of the invariant are stated with, from one state to the  *)
(* next.                                                                   *)
(***************************************************************************)
LEMMA ToldSame ==
    ASSUME log' = log
    PROVE  \A kind, n, m : Told(kind, n, m)' <=> Told(kind, n, m)
BY DEF Told

LEMMA BehindIsTold ==
    /\ \A kind, m : Behind(kind, m) <=> Told(kind, account.anchor, m)
    /\ \A kind, m : Behind(kind, m)' <=> Told(kind, account.anchor, m)'
BY DEF Behind, Told

(* A commit, or a roll-back, hides what lies below its rows. *)
LEMMA TornFields ==
    ASSUME excuses \in ExcusesType, NEW rows, excuses' = Torn(rows)
    PROVE  /\ Excusing /\ excuses'.lapsed = excuses.lapsed
           /\ CatchingUp => excuses'.hidden = excuses.hidden \cup Covered(rows)
<1>1. CASE CatchingUp
  <2>1. excuses' = [excuses EXCEPT !.hidden = @ \cup Covered(rows)]
    BY <1>1 DEF Torn
  <2>2. excuses'.hidden = excuses.hidden \cup Covered(rows) /\ excuses'.lapsed = excuses.lapsed
    BY <2>1 DEF ExcusesType
  <2> QED
    BY <2>2 DEF Excusing
<1>2. CASE ~CatchingUp
  BY <1>2 DEF Torn, Excusing
<1> QED
  BY <1>1, <1>2

LEMMA LogStays ==
    ASSUME HistoryOK, Outside
    PROVE  HistoryOK'
<1>1. arrived' = arrived /\ box' = box /\ log' = log
  BY DEF Outside
<1>2. \A kind, n, m : Told(kind, n, m)' <=> Told(kind, n, m)
  BY <1>1, ToldSame
<1> QED
  BY <1>1, <1>2 DEF HistoryOK

Rest == CycleOK /\ PageOK /\ RemovalsOK /\ ArrivalsOK
        /\ BackfillSkipsNothing /\ AnchorLeavesNothingBehind

(* Steps that leave the table, the history and the cycle alone. *)
LEMMA QuietStays ==
    ASSUME Rest, UNCHANGED <<arrived, box, log, archive, sync, excuses>>,
           account'.anchor = account.anchor, account'.token = account.token,
           mirror'.pc # "none" => mirror'.id \in 1..arrived
    PROVE  Rest'
<1>1. \A kind, n, m : Told(kind, n, m)' <=> Told(kind, n, m)
  BY ToldSame
<1>2. \A m : (Stored(m)' <=> Stored(m)) /\ (Upcoming(m)' <=> Upcoming(m))
             /\ (Reached(m)' <=> Reached(m))
             /\ (Accounted(m)' <=> Accounted(m)) /\ (Lost(m)' <=> Lost(m))
  BY DEF Stored, Upcoming, Reached, Accounted, Lost
<1>3. \A m : (Under(m)' <=> Under(m)) /\ (UnderComing(m)' <=> UnderComing(m))
  BY <1>2 DEF Under, UnderComing
<1>4. CycleOK'
  BY <1>1, <1>2 DEF Rest, CycleOK, CatchingUp
<1>5. PageOK' /\ BackfillSkipsNothing'
  BY <1>2 DEF Rest, PageOK, BackfillSkipsNothing
<1>6. RemovalsOK'
  BY <1>1 DEF Rest, RemovalsOK, Applied
<1>7. AnchorLeavesNothingBehind'
  BY <1>1, <1>2, BehindIsTold DEF Rest, AnchorLeavesNothingBehind,
     ArrivalsBehindTheAnchorAreStored, RemovalsBehindTheAnchorAreFlagged
<1>8. ArrivalsOK'
  <2>2. CatchingUp' <=> CatchingUp
    BY DEF CatchingUp
  <2>3. (NoGap' <=> NoGap) /\ (WalkedOK' <=> WalkedOK)
    BY <1>1, <1>2, <1>3 DEF NoGap, WalkedOK
  <2>4. (CaughtOK' <=> CaughtOK) /\ (FetchedOK' <=> FetchedOK) /\ (PagedOK' <=> PagedOK)
    BY <1>1, <1>2, <1>3 DEF CaughtOK, FetchedOK, PagedOK
  <2> QED
    BY <1>2, <2>2, <2>3, <2>4 DEF Rest, ArrivalsOK
<1> QED
  BY <1>4, <1>5, <1>6, <1>7, <1>8 DEF Rest

(* Mail that arrives is newer than anything the account or a cycle knows. *)
LEMMA NewMailStays ==
    ASSUME SyncOK, HistoryOK, Rest, NewMail, UNCHANGED <<archive, account, sync, excuses>>,
           mirror'.pc # "none" => mirror'.id \in 1..(arrived + 1)
    PROVE  HistoryOK' /\ Rest'
<1> DEFINE a == arrived + 1
           e == [kind |-> "added", id |-> a]
<1>1. /\ arrived \in Nat /\ box \in SUBSET (1..arrived) /\ a \in Ids /\ Old \in Nat
      /\ Old <= arrived /\ log \in Seq(EntryType) /\ Len(log) \in Nat
      /\ arrived' = a /\ box' = box \cup {a} /\ log' = Append(log, e) /\ a \notin box
  <2>1. arrived \in Old..(Old + Arrivals) /\ log \in Seq(EntryType)
    BY Typed
  <2>2. /\ arrived < Old + Arrivals /\ arrived' = a /\ box' = box \cup {a}
        /\ log' = Append(log, e)
    BY DEF NewMail
  <2>3. /\ arrived \in Nat /\ box \in SUBSET (1..arrived) /\ Len(log) \in Nat
    BY Numbers
  <2> QED
    BY <2>1, <2>2, <2>3, Sizes
<1>2. \A kind, m : \A n \in 0..Len(log) : Told(kind, n, m)' <=> Told(kind, n, m)
  BY <1>1, ToldAppended DEF EntryType
<1>3. \A m : (Stored(m)' <=> Stored(m)) /\ (Upcoming(m)' <=> Upcoming(m))
             /\ (Reached(m)' <=> Reached(m))
             /\ (Accounted(m)' <=> Accounted(m)) /\ (Lost(m)' <=> Lost(m))
  BY DEF Stored, Upcoming, Reached, Accounted, Lost
<1>4. \A m : (Under(m)' <=> Under(m)) /\ (UnderComing(m)' <=> UnderComing(m))
  BY <1>3 DEF Under, UnderComing
<1>5. ~Under(a) /\ ~UnderComing(a)
  BY <1>1, Sizes DEF Rest, CycleOK, Under, UnderComing
<1>6. \A n : ~Told("added", n, a)
  BY <1>1 DEF Told, HistoryOK
<1>7. /\ account.anchor \in 0..Len(log) /\ sync.upto \in 0..Len(log)
      /\ sync.below \in Nat /\ sync.next \in Nat
  BY Numbers
<1>8. CycleOK'
  <2>1. \A m \in Ids : Stored(m) \/ Upcoming(m) => m <= a
    BY <1>1, Sizes DEF Rest, CycleOK
  <2>2. \A kind, m : /\ Told(kind, sync.upto, m)' <=> Told(kind, sync.upto, m)
                     /\ Told(kind, account.anchor, m)' <=> Told(kind, account.anchor, m)
    BY <1>2, <1>7
  <2> QED
    BY <1>1, <1>3, <2>1, <2>2 DEF Rest, CycleOK, CatchingUp
<1>9. PageOK' /\ BackfillSkipsNothing'
  BY <1>1, <1>3 DEF Rest, PageOK, BackfillSkipsNothing
<1>10. RemovalsOK'
  BY <1>2, <1>7 DEF Rest, RemovalsOK, Applied
<1>11. AnchorLeavesNothingBehind'
  BY <1>1, <1>2, <1>3, <1>6, <1>7, BehindIsTold DEF Rest, AnchorLeavesNothingBehind,
     ArrivalsBehindTheAnchorAreStored, RemovalsBehindTheAnchorAreFlagged
<1>12. ArrivalsOK'
  <2>2. CatchingUp' <=> CatchingUp
    BY DEF CatchingUp
  <2>3. NoGap => NoGap'
    BY <1>1, <1>3, <1>4, <1>5 DEF NoGap
  <2>4. WalkedOK => WalkedOK'
    <3>1. \A n \in Ids : a < n => ~Stored(n)
      BY <1>5 DEF Under
    <3> QED
      BY <1>1, <1>2, <1>3, <1>4, <1>5, <1>6, <1>7, <3>1 DEF WalkedOK
  <2>5. CaughtOK => CaughtOK'
    BY <1>1, <1>2, <1>3, <1>4, <1>5, <1>6, <1>7 DEF CaughtOK
  <2>6. FetchedOK => FetchedOK'
    BY <1>1, <1>2, <1>3, <1>6, <1>7 DEF FetchedOK
  <2>7. PagedOK => PagedOK'
    BY <1>1, <1>2, <1>3, <1>4, <1>5, <1>6, <1>7 DEF PagedOK
  <2>8. sync.pc = "reanchor" /\ ~sync.fresh /\ sync.next # 0 => ~(a < sync.below)
    <3> SUFFICES ASSUME sync.pc = "reanchor", ~sync.fresh, sync.next # 0, a < sync.below
                 PROVE  FALSE
      OBVIOUS
    <3>1. sync.below = sync.next /\ sync.next \in Ids /\ Stored(sync.next)
      BY DEF Rest, CycleOK
    <3>2. sync.next <= arrived
      BY <3>1 DEF Rest, CycleOK
    <3> QED
      BY <1>1, <1>7, <3>1, <3>2
  <2> QED
    BY <1>1, <1>3, <2>2, <2>3, <2>4, <2>5, <2>6, <2>7, <2>8 DEF Rest, ArrivalsOK
<1>13. HistoryOK'
  <2>1. Len(log') = Len(log) + 1 /\ log'[Len(log) + 1] = e
        /\ (\A i \in DOMAIN log : log'[i] = log[i]) /\ DOMAIN log' = 1..(Len(log) + 1)
        /\ DOMAIN log = 1..Len(log)
    BY <1>1
  <2>2. \A m \in (Old + 1)..a :
          \E i \in DOMAIN log' : i <= Len(log') /\ log'[i] = [kind |-> "added", id |-> m]
    <3> SUFFICES ASSUME NEW m \in (Old + 1)..a
                 PROVE  \E i \in DOMAIN log' : i <= Len(log') /\ log'[i] = [kind |-> "added", id |-> m]
      OBVIOUS
    <3>1. CASE m = a
      BY <1>1, <2>1, <3>1
    <3>2. CASE m # a
      <4>1. m \in (Old + 1)..arrived
        BY <1>1, <3>2
      <4>2. PICK i \in DOMAIN log : i <= Len(log) /\ log[i] = [kind |-> "added", id |-> m]
        BY <4>1 DEF HistoryOK, Told
      <4> QED
        BY <1>1, <2>1, <4>2
    <3> QED
      BY <3>1, <3>2
  <2>3. \A i \in DOMAIN log : log[i].kind = "added" => log[i].id \in Nat /\ log[i].id < a
    BY <1>1 DEF HistoryOK
  <2>4. \A i, j \in DOMAIN log' : log'[i].kind = "added" /\ log'[j].kind = "added"
                                  /\ log'[i].id < log'[j].id => i < j
    BY <1>1, <2>1, <2>3 DEF HistoryOK
  <2>5. \A i \in DOMAIN log' : log'[i].kind = "added" => log'[i].id \in (Old + 1)..a
    <3> SUFFICES ASSUME NEW i \in DOMAIN log', log'[i].kind = "added"
                 PROVE  log'[i].id \in (Old + 1)..a
      OBVIOUS
    <3>1. CASE i = Len(log) + 1
      BY <1>1, <2>1, <3>1
    <3>2. CASE i # Len(log) + 1
      <4>1. i \in DOMAIN log /\ log'[i] = log[i]
        BY <1>1, <2>1, <3>2
      <4>2. log[i].id \in (Old + 1)..arrived
        BY <4>1 DEF HistoryOK
      <4> QED
        BY <1>1, <4>1, <4>2
    <3> QED
      BY <3>1, <3>2
  <2>6. \A i \in DOMAIN log' : log'[i].kind = "removed" => log'[i].id \in (1..a) \ box'
    <3> SUFFICES ASSUME NEW i \in DOMAIN log', log'[i].kind = "removed"
                 PROVE  log'[i].id \in (1..a) \ box'
      OBVIOUS
    <3>1. i # Len(log) + 1
      BY <2>1
    <3>2. i \in DOMAIN log /\ log'[i] = log[i]
      BY <1>1, <2>1, <3>1
    <3>3. log[i].id \in (1..arrived) \ box
      BY <3>2 DEF HistoryOK
    <3> QED
      BY <1>1, <3>2, <3>3
  <2> QED
    BY <1>1, <2>2, <2>4, <2>5, <2>6 DEF HistoryOK, Told
<1> QED
  BY <1>8, <1>9, <1>10, <1>11, <1>12, <1>13 DEF Rest

(* A removal takes a message out of the mailbox, and its place in the      *)
(* history comes after everything that is known.                           *)
LEMMA RemoveStays ==
    ASSUME SyncOK, HistoryOK, Rest, Remove
    PROVE  HistoryOK' /\ Rest'
<1>0. /\ \E m \in box : box' = box \ {m} /\ log' = Append(log, [kind |-> "removed", id |-> m])
      /\ UNCHANGED <<arrived, archive, account, sync, mirror, excuses>>
  BY DEF Remove
<1>1. PICK m0 \in box : box' = box \ {m0}
                        /\ log' = Append(log, [kind |-> "removed", id |-> m0])
  BY <1>0
<1> DEFINE e == [kind |-> "removed", id |-> m0]
<1>2. /\ arrived \in Nat /\ box \in SUBSET (1..arrived) /\ m0 \in Ids
      /\ log \in Seq(EntryType) /\ Len(log) \in Nat
      /\ arrived' = arrived /\ box' = box \ {m0} /\ log' = Append(log, e)
  BY <1>0, <1>1, Numbers
<1>3. \A kind, m : \A n \in 0..Len(log) : Told(kind, n, m)' <=> Told(kind, n, m)
  BY <1>2, ToldAppended DEF EntryType
<1>4. \A m : (Stored(m)' <=> Stored(m)) /\ (Upcoming(m)' <=> Upcoming(m))
             /\ (Reached(m)' <=> Reached(m))
             /\ (Accounted(m)' <=> Accounted(m)) /\ (Lost(m)' <=> Lost(m))
  BY <1>0 DEF Stored, Upcoming, Reached, Accounted, Lost
<1>5. \A m : (Under(m)' <=> Under(m)) /\ (UnderComing(m)' <=> UnderComing(m))
  BY <1>4 DEF Under, UnderComing
<1>6. /\ account.anchor \in 0..Len(log) /\ sync.upto \in 0..Len(log)
  BY Numbers
<1>7. CycleOK'
  <2>1. \A kind, m : /\ Told(kind, sync.upto, m)' <=> Told(kind, sync.upto, m)
                     /\ Told(kind, account.anchor, m)' <=> Told(kind, account.anchor, m)
    BY <1>0, <1>3, <1>6
  <2> QED
    BY <1>0, <1>4, <2>1 DEF Rest, CycleOK, CatchingUp
<1>8. PageOK' /\ BackfillSkipsNothing'
  BY <1>0, <1>1, <1>4 DEF Rest, PageOK, BackfillSkipsNothing
<1>9. RemovalsOK'
  BY <1>0, <1>3, <1>6 DEF Rest, RemovalsOK, Applied
<1>10. AnchorLeavesNothingBehind'
  BY <1>0, <1>1, <1>3, <1>4, <1>6, BehindIsTold DEF Rest, AnchorLeavesNothingBehind,
     ArrivalsBehindTheAnchorAreStored, RemovalsBehindTheAnchorAreFlagged
<1>11. ArrivalsOK'
  <2>2. CatchingUp' <=> CatchingUp
    BY <1>0 DEF CatchingUp
  <2>3. (NoGap => NoGap') /\ (WalkedOK => WalkedOK')
    BY <1>0, <1>1, <1>3, <1>4, <1>5, <1>6 DEF NoGap, WalkedOK
  <2>4. (CaughtOK => CaughtOK') /\ (FetchedOK => FetchedOK') /\ (PagedOK => PagedOK')
    BY <1>0, <1>1, <1>3, <1>4, <1>5, <1>6 DEF CaughtOK, FetchedOK, PagedOK
  <2> QED
    BY <1>0, <1>1, <1>4, <2>2, <2>3, <2>4 DEF Rest, ArrivalsOK
<1>12. HistoryOK'
  <2>1. Len(log') = Len(log) + 1 /\ log'[Len(log) + 1] = e
        /\ (\A i \in DOMAIN log : log'[i] = log[i]) /\ DOMAIN log' = 1..(Len(log) + 1)
        /\ DOMAIN log = 1..Len(log)
    BY <1>2
  <2>2. \A m \in (Old + 1)..arrived :
          \E i \in DOMAIN log' : i <= Len(log') /\ log'[i] = [kind |-> "added", id |-> m]
    <3> SUFFICES ASSUME NEW m \in (Old + 1)..arrived
                 PROVE  \E i \in DOMAIN log' : i <= Len(log') /\ log'[i] = [kind |-> "added", id |-> m]
      OBVIOUS
    <3>1. PICK i \in DOMAIN log : i <= Len(log) /\ log[i] = [kind |-> "added", id |-> m]
      BY DEF HistoryOK, Told
    <3> QED
      BY <1>2, <2>1, <3>1
  <2>3. \A i \in DOMAIN log' : log'[i].kind = "added" => i \in DOMAIN log /\ log'[i] = log[i]
    BY <1>2, <2>1
  <2>4. \A i, j \in DOMAIN log' : log'[i].kind = "added" /\ log'[j].kind = "added"
                                  /\ log'[i].id < log'[j].id => i < j
    BY <2>3 DEF HistoryOK
  <2>5. \A i \in DOMAIN log' : log'[i].kind = "added" => log'[i].id \in (Old + 1)..arrived
    BY <2>3 DEF HistoryOK
  <2>6. \A i \in DOMAIN log' : log'[i].kind = "removed" => log'[i].id \in (1..arrived) \ box'
    <3> SUFFICES ASSUME NEW i \in DOMAIN log', log'[i].kind = "removed"
                 PROVE  log'[i].id \in (1..arrived) \ box'
      OBVIOUS
    <3>1. CASE i = Len(log) + 1
      BY <1>1, <1>2, <2>1, <3>1
    <3>2. CASE i # Len(log) + 1
      <4>1. i \in DOMAIN log /\ log'[i] = log[i]
        BY <1>2, <2>1, <3>2
      <4>2. log[i].id \in (1..arrived) \ box
        BY <4>1, <3>2 DEF HistoryOK
      <4> QED
        BY <1>1, <4>1, <4>2
    <3> QED
      BY <3>1, <3>2
  <2> QED
    BY <1>2, <2>2, <2>4, <2>5, <2>6 DEF HistoryOK, Told
<1> QED
  BY <1>7, <1>8, <1>9, <1>10, <1>11, <1>12 DEF Rest

(* A cycle that is given up keeps what was stored; a catch-up is torn.     *)
LEMMA DroppedStays ==
    ASSUME SyncOK, HistoryOK, Rest, Dropped
    PROVE  Rest'
<1>1. UNCHANGED <<arrived, box, log, mirror, archive, account>> /\ sync' = NoCycle
      /\ excuses' = Torn(archive)
  BY DEF Dropped, Outside
<1>2. sync'.pc = "idle" /\ sync'.todo = {} /\ sync'.staged = {}
  BY <1>1 DEF NoCycle
<1>3. \A kind, n, m : Told(kind, n, m)' <=> Told(kind, n, m)
  BY <1>1, ToldSame
<1>4. \A m : (Stored(m)' <=> Stored(m)) /\ (Reached(m)' <=> Reached(m)) /\ ~Upcoming(m)'
  BY <1>1, <1>2 DEF Stored, Upcoming, Reached
<1>5. CycleOK'
  BY <1>1, <1>2, <1>4 DEF Rest, CycleOK, CatchingUp
<1>6. PageOK' /\ BackfillSkipsNothing'
  BY <1>1, <1>2, <1>4 DEF Rest, PageOK, BackfillSkipsNothing
<1>7. Excusing /\ excuses'.lapsed = excuses.lapsed
      /\ (CatchingUp => excuses'.hidden = excuses.hidden \cup Covered(archive))
  BY <1>1, Typed, TornFields
<1>8. RemovalsOK'
  BY <1>2 DEF RemovalsOK
<1>9. AnchorLeavesNothingBehind'
  BY <1>1, <1>3, <1>4, <1>7, BehindIsTold DEF Rest, AnchorLeavesNothingBehind, Excusing, Lost,
     ArrivalsBehindTheAnchorAreStored, RemovalsBehindTheAnchorAreFlagged
<1>10. ArrivalsOK'
  <2>1. ~CatchingUp => NoGap'
    BY <1>1, <1>4, <1>7 DEF Rest, ArrivalsOK, NoGap, Under, Accounted, Excusing
  <2>2. CatchingUp => NoGap'
    <3> SUFFICES ASSUME CatchingUp, NEW m \in box, NEW n \in Ids, m < n, Stored(n), ~Stored(m)
                 PROVE  m \in Covered(archive)
      BY <1>1, <1>4, <1>7 DEF NoGap, Under, Accounted, Reached
    <3> QED
      BY DEF Covered, Missing, Stored
  <2> QED
    BY <1>2, <2>1, <2>2 DEF ArrivalsOK, CatchingUp
<1> QED
  BY <1>5, <1>6, <1>8, <1>9, <1>10 DEF Rest

(* A send that stores its mail by itself hides what is missing below it.   *)
LEMMA MirrorCommitStays ==
    ASSUME SyncOK, HistoryOK, Rest, MirrorCommit
    PROVE  Rest'
<1>1. CASE mirror.pc = "insert" /\ Stored(mirror.id)
  <2>1. /\ UNCHANGED <<arrived, box, log, archive, account, sync, excuses>>
        /\ mirror'.pc = "none"
    BY <1>1 DEF MirrorCommit, gmail, NoMirror
  <2> QED
    BY <2>1, QuietStays
<1>2. CASE ~(mirror.pc = "insert" /\ Stored(mirror.id))
  <2>1. /\ UNCHANGED <<arrived, box, log, account, sync>> /\ mirror'.pc = "none"
        /\ archive' = [archive EXCEPT ![mirror.id] = "live"] /\ mirror.pc # "none"
        /\ excuses'.hidden = excuses.hidden \cup Missing(archive, mirror.id)
        /\ excuses'.lapsed = excuses.lapsed \cup ({mirror.id} \ box) /\ Excusing
    BY <1>2 DEF MirrorCommit, gmail, NoMirror, Excusing
  <2>2. mirror.id \in 1..arrived
    BY <2>1 DEF Rest, CycleOK
  <2>3. archive \in RowsType
    BY Numbers
  <2>4. \A m \in Ids : Stored(m)' => Stored(m) \/ m = mirror.id
    BY <2>1, <2>3 DEF Stored, RowsType
  <2>5. \A m \in Ids : Stored(m) => Stored(m)'
    BY <2>1, <2>3 DEF Stored, RowsType
  <2>6. \A kind, n, m : Told(kind, n, m)' <=> Told(kind, n, m)
    BY <2>1, ToldSame
  <2>7. \A m : Upcoming(m)' <=> Upcoming(m)
    BY <2>1 DEF Upcoming
  <2>8. mirror.id \in Ids /\ box \in SUBSET Ids
    BY <2>2, Numbers, Sizes
  <2>9. CycleOK'
    <3>1. \A m \in Ids : Stored(m)' \/ Upcoming(m)' => m <= arrived
      BY <2>2, <2>4, <2>7, Numbers DEF Rest, CycleOK
    <3>2. sync.pc = "caught" /\ sync.next # 0 => sync.next \in Ids
      <4>1. sync.next \in 0..Top /\ sync.below \in 0..Top
        BY Numbers DEF SyncType
      <4> QED
        BY <4>1, Sizes DEF Rest, CycleOK
    <3>3. sync.pc = "caught" /\ ~sync.fresh /\ sync.next # 0 => Stored(sync.next)'
      BY <2>1, <2>5, <3>2 DEF Rest, CycleOK
    <3>4. sync.pc = "reanchor" => sync.below = sync.next
          /\ (~sync.fresh /\ sync.next # 0 => sync.next \in Ids /\ Stored(sync.next)')
      BY <2>1, <2>5 DEF Rest, CycleOK
    <3> QED
      BY <2>1, <2>6, <2>7, <3>1, <3>3, <3>4 DEF Rest, CycleOK, CatchingUp, Excusing
  <2>10. PageOK' /\ BackfillSkipsNothing'
    BY <2>1, <2>5, <2>7, Numbers DEF Rest, PageOK, BackfillSkipsNothing
  <2>11. RemovalsOK'
    BY <2>1, <2>6 DEF Rest, RemovalsOK, Applied
  <2>12. \A m \in box : /\ Reached(m) => Reached(m)'
                        /\ Accounted(m) => Accounted(m)'
                        /\ Lost(m) => Lost(m)'
    BY <2>1, <2>5, <2>8 DEF Reached, Accounted, Lost, Excusing
  <2>13. \A m \in box : m < mirror.id => Stored(m) \/ m \in excuses'.hidden
    BY <2>1 DEF Missing, Stored
  <2>14. \A m \in box : /\ Under(m)' => Under(m) \/ Stored(m) \/ m \in excuses'.hidden
                        /\ UnderComing(m)' =>
                             UnderComing(m) \/ Stored(m) \/ m \in excuses'.hidden
    BY <2>4, <2>7, <2>13 DEF Under, UnderComing
  <2>15. ArrivalsOK'
    <3>1. (CatchingUp' <=> CatchingUp)
      BY <2>1 DEF CatchingUp
    <3>2. NoGap => NoGap'
      BY <2>1, <2>5, <2>8, <2>12, <2>14 DEF NoGap, Accounted, Reached
    <3>3. WalkedOK => WalkedOK'
      <4> SUFFICES ASSUME WalkedOK PROVE WalkedOK'
        OBVIOUS
      <4>1. \A m \in box : sync.below <= m /\ (Told("added", sync.upto, m) \/ Under(m)')
                              => Accounted(m)'
        BY <2>5, <2>8, <2>12, <2>14 DEF WalkedOK, Accounted, Reached
      <4>2. \A m \in box, n \in Ids : m < n /\ n < sync.below /\ Stored(n)' => Accounted(m)'
        BY <2>4, <2>5, <2>8, <2>12, <2>13 DEF WalkedOK, Accounted, Reached
      <4> QED
        BY <2>1, <2>6, <4>1, <4>2 DEF WalkedOK
    <3>4. CaughtOK => CaughtOK'
      BY <2>1, <2>5, <2>6, <2>7, <2>8, <2>12, <2>14 DEF CaughtOK, Accounted, Reached
    <3>5. FetchedOK => FetchedOK'
      BY <2>1, <2>6, <2>7, <2>12 DEF FetchedOK
    <3>6. PagedOK => PagedOK'
      BY <2>1, <2>5, <2>6, <2>7, <2>8, <2>14 DEF PagedOK, Excusing
    <3> QED
      BY <2>1, <2>12, <3>1, <3>2, <3>3, <3>4, <3>5, <3>6 DEF Rest, ArrivalsOK
  <2>16. ArrivalsBehindTheAnchorAreStored'
    BY <2>1, <2>5, <2>6, <2>8, <2>12, BehindIsTold DEF Rest, AnchorLeavesNothingBehind,
       ArrivalsBehindTheAnchorAreStored
  <2>17. RemovalsBehindTheAnchorAreFlagged'
    <3> SUFFICES ASSUME NEW m \in Ids, m \notin excuses'.lapsed,
                        Told("removed", account.anchor, m)
                 PROVE  archive'[m] # "live"
      BY <2>1, <2>6, BehindIsTold DEF RemovalsBehindTheAnchorAreFlagged
    <3>1. m \notin box /\ m # mirror.id /\ m \notin excuses.lapsed
      BY <2>1, RemovedIsGone DEF Excusing
    <3>2. archive[m] # "live"
      BY <3>1, BehindIsTold DEF Rest, AnchorLeavesNothingBehind,
         RemovalsBehindTheAnchorAreFlagged
    <3> QED
      BY <2>1, <2>3, <3>1, <3>2 DEF RowsType
  <2> QED
    BY <2>9, <2>10, <2>11, <2>15, <2>16, <2>17 DEF Rest, AnchorLeavesNothingBehind
<1> QED
  BY <1>1, <1>2

-----------------------------------------------------------------------------
(***************************************************************************)
(* The steps of a cycle that write nothing.                                *)
(***************************************************************************)
LEMMA TableKept ==
    ASSUME Rest, Outside, UNCHANGED <<archive, account>>, Excusing
    PROVE  /\ \A kind, n, m : Told(kind, n, m)' <=> Told(kind, n, m)
           /\ \A m : (Stored(m)' <=> Stored(m)) /\ (Reached(m)' <=> Reached(m))
           /\ \A m : (Accounted(m) => Accounted(m)') /\ (Lost(m) => Lost(m)')
           /\ \A m : Under(m)' <=> Under(m)
           /\ BackfillSkipsNothing' /\ (NoGap => NoGap') /\ AnchorLeavesNothingBehind'
<1>1. UNCHANGED <<arrived, box, log, mirror, archive, account>>
  BY DEF Outside
<1>2. \A kind, n, m : Told(kind, n, m)' <=> Told(kind, n, m)
  BY <1>1, ToldSame
<1>3. /\ \A m : (Stored(m)' <=> Stored(m)) /\ (Reached(m)' <=> Reached(m))
      /\ \A m : (Accounted(m) => Accounted(m)') /\ (Lost(m) => Lost(m)')
  BY <1>1 DEF Stored, Reached, Accounted, Lost, Excusing
<1>4. \A m : Under(m)' <=> Under(m)
  BY <1>3 DEF Under
<1>5. BackfillSkipsNothing' /\ (NoGap => NoGap')
  BY <1>1, <1>3, <1>4 DEF Rest, BackfillSkipsNothing, NoGap
<1>6. AnchorLeavesNothingBehind'
  BY <1>1, <1>2, <1>3, BehindIsTold DEF Rest, AnchorLeavesNothingBehind, Excusing,
     ArrivalsBehindTheAnchorAreStored, RemovalsBehindTheAnchorAreFlagged
<1> QED
  BY <1>2, <1>3, <1>4, <1>5, <1>6

LEMMA StartStays ==
    ASSUME SyncOK, HistoryOK, Rest, Start
    PROVE  Rest'
<1>1. /\ Outside /\ UNCHANGED <<archive, account, excuses>>
      /\ sync.pc = "idle" /\ sync'.pc = "history" /\ sync'.todo = {} /\ sync'.staged = {}
      /\ sync'.below = Top
  BY StartEffect
<1>2. UNCHANGED <<arrived, box, log, mirror>>
  BY <1>1 DEF Outside
<1>3. /\ \A m : (Stored(m)' <=> Stored(m)) /\ ~Upcoming(m)'
      /\ BackfillSkipsNothing' /\ (NoGap => NoGap') /\ AnchorLeavesNothingBehind'
  BY <1>1, TableKept DEF Upcoming, Excusing
<1>4. CycleOK'
  BY <1>1, <1>2, <1>3 DEF Rest, CycleOK, CatchingUp
<1>5. PageOK' /\ RemovalsOK'
  BY <1>1 DEF PageOK, RemovalsOK
<1>6. ArrivalsOK'
  BY <1>1, <1>3 DEF Rest, ArrivalsOK, CatchingUp
<1> QED
  BY <1>3, <1>4, <1>5, <1>6 DEF Rest

(* What the history tells is behind the anchor, or read from there.        *)
LEMMA ToldSince ==
    ASSUME SyncOK, NEW kind, NEW m, Told(kind, Len(log), m)
    PROVE  m \in Since(kind, account.anchor) \/ Told(kind, account.anchor, m)
<1>1. PICK i \in DOMAIN log : log[i] = [kind |-> kind, id |-> m]
  BY DEF Told
<1>2. log[i].kind = kind /\ log[i].id = m
  BY <1>1
<1>3. CASE i <= account.anchor
  BY <1>1, <1>3 DEF Told
<1>4. CASE i > account.anchor
  BY <1>2, <1>4 DEF Since
<1>5. DOMAIN log = 1..Len(log) /\ account.anchor \in Nat
  BY Numbers
<1> QED
  BY <1>3, <1>4, <1>5

(* What the history told after the anchor is what the cycle has in hand.   *)
LEMMA HistoryStays ==
    ASSUME SyncOK, HistoryOK, Rest, History
    PROVE  Rest'
<1>1. /\ Outside /\ UNCHANGED <<archive, account, excuses>>
      /\ sync.pc = "history" /\ sync'.pc = "fetch" /\ sync'.upto = Len(log)
      /\ sync'.gone = Since("removed", account.anchor)
      /\ sync'.todo = Since("added", account.anchor) \ sync'.gone
      /\ sync'.staged = {}
  BY HistoryEffect DEF Rest, CycleOK
<1>2. UNCHANGED <<arrived, box, log, mirror, archive, account, excuses>>
  BY <1>1 DEF Outside
<1>3. /\ \A kind, n, m : Told(kind, n, m)' <=> Told(kind, n, m)
      /\ \A m : (Stored(m)' <=> Stored(m)) /\ (Reached(m)' <=> Reached(m))
      /\ \A m : (Accounted(m) => Accounted(m)') /\ (Lost(m) => Lost(m)')
      /\ BackfillSkipsNothing' /\ (NoGap => NoGap') /\ AnchorLeavesNothingBehind'
  BY <1>1, TableKept DEF Excusing
<1>4. \A m : Upcoming(m)' <=> m \in sync'.todo
  BY <1>1 DEF Upcoming
<1>5. /\ log \in Seq(EntryType) /\ Len(log) \in Nat /\ DOMAIN log = 1..Len(log)
      /\ account.anchor \in Nat /\ account.anchor <= Len(log)
  BY Numbers
<1>6. \A kind, m : m \in Since(kind, account.anchor) => Told(kind, Len(log), m)
  <2> SUFFICES ASSUME NEW kind, NEW m \in Since(kind, account.anchor)
               PROVE  Told(kind, Len(log), m)
    OBVIOUS
  <2>1. PICK i \in DOMAIN log : log[i].kind = kind /\ log[i].id = m
    BY DEF Since
  <2>2. log[i] = [kind |-> kind, id |-> m] /\ i <= Len(log)
    <3>1. log[i] \in EntryType
      BY <1>5
    <3> QED
      BY <1>5, <2>1, <3>1 DEF EntryType
  <2> QED
    BY <2>2 DEF Told
<1>7. \A kind, m : Told(kind, Len(log), m) =>
          m \in Since(kind, account.anchor) \/ Told(kind, account.anchor, m)
  BY ToldSince
<1>8. \A m \in Ids : Stored(m)' \/ Upcoming(m)' => m <= arrived
  <2>1. \A m : Told("added", Len(log), m) => m <= arrived
    BY Numbers, Sizes DEF HistoryOK, Told
  <2> QED
    BY <1>1, <1>3, <1>4, <1>6, <2>1 DEF Rest, CycleOK
<1>9. CycleOK'
  BY <1>1, <1>2, <1>3, <1>4, <1>5, <1>6, <1>8 DEF Rest, CycleOK, CatchingUp
<1>10. PageOK'
  BY <1>1 DEF PageOK
<1>11. RemovalsOK'
  BY <1>1, <1>2, <1>3, <1>7 DEF RemovalsOK
<1>12. ArrivalsOK'
  <2>1. FetchedOK'
    <3> SUFFICES ASSUME NEW m \in box, Told("added", Len(log), m)
                 PROVE  Reached(m) \/ m \in sync'.todo \/ Lost(m)
      BY <1>1, <1>2, <1>3, <1>4 DEF FetchedOK
    <3>1. CASE Told("added", account.anchor, m)
      BY <3>1, BehindIsTold DEF Rest, AnchorLeavesNothingBehind,
         ArrivalsBehindTheAnchorAreStored, Reached
    <3>2. CASE m \in Since("added", account.anchor)
      <4>1. m \notin sync'.gone
        BY <1>1, <1>6, RemovedIsGone
      <4> QED
        BY <1>1, <3>2, <4>1
    <3> QED
      BY <1>7, <3>1, <3>2
  <2> QED
    BY <1>1, <1>3, <2>1 DEF Rest, ArrivalsOK, CatchingUp
<1> QED
  BY <1>3, <1>9, <1>10, <1>11, <1>12 DEF Rest

LEMMA HistoryExpiredStays ==
    ASSUME SyncOK, HistoryOK, Rest, HistoryExpired
    PROVE  Rest'
<1>1. /\ Outside /\ UNCHANGED <<archive, account>>
      /\ sync.pc = "history" /\ sync'.pc = "catchup" /\ sync'.pages >= 1
      /\ sync'.todo = {} /\ sync'.staged = {} /\ sync'.below = Top /\ sync'.upto = Len(log)
  BY ExpiredEffect, Sizes DEF Rest, CycleOK
<1>2. UNCHANGED <<arrived, box, log, mirror, archive, account>>
  BY <1>1 DEF Outside
<1>7. excuses' = [excuses EXCEPT !.lapsed = @ \cup Since("added", account.anchor)
                                             \cup Since("removed", account.anchor)]
  BY ExpiredEffect
<1>8. /\ Excusing /\ excuses'.hidden = excuses.hidden
      /\ \A kind \in {"added", "removed"} : Since(kind, account.anchor) \subseteq excuses'.lapsed
  <2>1. excuses \in ExcusesType
    BY Typed
  <2>2. /\ excuses'.hidden = excuses.hidden
        /\ excuses'.lapsed = excuses.lapsed \cup Since("added", account.anchor)
                                            \cup Since("removed", account.anchor)
    BY <1>7, <2>1 DEF ExcusesType
  <2> QED
    BY <2>2 DEF Excusing
<1>3. /\ \A kind, n, m : Told(kind, n, m)' <=> Told(kind, n, m)
      /\ \A m : (Stored(m)' <=> Stored(m)) /\ (Reached(m)' <=> Reached(m)) /\ ~Upcoming(m)'
      /\ \A m : Under(m)' <=> Under(m)
      /\ \A m : Accounted(m) => Accounted(m)'
      /\ BackfillSkipsNothing' /\ AnchorLeavesNothingBehind'
  BY <1>1, <1>8, TableKept DEF Upcoming
<1>4. CycleOK'
  <2>1. \A kind \in {"added", "removed"} : \A m :
          Told(kind, Len(log), m) => Told(kind, account.anchor, m) \/ m \in excuses'.lapsed
    BY <1>8, ToldSince
  <2> QED
    BY <1>1, <1>2, <1>3, <2>1 DEF Rest, CycleOK, CatchingUp
<1>5. PageOK' /\ RemovalsOK'
  BY <1>1 DEF PageOK, RemovalsOK
<1>6. ArrivalsOK'
  <2>2. NoGap => WalkedOK'
    <3>1. \A m \in box : ~(Top <= m)
      BY Numbers, Sizes
    <3> QED
      BY <1>1, <1>2, <1>3, <3>1 DEF NoGap, WalkedOK, Under
  <2> QED
    BY <1>1, <2>2 DEF Rest, ArrivalsOK, CatchingUp
<1> QED
  BY <1>3, <1>4, <1>5, <1>6 DEF Rest

(* Fetching a message only moves it, and drops what is gone or known.      *)
LEMMA FetchStays ==
    ASSUME SyncOK, HistoryOK, Rest, Fetch
    PROVE  Rest'
<1>1. /\ Outside /\ UNCHANGED <<archive, account, excuses>>
      /\ sync.pc \in {"fetch", "caught", "page"}
      /\ Fetching \in sync.todo /\ Fetching \in Ids
      /\ sync.pc = "fetch" => \A m \in sync.todo : Fetching <= m
      /\ sync'.todo = sync.todo \ {Fetching}
      /\ sync'.staged = IF Fetching \in box /\ ~Stored(Fetching)
                        THEN sync.staged \cup {Fetching} ELSE sync.staged
      /\ sync'.pc = sync.pc /\ sync'.upto = sync.upto /\ sync'.gone = sync.gone
      /\ sync'.below = sync.below /\ sync'.next = sync.next /\ sync'.pages = sync.pages
      /\ sync'.fresh = sync.fresh
  BY FetchEffect
<1>2. UNCHANGED <<arrived, box, log, mirror, archive, account, excuses>>
  BY <1>1 DEF Outside
<1>3. /\ \A kind, n, m : Told(kind, n, m)' <=> Told(kind, n, m)
      /\ \A m : (Stored(m)' <=> Stored(m)) /\ (Reached(m)' <=> Reached(m))
      /\ \A m : Under(m)' <=> Under(m)
      /\ \A m : (Accounted(m) => Accounted(m)') /\ (Lost(m) => Lost(m)')
      /\ BackfillSkipsNothing' /\ (NoGap => NoGap') /\ AnchorLeavesNothingBehind'
  BY <1>1, TableKept DEF Excusing
<1>4. \A m : Upcoming(m)' => Upcoming(m)
  BY <1>1 DEF Upcoming
<1>5. \A m \in box : Upcoming(m) => Upcoming(m)' \/ Stored(m)
  BY <1>1 DEF Upcoming
<1>6. \A m : UnderComing(m)' => UnderComing(m)
  BY <1>3, <1>4 DEF UnderComing
<1>7. CycleOK'
  <2>1. sync.pc = "fetch" => \A m \in sync'.staged, n \in sync'.todo : m < n
    <3> SUFFICES ASSUME sync.pc = "fetch", NEW m \in sync'.staged, NEW n \in sync'.todo
                 PROVE  m < n
      OBVIOUS
    <3>1. n \in sync.todo /\ n # Fetching /\ n \in Nat /\ Fetching \in Nat
      BY <1>1, Numbers, Sizes
    <3>2. CASE m \in sync.staged
      BY <3>1, <3>2 DEF Rest, CycleOK
    <3>3. CASE m = Fetching
      BY <1>1, <3>1, <3>3
    <3> QED
      BY <1>1, <3>2, <3>3
  <2> QED
    BY <1>1, <1>2, <1>3, <1>4, <2>1 DEF Rest, CycleOK, CatchingUp
<1>8. PageOK'
  BY <1>1, <1>2, <1>3, <1>5 DEF Rest, PageOK
<1>9. RemovalsOK'
  <2>1. Applied' = Applied
    BY <1>1, <1>2 DEF Applied
  <2>2. \A m \in sync'.staged : m \in sync.staged \/ ~Told("removed", Applied, m)
    BY <1>1, RemovedIsGone
  <2> QED
    BY <1>1, <1>2, <1>3, <2>1, <2>2 DEF Rest, RemovalsOK
<1>10. ArrivalsOK'
  <2>1. CatchingUp' <=> CatchingUp
    BY <1>1 DEF CatchingUp
  <2>2. WalkedOK => WalkedOK'
    BY <1>1, <1>2, <1>3 DEF WalkedOK
  <2>3. CaughtOK => CaughtOK'
    BY <1>1, <1>2, <1>3, <1>5, <1>6 DEF CaughtOK, Accounted, Reached
  <2>4. FetchedOK => FetchedOK'
    BY <1>1, <1>2, <1>3, <1>5 DEF FetchedOK, Reached
  <2>5. PagedOK => PagedOK'
    BY <1>1, <1>2, <1>3, <1>5, <1>6 DEF PagedOK
  <2> QED
    BY <1>1, <1>3, <2>1, <2>2, <2>3, <2>4, <2>5 DEF Rest, ArrivalsOK
<1> QED
  BY <1>3, <1>7, <1>8, <1>9, <1>10 DEF Rest

LEMMA CatchUpPageStays ==
    ASSUME SyncOK, HistoryOK, Rest, CatchUpPage
    PROVE  Rest'
<1>1. /\ Outside /\ UNCHANGED <<archive, account, excuses>>
      /\ sync.pc = "catchup" /\ sync'.pc = "caught" /\ sync'.todo = Unknown(Page(sync.below))
      /\ sync'.fresh = (sync'.todo # {}) /\ sync'.next = NextToken(sync.below)
      /\ sync'.upto = sync.upto /\ sync'.staged = {} /\ sync'.below = sync.below
      /\ sync'.pages = sync.pages
  BY CatchUpPageEffect DEF Rest, CycleOK
<1>2. UNCHANGED <<arrived, box, log, mirror, archive, account, excuses>>
  BY <1>1 DEF Outside
<1>3. /\ \A kind, n, m : Told(kind, n, m)' <=> Told(kind, n, m)
      /\ \A m : (Stored(m)' <=> Stored(m)) /\ (Reached(m)' <=> Reached(m))
      /\ \A m : Under(m)' <=> Under(m)
      /\ \A m : (Accounted(m) => Accounted(m)') /\ (Lost(m) => Lost(m)')
      /\ BackfillSkipsNothing' /\ AnchorLeavesNothingBehind'
  BY <1>1, TableKept DEF Excusing
<1>4. sync.below \in 0..Top
  BY Numbers DEF SyncType
<1> DEFINE page == Page(sync.below)
           next == NextToken(sync.below)
<1>5. /\ \A m \in page : m \in box /\ m \in Ids /\ m < sync.below /\ next <= m
      /\ \A m \in box : next <= m /\ m < sync.below => m \in page
      /\ next \in Nat /\ next <= sync.below
      /\ next # 0 => next \in page
  BY <1>4, ListedPage
<1>6. \A m : Upcoming(m)' <=> m \in page /\ ~Stored(m)
  BY <1>1 DEF Upcoming, Unknown
<1>7. sync'.next = next /\ (~sync'.fresh => \A m \in page : Stored(m))
  BY <1>1 DEF Unknown
<1> HIDE DEF page, next
<1>8. CycleOK'
  <2>1. \A m \in Ids : Stored(m)' \/ Upcoming(m)' => m <= arrived
    BY <1>3, <1>5, <1>6, Numbers DEF Rest, CycleOK
  <2> QED
    BY <1>1, <1>2, <1>3, <1>5, <1>6, <1>7, <2>1 DEF Rest, CycleOK, CatchingUp
<1>9. PageOK' /\ RemovalsOK'
  BY <1>1 DEF PageOK, RemovalsOK
<1>10. ArrivalsOK'
  <2>1. CatchingUp
    BY <1>1 DEF CatchingUp
  <2>2. WalkedOK => WalkedOK'
    BY <1>1, <1>2, <1>3 DEF WalkedOK
  <2>3. CaughtOK'
    BY <1>1, <1>2, <1>3, <1>5, <1>6, <1>7 DEF CaughtOK, Accounted, Reached
  <2> QED
    BY <1>1, <2>1, <2>2, <2>3 DEF Rest, ArrivalsOK, CatchingUp
<1> QED
  BY <1>3, <1>8, <1>9, <1>10 DEF Rest

LEMMA BackfillPageStays ==
    ASSUME SyncOK, HistoryOK, Rest, BackfillPage
    PROVE  Rest'
<1>1. /\ Outside /\ UNCHANGED <<archive, account, excuses>>
      /\ sync.pc = "backfill" /\ sync'.pc = "page" /\ sync'.todo = Unknown(Page(account.token))
      /\ sync'.next = NextToken(account.token) /\ sync'.upto = sync.upto
      /\ sync'.staged = {} /\ sync'.pages = sync.pages
  BY BackfillEffect DEF Rest, CycleOK
<1>2. UNCHANGED <<arrived, box, log, mirror, archive, account, excuses>>
  BY <1>1 DEF Outside
<1>3. /\ \A m : (Stored(m)' <=> Stored(m)) /\ (Reached(m)' <=> Reached(m))
      /\ BackfillSkipsNothing' /\ (NoGap => NoGap') /\ AnchorLeavesNothingBehind'
  BY <1>1, TableKept DEF Excusing
<1>4. account.token \in 0..Top
  BY Numbers
<1> DEFINE page == Page(account.token)
           next == NextToken(account.token)
<1>5. /\ \A m \in page : m \in box /\ m \in Ids /\ m < account.token /\ next <= m
      /\ \A m \in box : next <= m /\ m < account.token => m \in page
      /\ next \in Nat /\ next <= account.token
  BY <1>4, ListedPage
<1>6. \A m : Upcoming(m)' <=> m \in page /\ ~Stored(m)
  BY <1>1 DEF Upcoming, Unknown
<1>7. sync'.next = next
  BY <1>1
<1> HIDE DEF page, next
<1>8. CycleOK'
  <2>1. \A m \in Ids : Stored(m)' \/ Upcoming(m)' => m <= arrived
    BY <1>3, <1>5, <1>6, Numbers DEF Rest, CycleOK
  <2> QED
    BY <1>1, <1>2, <1>3, <1>5, <1>6, <1>7, <2>1 DEF Rest, CycleOK, CatchingUp
<1>9. PageOK'
  BY <1>1, <1>2, <1>3, <1>5, <1>6, <1>7 DEF PageOK
<1>10. RemovalsOK'
  BY <1>1 DEF RemovalsOK
<1>11. ArrivalsOK'
  <2>1. ~CatchingUp
    BY <1>1 DEF CatchingUp
  <2>2. PagedOK'
    BY <1>1, <1>2, <1>3, <1>5, <1>6, <1>7 DEF PagedOK
  <2> QED
    BY <1>1, <1>3, <2>1, <2>2 DEF Rest, ArrivalsOK, CatchingUp
<1> QED
  BY <1>3, <1>8, <1>9, <1>10, <1>11 DEF Rest

-----------------------------------------------------------------------------
(***************************************************************************)
(* The steps of a cycle that commit.                                       *)
(***************************************************************************)
LEMMA TableGrows ==
    ASSUME SyncOK, HistoryOK, Rest, NEW gone, Written(gone), sync.todo = {}
    PROVE  /\ UNCHANGED <<arrived, box, log, mirror>>
           /\ \A kind, n, m : Told(kind, n, m)' <=> Told(kind, n, m)
           /\ \A m \in Ids : Stored(m)' <=> Stored(m) \/ Upcoming(m)
           /\ \A m \in Ids : Stored(m)' => m <= arrived
           /\ \A m : Under(m)' => UnderComing(m)
           /\ \A m \in Ids : Upcoming(m) <=> m \in sync.staged
           /\ \A m \in Ids : archive'[m] = IF m \in sync.staged THEN "live"
                                           ELSE IF m \in gone /\ Stored(m) THEN "deleted"
                                           ELSE archive[m]
<1>1. Outside /\ archive' = Rows(sync.staged, gone) /\ UNCHANGED <<arrived, box, log, mirror>>
  BY DEF Written, Outside
<1>2. \A kind, n, m : Told(kind, n, m)' <=> Told(kind, n, m)
  BY <1>1, ToldSame
<1>3. /\ \A m \in Ids : Stored(m)' <=> Stored(m) \/ m \in sync.staged
      /\ \A m \in Ids : archive'[m] = IF m \in sync.staged THEN "live"
                                      ELSE IF m \in gone /\ Stored(m) THEN "deleted"
                                      ELSE archive[m]
  BY <1>1, StoredRows
<1>4. \A m \in Ids : Upcoming(m) <=> m \in sync.staged
  BY DEF Upcoming
<1>5. \A m \in Ids : Stored(m)' => m <= arrived
  BY <1>3, <1>4 DEF Rest, CycleOK
<1>6. \A m : Under(m)' => UnderComing(m)
  BY <1>3, <1>4 DEF Under, UnderComing
<1> QED
  BY <1>1, <1>2, <1>3, <1>4, <1>5, <1>6

LEMMA ApplyStays ==
    ASSUME SyncOK, HistoryOK, Rest, Apply
    PROVE  Rest'
<1>1. CASE Dropped
  BY <1>1, DroppedStays
<1>2. CASE /\ Written(sync.gone) /\ excuses' = excuses /\ sync' = ThenBackfill
           /\ account'.anchor = sync.upto /\ account'.token = account.token
  <2>1. /\ sync.pc = "fetch" /\ sync.todo = {}
        /\ sync'.pc \in {"idle", "backfill"} /\ sync'.todo = {} /\ sync'.staged = {}
        /\ sync'.pc = "backfill" => sync'.pages >= 1
    BY <1>2, ApplyEffect, NoCycleFields
  <2>2. /\ UNCHANGED <<arrived, box, log, mirror>>
        /\ \A kind, n, m : Told(kind, n, m)' <=> Told(kind, n, m)
        /\ \A m \in Ids : Stored(m)' <=> Stored(m) \/ Upcoming(m)
        /\ \A m \in Ids : Stored(m)' => m <= arrived
        /\ \A m : Under(m)' => UnderComing(m)
        /\ \A m \in Ids : Upcoming(m) <=> m \in sync.staged
        /\ \A m \in Ids : archive'[m] = IF m \in sync.staged THEN "live"
                                        ELSE IF m \in sync.gone /\ Stored(m) THEN "deleted"
                                        ELSE archive[m]
    BY <1>2, <2>1, TableGrows
  <2>3. \A m : ~Upcoming(m)'
    BY <2>1 DEF Upcoming
  <2>4. /\ box \in SUBSET Ids /\ arrived \in Nat /\ account.token \in Nat /\ Old \in Nat
        /\ box \in SUBSET (1..arrived) /\ sync.upto \in Nat /\ account.anchor \in Nat
        /\ log \in Seq(EntryType) /\ Ids \subseteq Nat
    BY Numbers, Sizes
  <2>5. CycleOK'
    BY <2>1, <2>2, <2>3 DEF Rest, CycleOK, CatchingUp
  <2>6. PageOK' /\ RemovalsOK'
    BY <2>1 DEF PageOK, RemovalsOK
  <2>7. BackfillSkipsNothing'
    BY <1>2, <2>2, <2>4 DEF Rest, BackfillSkipsNothing
  <2>8. NoGap /\ FetchedOK
    BY <2>1 DEF Rest, ArrivalsOK, CatchingUp
  <2>9. \A m \in box : /\ Reached(m) \/ Upcoming(m) => Reached(m)'
                       /\ Accounted(m) \/ Upcoming(m) => Accounted(m)'
                       /\ Lost(m) => Lost(m)' /\ Accounted(m)
    BY <1>2, <2>2, <2>4 DEF Reached, Accounted, Lost
  <2>10. NoGap'
    <3> SUFFICES ASSUME NEW m \in box, NEW n \in Ids, m < n, Stored(n) \/ Upcoming(n)
                 PROVE  Accounted(m) \/ Upcoming(m)
      BY <2>2, <2>9 DEF NoGap, UnderComing
    <3>1. CASE Stored(n)
      BY <2>8, <3>1 DEF NoGap, Under
    <3>2. CASE Upcoming(n) /\ m <= Old
      BY <2>4, <3>2 DEF Rest, BackfillSkipsNothing, Accounted, Reached
    <3>3. CASE Upcoming(n) /\ ~(m <= Old)
      <4>1. Told("added", sync.upto, n)
        BY <2>1, <3>3 DEF Rest, CycleOK
      <4>2. m \in (Old + 1)..arrived
        BY <2>4, <3>3
      <4>3. log \in Seq([kind : {"added", "removed"}, id : Ids])
        BY <2>4 DEF EntryType
      <4>4. Told("added", sync.upto, m)
        BY <2>4, <4>1, <4>2, <4>3, OlderToldEarlier
      <4> QED
        BY <2>8, <2>9, <4>4 DEF FetchedOK, Accounted
    <3> QED
      BY <3>1, <3>2, <3>3
  <2>11. ArrivalsOK'
    BY <1>2, <2>1, <2>10 DEF ArrivalsOK, CatchingUp
  <2>12. ArrivalsBehindTheAnchorAreStored'
    BY <1>2, <2>2, <2>8, <2>9, BehindIsTold DEF ArrivalsBehindTheAnchorAreStored, FetchedOK,
       Reached
  <2>13. RemovalsBehindTheAnchorAreFlagged'
    <3> SUFFICES ASSUME NEW m \in Ids, m \notin excuses.lapsed,
                        Told("removed", sync.upto, m)
                 PROVE  archive'[m] # "live"
      BY <1>2, <2>2, BehindIsTold DEF RemovalsBehindTheAnchorAreFlagged
    <3>1. m \notin sync.staged /\ (m \in sync.gone \/ Told("removed", account.anchor, m))
      BY <2>1 DEF Rest, RemovalsOK, Applied
    <3>2. Told("removed", account.anchor, m) => archive[m] # "live"
      BY BehindIsTold DEF Rest, AnchorLeavesNothingBehind, RemovalsBehindTheAnchorAreFlagged
    <3> QED
      BY <2>2, <3>1, <3>2 DEF Stored
  <2> QED
    BY <2>5, <2>6, <2>7, <2>11, <2>12, <2>13 DEF Rest, AnchorLeavesNothingBehind
<1> QED
  BY <1>1, <1>2, ApplyEffect

(* A page of the catch-up is stored: what lies at or above the next one is *)
(* there, and a page without news shows that the rest is known.            *)
LEMMA CatchUpStoredStays ==
    ASSUME SyncOK, HistoryOK, Rest, CatchUpStored
    PROVE  Rest'
<1>0. CycleOK
  BY DEF Rest
<1>1. CASE Dropped
  BY <1>1, DroppedStays
<1>2. CASE /\ Written({}) /\ UNCHANGED <<account, excuses>>
           /\ sync'.pc = (IF CaughtUp THEN "reanchor" ELSE "catchup")
           /\ sync'.todo = {} /\ sync'.staged = {} /\ sync'.below = sync.next
           /\ sync'.next = sync.next /\ sync'.fresh = sync.fresh /\ sync'.upto = sync.upto
           /\ sync'.pages = sync.pages - 1
  <2>1. sync.pc = "caught" /\ sync.todo = {}
    BY <1>0, CatchUpStoredEffect
  <2>2. /\ UNCHANGED <<arrived, box, log, mirror>>
        /\ \A kind, n, m : Told(kind, n, m)' <=> Told(kind, n, m)
        /\ \A m \in Ids : Stored(m)' <=> Stored(m) \/ Upcoming(m)
        /\ \A m \in Ids : Stored(m)' => m <= arrived
        /\ \A m : Under(m)' => UnderComing(m)
    BY <1>2, <2>1, TableGrows
  <2>3. \A m : ~Upcoming(m)'
    BY <1>2 DEF Upcoming
  <2>4. /\ box \in SUBSET Ids /\ account.token \in Nat /\ sync.next \in Nat
        /\ sync.below \in Nat /\ Ids \subseteq Nat /\ sync.pages \in Nat
    BY Numbers, Sizes
  <2>5. /\ sync.next <= sync.below /\ (sync.next # 0 => sync.next < sync.below)
        /\ \A m \in Ids : Upcoming(m) => sync.next <= m /\ m < sync.below
        /\ ~sync.fresh /\ sync.next # 0 => Stored(sync.next)
        /\ sync.pages >= 1 /\ CatchingUp
    BY <1>0, <2>1 DEF CycleOK, CatchingUp
  <2>6. sync.next # 0 => sync.next \in Ids
    <3>1. sync.next \in 0..Top /\ sync.below \in 0..Top
      BY Numbers DEF SyncType
    <3> QED
      BY <2>5, <3>1, Sizes
  <2>7. CycleOK'
    <3>1. sync'.pc \in {"reanchor", "catchup"} /\ (sync'.pc = "catchup" => sync'.pages >= 1)
      BY <1>2, <2>4, <2>5 DEF CaughtUp
    <3>2. ~sync.fresh /\ sync.next # 0 => sync.next \in Ids /\ Stored(sync.next)'
      BY <1>2, <2>2, <2>5, <2>6
    <3> QED
      BY <1>0, <1>2, <2>2, <2>3, <2>5, <3>1, <3>2 DEF CycleOK, CatchingUp
  <2>8. PageOK' /\ RemovalsOK'
    BY <1>2 DEF PageOK, RemovalsOK
  <2>9. BackfillSkipsNothing'
    BY <1>2, <2>2, <2>4 DEF Rest, BackfillSkipsNothing
  <2>10. AnchorLeavesNothingBehind'
    <3>1. ArrivalsBehindTheAnchorAreStored'
      BY <1>2, <2>2, <2>4, BehindIsTold DEF Rest, AnchorLeavesNothingBehind, Lost,
         ArrivalsBehindTheAnchorAreStored
    <3>2. \A m \in sync.staged : ~Told("removed", account.anchor, m)
      BY <2>1 DEF Rest, RemovalsOK, Applied
    <3>3. \A m \in Ids : archive'[m] = IF m \in sync.staged THEN "live" ELSE archive[m]
      BY <1>2, <2>1, TableGrows
    <3>4. RemovalsBehindTheAnchorAreFlagged'
      BY <1>2, <2>2, <3>2, <3>3, BehindIsTold DEF Rest, AnchorLeavesNothingBehind,
         RemovalsBehindTheAnchorAreFlagged
    <3> QED
      BY <3>1, <3>4 DEF AnchorLeavesNothingBehind
  <2>11. WalkedOK /\ CaughtOK
    BY <2>1 DEF Rest, ArrivalsOK, CatchingUp
  <2>12. \A m \in box : Accounted(m) \/ Upcoming(m) => Accounted(m)'
    BY <1>2, <2>2, <2>4 DEF Accounted, Reached
  <2>13. \A m \in box : sync.next <= m /\ (Told("added", sync.upto, m) \/ UnderComing(m))
                           => Accounted(m)'
    <3> SUFFICES ASSUME NEW m \in box, sync.next <= m,
                        Told("added", sync.upto, m) \/ UnderComing(m)
                 PROVE  Accounted(m) \/ Upcoming(m)
      BY <2>12
    <3>1. CASE m < sync.below
      BY <2>11, <3>1 DEF CaughtOK
    <3>2. CASE sync.below <= m
      <4>1. UnderComing(m) => Under(m)
        BY <2>4, <2>5, <3>2 DEF UnderComing, Under
      <4> QED
        BY <2>11, <3>2, <4>1 DEF WalkedOK
    <3> QED
      BY <2>4, <3>1, <3>2
  <2>14. \A m \in box, n \in Ids : m < n /\ n < sync.next /\ Stored(n)' => Accounted(m)'
    <3> SUFFICES ASSUME NEW m \in box, NEW n \in Ids, m < n, n < sync.next, Stored(n)'
                 PROVE  Accounted(m)
      BY <2>12
    <3>1. Stored(n) /\ n < sync.below
      BY <2>2, <2>4, <2>5
    <3> QED
      BY <2>11, <3>1 DEF WalkedOK
  <2>15. WalkedOK'
    BY <1>2, <2>2, <2>13, <2>14 DEF WalkedOK
  <2>16. ~sync.fresh /\ sync.next # 0 => \A m \in box : m < sync.next => Accounted(m)'
    <3> SUFFICES ASSUME ~sync.fresh, sync.next # 0, NEW m \in box, m < sync.next
                 PROVE  Accounted(m)
      BY <2>12
    <3> QED
      BY <2>5, <2>6, <2>11 DEF WalkedOK
  <2>17. ArrivalsOK'
    <3>1. CatchingUp'
      BY <1>2 DEF CatchingUp
    <3> QED
      BY <1>2, <2>2, <2>15, <2>16, <3>1 DEF ArrivalsOK
  <2> QED
    BY <2>7, <2>8, <2>9, <2>10, <2>17 DEF Rest
<1> QED
  BY <1>0, <1>1, <1>2, CatchUpStoredEffect

(* The anchor of an expired history moves after the walk: what the profile *)
(* had told is stored, or the walk was capped.                             *)
LEMMA ReanchorStays ==
    ASSUME SyncOK, HistoryOK, Rest, Reanchor
    PROVE  Rest'
<1>1. /\ Outside /\ archive' = archive /\ sync.pc = "reanchor" /\ sync' = ThenBackfill
      /\ account'.anchor = sync.upto /\ account'.token = account.token
      /\ excuses' = IF sync.fresh /\ sync.next # 0
                    THEN [excuses EXCEPT !.hidden = @ \cup Missing(archive, sync.next)]
                    ELSE excuses
  BY ReanchorEffect
<1>2. UNCHANGED <<arrived, box, log, mirror, archive>>
  BY <1>1 DEF Outside
<1>3. /\ sync'.pc \in {"idle", "backfill"} /\ sync'.todo = {} /\ sync'.staged = {}
      /\ sync'.pc = "backfill" => sync'.pages >= 1
  BY <1>1, NoCycleFields
<1>4. \A kind, n, m : Told(kind, n, m)' <=> Told(kind, n, m)
  BY <1>2, ToldSame
<1>5. \A m : (Stored(m)' <=> Stored(m)) /\ ~Upcoming(m)' /\ (Reached(m)' <=> Reached(m))
             /\ (Under(m)' <=> Under(m))
  BY <1>1, <1>2, <1>3 DEF Stored, Upcoming, Reached, Under
<1>14. /\ Excusing /\ excuses'.lapsed = excuses.lapsed
       /\ sync.fresh /\ sync.next # 0 => Missing(archive, sync.next) \subseteq excuses'.hidden
  <2>1. excuses \in ExcusesType
    BY Typed
  <2> QED
    BY <1>1, <2>1 DEF ExcusesType, Excusing
<1>6. CycleOK'
  BY <1>1, <1>2, <1>3, <1>5 DEF Rest, CycleOK, CatchingUp
<1>7. PageOK' /\ RemovalsOK'
  BY <1>3 DEF PageOK, RemovalsOK
<1>8. BackfillSkipsNothing'
  BY <1>1, <1>2, <1>5 DEF Rest, BackfillSkipsNothing
<1>9. /\ sync.below = sync.next
      /\ \A kind \in {"added", "removed"}, m \in Ids :
            Told(kind, sync.upto, m) => Told(kind, account.anchor, m) \/ m \in excuses.lapsed
  BY <1>1 DEF Rest, CycleOK, CatchingUp
<1>10. /\ WalkedOK
       /\ ~sync.fresh /\ sync.next # 0 => \A m \in box : m < sync.below => Accounted(m)
  BY <1>1 DEF Rest, ArrivalsOK, CatchingUp
<1>15. \A m : Accounted(m) => Accounted(m)'
  BY <1>5, <1>14 DEF Accounted, Excusing
<1>11. \A m \in box : Told("added", sync.upto, m) \/ Under(m) => Accounted(m)'
  <2> SUFFICES ASSUME NEW m \in box, Told("added", sync.upto, m) \/ Under(m)
               PROVE  Accounted(m)'
    OBVIOUS
  <2>1. m \in Nat /\ sync.below \in Nat /\ (sync.next = 0 => sync.below <= m)
    BY <1>9, Numbers, Sizes
  <2>2. CASE sync.below <= m
    BY <1>10, <1>15, <2>2 DEF WalkedOK
  <2>3. CASE m < sync.below /\ ~sync.fresh
    BY <1>10, <1>15, <2>1, <2>3
  <2>4. CASE m < sync.below /\ sync.fresh
    <3>1. sync.next # 0
      BY <2>1, <2>4
    <3>2. ~Stored(m) => m \in Missing(archive, sync.next)
      BY <1>9, <2>4 DEF Missing, Stored
    <3> QED
      BY <1>5, <1>14, <2>4, <3>1, <3>2 DEF Accounted, Reached
  <2> QED
    BY <2>1, <2>2, <2>3, <2>4
<1>12. ArrivalsOK'
  BY <1>2, <1>3, <1>5, <1>11 DEF ArrivalsOK, CatchingUp, NoGap
<1>13. AnchorLeavesNothingBehind'
  <2>0. box \in SUBSET Ids
    BY Numbers
  <2>1. \A m \in box : Told("added", sync.upto, m) => Reached(m)' \/ Lost(m)'
    <3> SUFFICES ASSUME NEW m \in box, Told("added", sync.upto, m)
                 PROVE  Reached(m)' \/ Lost(m)'
      OBVIOUS
    <3>1. CASE Told("added", account.anchor, m)
      <4>1. Reached(m) \/ Lost(m)
        BY <3>1, BehindIsTold DEF Rest, AnchorLeavesNothingBehind,
           ArrivalsBehindTheAnchorAreStored, Reached
      <4> QED
        BY <1>5, <1>14, <4>1 DEF Lost, Excusing
    <3>2. CASE m \in excuses.lapsed
      BY <1>11, <1>14, <3>2 DEF Accounted, Lost
    <3> QED
      BY <1>9, <2>0, <3>1, <3>2
  <2>2. \A m \in Ids : Told("removed", sync.upto, m) /\ m \notin excuses.lapsed
                          => archive[m] # "live"
    BY <1>9, BehindIsTold DEF Rest, AnchorLeavesNothingBehind,
       RemovalsBehindTheAnchorAreFlagged
  <2>3. ArrivalsBehindTheAnchorAreStored'
    BY <1>1, <1>2, <1>4, <2>1, BehindIsTold DEF ArrivalsBehindTheAnchorAreStored, Reached
  <2>4. RemovalsBehindTheAnchorAreFlagged'
    BY <1>1, <1>4, <1>14, <2>2, BehindIsTold DEF RemovalsBehindTheAnchorAreFlagged
  <2> QED
    BY <2>3, <2>4 DEF AnchorLeavesNothingBehind
<1> QED
  BY <1>6, <1>7, <1>8, <1>12, <1>13 DEF Rest

LEMMA PageStoredStays ==
    ASSUME SyncOK, HistoryOK, Rest, PageStored
    PROVE  Rest'
<1>0. CycleOK
  BY DEF Rest
<1>1. CASE Dropped
  BY <1>1, DroppedStays
<1>2. CASE /\ Written({}) /\ excuses' = excuses
           /\ account'.anchor = account.anchor /\ account'.token = sync.next
           /\ sync'.pc \in {"idle", "backfill"} /\ sync'.todo = {} /\ sync'.staged = {}
           /\ sync'.pc = "backfill" => sync'.pages >= 1
  <2>1. sync.pc = "page" /\ sync.todo = {}
    BY <1>0, PageStoredEffect
  <2>2. /\ UNCHANGED <<arrived, box, log, mirror>>
        /\ \A kind, n, m : Told(kind, n, m)' <=> Told(kind, n, m)
        /\ \A m \in Ids : Stored(m)' <=> Stored(m) \/ Upcoming(m)
        /\ \A m \in Ids : Stored(m)' => m <= arrived
        /\ \A m : Under(m)' => UnderComing(m)
        /\ \A m \in Ids : Upcoming(m) <=> m \in sync.staged
        /\ \A m \in Ids : archive'[m] = IF m \in sync.staged THEN "live"
                                        ELSE IF m \in {} /\ Stored(m) THEN "deleted"
                                        ELSE archive[m]
    BY <1>2, <2>1, TableGrows
  <2>3. \A m : ~Upcoming(m)'
    BY <1>2 DEF Upcoming
  <2>4. /\ box \in SUBSET Ids /\ account.token \in Nat /\ sync.next \in Nat
        /\ Ids \subseteq Nat
    BY Numbers, Sizes
  <2>5. sync.next <= account.token /\ \A m \in Ids : Upcoming(m) => m < account.token
    BY <1>0, <2>1 DEF CycleOK
  <2>6. CycleOK'
    BY <1>0, <1>2, <2>2, <2>3 DEF CycleOK, CatchingUp
  <2>7. PageOK' /\ RemovalsOK'
    BY <1>2 DEF PageOK, RemovalsOK
  <2>8. BackfillSkipsNothing'
    <3> SUFFICES ASSUME NEW m \in box, m <= Old, sync.next <= m
                 PROVE  Stored(m) \/ Upcoming(m)
      BY <1>2, <2>2, <2>4 DEF BackfillSkipsNothing
    <3>1. CASE m < account.token
      BY <2>1, <3>1 DEF Rest, PageOK
    <3>2. CASE account.token <= m
      BY <3>2 DEF Rest, BackfillSkipsNothing
    <3> QED
      BY <2>4, <3>1, <3>2
  <2>9. NoGap /\ PagedOK
    BY <2>1 DEF Rest, ArrivalsOK, CatchingUp
  <2>10. \A m \in box : Told("added", account.anchor, m) => Reached(m)' \/ Lost(m)'
    <3> SUFFICES ASSUME NEW m \in box, Told("added", account.anchor, m), sync.next <= m
                 PROVE  Stored(m) \/ Upcoming(m) \/ Lost(m)
      BY <1>2, <2>2, <2>4 DEF Reached, Lost
    <3>1. CASE m < account.token
      BY <2>9, <3>1 DEF PagedOK
    <3>2. CASE account.token <= m
      <4>1. Reached(m) \/ Lost(m)
        BY BehindIsTold DEF Rest, AnchorLeavesNothingBehind, ArrivalsBehindTheAnchorAreStored,
           Reached
      <4>2. ~ (m < account.token)
        BY <2>4, <3>2
      <4> QED
        BY <4>1, <4>2 DEF Reached
    <3> QED
      BY <2>4, <3>1, <3>2
  <2>14. \A m \in box : UnderComing(m) => Accounted(m)'
    <3> SUFFICES ASSUME NEW m \in box, UnderComing(m), sync.next <= m
                 PROVE  Stored(m) \/ Upcoming(m) \/ m \in excuses.hidden
      BY <1>2, <2>2, <2>4 DEF Accounted, Reached
    <3>1. CASE m < account.token
      BY <2>9, <3>1 DEF PagedOK
    <3>2. CASE account.token <= m
      <4>1. Under(m)
        BY <2>4, <2>5, <3>2 DEF UnderComing, Under
      <4>2. Accounted(m)
        BY <2>9, <4>1 DEF NoGap
      <4>3. ~ (m < account.token)
        BY <2>4, <3>2
      <4> QED
        BY <4>2, <4>3 DEF Accounted, Reached
    <3> QED
      BY <2>4, <3>1, <3>2
  <2>11. ArrivalsOK'
    BY <1>2, <2>2, <2>14 DEF ArrivalsOK, CatchingUp, NoGap
  <2>12. ArrivalsBehindTheAnchorAreStored'
    BY <1>2, <2>2, <2>10, BehindIsTold DEF ArrivalsBehindTheAnchorAreStored, Reached
  <2>13. RemovalsBehindTheAnchorAreFlagged'
    <3> SUFFICES ASSUME NEW m \in Ids, m \notin excuses.lapsed,
                        Told("removed", account.anchor, m)
                 PROVE  archive'[m] # "live"
      BY <1>2, <2>2, BehindIsTold DEF RemovalsBehindTheAnchorAreFlagged
    <3>1. m \notin sync.staged
      BY <2>1 DEF Rest, RemovalsOK, Applied
    <3>2. archive[m] # "live"
      BY BehindIsTold DEF Rest, AnchorLeavesNothingBehind, RemovalsBehindTheAnchorAreFlagged
    <3> QED
      BY <2>2, <3>1, <3>2
  <2> QED
    BY <2>6, <2>7, <2>8, <2>11, <2>12, <2>13 DEF Rest, AnchorLeavesNothingBehind
<1> QED
  BY <1>0, <1>1, <1>2, PageStoredEffect

(* An answer that refuses a call commits what is staged: below that,       *)
(* nothing is missing but in a catch-up, which hides it.                   *)
LEMMA RefusedStays ==
    ASSUME SyncOK, HistoryOK, Rest, AnswerRefused
    PROVE  Rest'
<1>1. CASE Dropped
  BY <1>1, DroppedStays
<1>2. CASE /\ Written({}) /\ sync' = NoCycle /\ account' = account
           /\ excuses' = Torn(Rows(sync.staged, {}))
  <2>1. sync'.pc = "idle" /\ sync'.todo = {} /\ sync'.staged = {}
    BY <1>2 DEF NoCycle
  <2>2. /\ UNCHANGED <<arrived, box, log, mirror>> /\ archive' = Rows(sync.staged, {})
    BY <1>2 DEF Written, Outside
  <2>3. \A kind, n, m : Told(kind, n, m)' <=> Told(kind, n, m)
    BY <2>2, ToldSame
  <2>4. /\ \A m \in Ids : Stored(m)' <=> Stored(m) \/ m \in sync.staged
        /\ \A m \in Ids : archive'[m] = IF m \in sync.staged THEN "live"
                                        ELSE IF m \in {} /\ Stored(m) THEN "deleted"
                                        ELSE archive[m]
    BY <2>2, StoredRows
  <2>5. \A m : ~Upcoming(m)'
    BY <2>1 DEF Upcoming
  <2>6. /\ box \in SUBSET Ids /\ arrived \in Nat /\ account.token \in Nat /\ Old \in Nat
        /\ box \in SUBSET (1..arrived) /\ sync.upto \in Nat /\ account.anchor \in Nat
        /\ log \in Seq(EntryType) /\ Ids \subseteq Nat
        /\ sync.todo \in SUBSET Ids /\ sync.staged \in SUBSET Ids
    BY Numbers, Sizes
  <2>7. /\ Excusing /\ excuses'.lapsed = excuses.lapsed
        /\ CatchingUp => excuses'.hidden = excuses.hidden \cup Covered(archive')
    BY <1>2, <2>2, Typed, TornFields
  <2>8. CycleOK'
    <3>1. \A m \in Ids : Stored(m)' => m <= arrived
      BY <2>4 DEF Rest, CycleOK, Upcoming
    <3> QED
      BY <2>1, <2>2, <2>5, <3>1 DEF Rest, CycleOK, CatchingUp
  <2>9. PageOK' /\ RemovalsOK'
    BY <2>1 DEF PageOK, RemovalsOK
  <2>10. BackfillSkipsNothing'
    BY <1>2, <2>2, <2>4, <2>6 DEF Rest, BackfillSkipsNothing
  <2>11. \A m \in box : /\ Reached(m) => Reached(m)'
                        /\ Accounted(m) => Accounted(m)'
                        /\ Lost(m) => Lost(m)' /\ Accounted(m)
    BY <1>2, <2>4, <2>6, <2>7 DEF Reached, Accounted, Lost, Excusing
  <2>12. NoGap'
    <3> SUFFICES ASSUME NEW m \in box, NEW n \in Ids, m < n, Stored(n)', ~Stored(m)'
                 PROVE  Accounted(m)'
      BY <2>2, <2>6 DEF NoGap, Under, Accounted, Reached
    <3>1. CASE CatchingUp
      <4>1. m \in Covered(archive')
        BY <2>2 DEF Covered, Missing, Stored
      <4> QED
        BY <2>7, <3>1, <4>1 DEF Accounted
    <3>2. CASE ~CatchingUp /\ Stored(n)
      BY <2>11, <3>2 DEF Rest, ArrivalsOK, NoGap, Under
    <3>3. CASE ~CatchingUp /\ n \in sync.staged
      <4>1. sync.pc \in {"fetch", "page"}
        <5>1. sync.pc \in {"idle", "history", "fetch", "catchup", "caught", "reanchor",
                           "backfill", "page"}
          BY Numbers DEF SyncType
        <5> QED
          BY <3>3, <5>1 DEF Rest, CycleOK, CatchingUp
      <4>2. CASE sync.pc = "page"
        <5>1. n < account.token
          BY <3>3, <4>2 DEF Rest, CycleOK, Upcoming
        <5>2. Reached(m)
          BY <2>6, <5>1 DEF Reached
        <5> QED
          BY <2>11, <5>2 DEF Accounted
      <4>3. CASE sync.pc = "fetch" /\ m <= Old
        BY <2>6, <2>11, <4>3 DEF Rest, BackfillSkipsNothing, Accounted, Reached
      <4>4. CASE sync.pc = "fetch" /\ ~(m <= Old)
        <5>1. Told("added", sync.upto, n)
          BY <3>3, <4>4 DEF Rest, CycleOK, Upcoming
        <5>2. m \in (Old + 1)..arrived
          BY <2>6, <4>4
        <5>3. log \in Seq([kind : {"added", "removed"}, id : Ids])
          BY <2>6 DEF EntryType
        <5>4. Told("added", sync.upto, m)
          BY <2>6, <5>1, <5>2, <5>3, OlderToldEarlier
        <5>5. Reached(m) \/ Upcoming(m) \/ Lost(m)
          BY <4>4, <5>4 DEF Rest, ArrivalsOK, FetchedOK
        <5>6. m \notin sync.todo
          BY <2>6, <3>3, <4>4 DEF Rest, CycleOK
        <5>7. m \notin sync.staged
          BY <2>4, <2>6
        <5> QED
          BY <2>11, <5>5, <5>6, <5>7 DEF Upcoming, Accounted
      <4> QED
        BY <4>1, <4>2, <4>3, <4>4
    <3> QED
      BY <2>4, <3>1, <3>2, <3>3
  <2>15. ArrivalsOK'
    BY <2>1, <2>12 DEF ArrivalsOK, CatchingUp
  <2>13. ArrivalsBehindTheAnchorAreStored'
    BY <1>2, <2>2, <2>3, <2>11, BehindIsTold DEF Rest, AnchorLeavesNothingBehind,
       ArrivalsBehindTheAnchorAreStored, Reached
  <2>14. RemovalsBehindTheAnchorAreFlagged'
    <3> SUFFICES ASSUME NEW m \in Ids, m \notin excuses.lapsed,
                        Told("removed", account.anchor, m)
                 PROVE  archive'[m] # "live"
      BY <1>2, <2>3, <2>7, BehindIsTold DEF RemovalsBehindTheAnchorAreFlagged
    <3>1. m \notin sync.staged
      <4>1. CASE sync.pc = "fetch"
        <5>1. account.anchor \in Nat /\ sync.upto \in Nat /\ account.anchor <= sync.upto
          BY <4>1, Numbers DEF Rest, CycleOK
        <5>2. log \in Seq([kind : {"added", "removed"}, id : Ids])
          BY Numbers DEF EntryType
        <5>3. Told("removed", sync.upto, m)
          BY <5>1, <5>2, ToldLater
        <5> QED
          BY <4>1, <5>3 DEF Rest, RemovalsOK, Applied
      <4>2. CASE sync.pc # "fetch"
        BY <4>2 DEF Rest, RemovalsOK, Applied
      <4> QED
        BY <4>1, <4>2
    <3>2. archive[m] # "live"
      BY BehindIsTold DEF Rest, AnchorLeavesNothingBehind, RemovalsBehindTheAnchorAreFlagged
    <3> QED
      BY <2>4, <3>1, <3>2
  <2> QED
    BY <2>8, <2>9, <2>10, <2>15, <2>13, <2>14 DEF Rest, AnchorLeavesNothingBehind
<1> QED
  BY <1>1, <1>2, RefusedEffect

-----------------------------------------------------------------------------
(***************************************************************************)
(* The invariant.                                                          *)
(***************************************************************************)
LEMMA SyncInit_Inv == SyncInit => SyncInv
<1> SUFFICES ASSUME SyncInit PROVE SyncInv
  OBVIOUS
<1>1. /\ arrived = Old /\ box = 1..Old /\ log = <<>> /\ kept = 0
      /\ archive = [m \in Ids |-> "absent"]
      /\ account = [anchor |-> 0, token |-> Top, done |-> FALSE, authorized |-> FALSE]
      /\ sync = NoCycle /\ mirror = NoMirror
      /\ excuses = NoExcuses /\ faults = 0 /\ sends = 0
  BY DEF SyncInit
<1>2. sync.pc = "idle" /\ sync.todo = {} /\ sync.staged = {} /\ account.token = Top
      /\ account.anchor = 0 /\ mirror.pc = "none"
  BY <1>1 DEF NoCycle, NoMirror
<1>3. \A m \in Ids : ~Stored(m) /\ ~Upcoming(m) /\ archive[m] = "absent"
  BY <1>1, <1>2 DEF Stored, Upcoming
<1>4. \A kind, n, m : ~Told(kind, n, m)
  BY <1>1 DEF Told
<1>5. box \subseteq Ids /\ (\A m \in box : m < Top) /\ Old \in Nat /\ Arrivals \in Nat
  BY <1>1, Sizes
<1>6. SyncOK
  <2>1. Len(log) = 0 /\ log \in Seq(EntryType) /\ kept \in 0..Len(log)
    BY <1>1
  <2>2. archive \in RowsType /\ sync \in SyncType
    BY <1>1, NoCycleFields DEF RowsType
  <2>3. account \in AccountType
    BY <1>1, <2>1, Sizes DEF AccountType
  <2>4. arrived \in Old..(Old + Arrivals) /\ box \subseteq 1..arrived
    BY <1>1, Sizes
  <2>5. mirror \in [id : Ids \cup {0}, pc : {"none", "sent", "insert", "update"}]
    BY <1>1 DEF NoMirror
  <2>6. excuses \in ExcusesType
        /\ faults \in 0..MaxFaults /\ sends \in 0..MaxSends
    BY <1>1, Sizes DEF NoExcuses, ExcusesType
  <2> QED
    BY <2>1, <2>2, <2>3, <2>4, <2>5, <2>6, Typed
<1>7. HistoryOK
  BY <1>1, <1>4, <1>5 DEF HistoryOK
<1>8. CycleOK /\ PageOK /\ RemovalsOK
  BY <1>2, <1>3 DEF CycleOK, PageOK, RemovalsOK, CatchingUp
<1>9. ArrivalsOK
  BY <1>2, <1>3 DEF ArrivalsOK, CatchingUp, NoGap, Under
<1>10. BackfillSkipsNothing
  BY <1>1, <1>2, <1>5 DEF BackfillSkipsNothing, Top
<1>11. AnchorLeavesNothingBehind
  BY <1>4, BehindIsTold DEF AnchorLeavesNothingBehind, ArrivalsBehindTheAnchorAreStored,
     RemovalsBehindTheAnchorAreFlagged
<1> QED
  BY <1>6, <1>7, <1>8, <1>9, <1>10, <1>11 DEF SyncInv

(* Steps of Gmail and of a send. *)
LEMMA OthersStayTyped ==
    ASSUME SyncOK, CycleOK,
           Arrive \/ Remove \/ Expire \/ Send \/ MirrorLookUp \/ MirrorCommit \/ Authorize
    PROVE  SyncOK'
<1>1. /\ arrived \in Old..(Old + Arrivals) /\ box \subseteq 1..arrived /\ arrived \in Nat
      /\ log \in Seq(EntryType) /\ kept \in 0..Len(log) /\ Len(log) \in Nat
      /\ archive \in RowsType /\ account \in AccountType /\ sync \in SyncType
      /\ mirror \in [id : Ids \cup {0}, pc : {"none", "sent", "insert", "update"}]
      /\ excuses \in ExcusesType
      /\ faults \in 0..MaxFaults /\ sends \in 0..MaxSends
  BY Typed, Numbers
<1> DEFINE Box == arrived' \in Old..(Old + Arrivals) /\ box' \subseteq 1..arrived'
           Log == log' \in Seq(EntryType) /\ kept' \in 0..Len(log') /\ Len(log) <= Len(log')
           Row == archive' \in RowsType
           Acc == account'.anchor = account.anchor /\ account'.token = account.token
                  /\ account' \in AccountType
           Mir == mirror' \in [id : Ids \cup {0}, pc : {"none", "sent", "insert", "update"}]
           Cnt == /\ excuses' \in ExcusesType
                  /\ faults' \in 0..MaxFaults /\ sends' \in 0..MaxSends
<1>2. UNCHANGED <<arrived, box>> => Box
  BY <1>1
<1>3. UNCHANGED <<log, kept>> => Log
  BY <1>1
<1>4. (UNCHANGED archive => Row) /\ (UNCHANGED account => Acc) /\ (UNCHANGED mirror => Mir)
      /\ (UNCHANGED <<excuses, faults, sends>> => Cnt)
  BY <1>1
<1>5. NewMail => Box /\ Log
  <2> SUFFICES ASSUME NewMail PROVE Box /\ Log
    OBVIOUS
  <2>1. /\ arrived < Old + Arrivals /\ arrived' = arrived + 1
        /\ box' = box \cup {arrived + 1} /\ kept' = kept
        /\ log' = Append(log, [kind |-> "added", id |-> arrived + 1])
    BY DEF NewMail
  <2>2. [kind |-> "added", id |-> arrived + 1] \in EntryType
    BY <1>1, <2>1, Sizes DEF EntryType
  <2>3. log' \in Seq(EntryType) /\ Len(log') = Len(log) + 1
    BY <1>1, <2>1, <2>2
  <2> QED
    BY <1>1, <2>1, <2>3, Sizes
<1>6. /\ Box /\ Log /\ Row /\ Acc /\ Mir /\ Cnt /\ sync' = sync
  <2>1. CASE Arrive
    BY <1>2, <1>3, <1>4, <1>5, <2>1 DEF Arrive
  <2>2. CASE Remove
    <3>1. PICK m \in box : box' = box \ {m}
                           /\ log' = Append(log, [kind |-> "removed", id |-> m])
      BY <2>2 DEF Remove
    <3>2. /\ arrived' = arrived /\ kept' = kept
          /\ UNCHANGED <<archive, account, sync, mirror, excuses, faults, sends>>
      BY <2>2 DEF Remove
    <3>3. [kind |-> "removed", id |-> m] \in EntryType
      BY <1>1, Sizes DEF EntryType
    <3>4. log' \in Seq(EntryType) /\ Len(log') = Len(log) + 1
      BY <1>1, <3>1, <3>3
    <3>5. Box /\ Log
      BY <1>1, <3>1, <3>2, <3>4
    <3> QED
      BY <1>4, <3>2, <3>5
  <2>3. CASE Expire
    <3>1. Box /\ Row /\ Acc /\ Mir
      BY <1>2, <1>4, <2>3 DEF Expire
    <3>2. Log
      BY <1>1, <2>3 DEF Expire
    <3>3. Cnt
      BY <1>1, <2>3, Sizes DEF Expire, Fault
    <3> QED
      BY <2>3, <3>1, <3>2, <3>3 DEF Expire
  <2>4. CASE Send
    <3>1. Box /\ Log /\ Row /\ Acc
      BY <1>4, <1>5, <2>4 DEF Send
    <3>2. Mir
      BY <1>1, <2>4, Sizes DEF Send, NewMail
    <3>3. Cnt
      BY <1>1, <2>4, Sizes DEF Send
    <3> QED
      BY <2>4, <3>1, <3>2, <3>3 DEF Send
  <2>5. CASE MirrorLookUp
    <3>1. Box /\ Log /\ Row /\ Acc /\ Cnt
      BY <1>2, <1>3, <1>4, <2>5 DEF MirrorLookUp, gmail
    <3>2. Mir
      BY <1>1, <2>5 DEF MirrorLookUp
    <3> QED
      BY <2>5, <3>1, <3>2 DEF MirrorLookUp
  <2>6. CASE MirrorCommit
    <3>1. Box /\ Log /\ Acc
      BY <1>2, <1>3, <1>4, <2>6 DEF MirrorCommit, gmail
    <3>2. Mir
      BY <2>6 DEF MirrorCommit, NoMirror
    <3>3. Row
      BY <1>1, <2>6 DEF MirrorCommit, RowsType
    <3>4. Cnt
      <4>1. Missing(archive, mirror.id) \subseteq Ids
        BY Numbers DEF Missing
      <4>2. mirror.pc # "none"
        BY <2>6 DEF MirrorCommit
      <4>3. mirror.id \in Ids
        BY <1>1, <4>2, Sizes DEF CycleOK
      <4> QED
        BY <1>1, <2>6, <4>1, <4>3 DEF MirrorCommit, ExcusesType
    <3> QED
      BY <2>6, <3>1, <3>2, <3>3, <3>4 DEF MirrorCommit
  <2>7. CASE Authorize
    <3>1. Box /\ Log /\ Row /\ Mir /\ Cnt
      BY <1>2, <1>3, <1>4, <2>7 DEF Authorize, gmail
    <3>2. Acc
      BY <1>1, <2>7 DEF Authorize, AccountType
    <3> QED
      BY <2>7, <3>1, <3>2 DEF Authorize
  <2> QED
    BY <2>1, <2>2, <2>3, <2>4, <2>5, <2>6, <2>7
<1>7. sync' \in SyncType' /\ account' \in AccountType'
  <2>1. 0..Len(log) \subseteq 0..Len(log')
    BY <1>1, <1>6
  <2>2. sync'.upto \in 0..Len(log') /\ account'.anchor \in 0..Len(log')
    BY <1>1, <1>6, <2>1 DEF SyncType, AccountType
  <2>3. sync' \in SyncType'
    BY <1>1, <1>6, <2>1 DEF SyncType
  <2>4. account' \in AccountType'
    BY <1>1, <1>6, <2>1 DEF AccountType
  <2> QED
    BY <2>3, <2>4
<1> QED
  BY <1>6, <1>7 DEF SyncOK, SyncType, AccountType, EntryType, RowsType, ExcusesType

(* Steps of the cycle. *)
LEMMA CycleStaysTyped ==
    ASSUME SyncOK, CycleOK, SyncStep \/ AnswerRefused \/ Broken
    PROVE  SyncOK'
<1>1. /\ arrived \in Old..(Old + Arrivals) /\ box \subseteq 1..arrived
      /\ log \in Seq(EntryType) /\ kept \in 0..Len(log)
      /\ archive \in RowsType /\ account \in AccountType /\ sync \in SyncType
      /\ mirror \in [id : Ids \cup {0}, pc : {"none", "sent", "insert", "update"}]
      /\ excuses \in ExcusesType
      /\ faults \in 0..MaxFaults /\ sends \in 0..MaxSends
  BY Typed
<1>2. UNCHANGED <<arrived, box, log, kept, mirror, sends>>
  BY DEF SyncStep, Start, History, HistoryExpired, Fetch, Apply, CatchUpPage, CatchUpStored,
     Reanchor, BackfillPage, Walk, PageStored, AnswerRefused, Broken, gmail
<1>3. faults' \in 0..MaxFaults
  <2>1. faults' = faults \/ Fault
    BY DEF SyncStep, Start, History, HistoryExpired, Fetch, Apply, CatchUpPage, CatchUpStored,
       Reanchor, BackfillPage, Walk, PageStored, AnswerRefused, Broken, Fault
  <2> QED
    BY <1>1, <2>1, Sizes DEF Fault
<1> DEFINE Fine == /\ archive' \in RowsType /\ account' \in AccountType /\ sync' \in SyncType
                   /\ excuses' \in ExcusesType
<1>4. \A rows : Torn(rows) \in ExcusesType
  <2>1. \A rows : Covered(rows) \subseteq Ids
    BY Numbers DEF Covered, Missing
  <2> QED
    BY <1>1, <2>1 DEF Torn, ExcusesType
<1>9. \A kind : Since(kind, account.anchor) \subseteq Ids
  <2>1. \A i \in DOMAIN log : log[i] \in EntryType
    BY <1>1
  <2> QED
    BY <2>1 DEF Since, EntryType
<1>10. Missing(archive, sync.next) \subseteq Ids
  BY Numbers DEF Missing
<1>5. Dropped => Fine
  BY <1>1, <1>4, NoCycleFields DEF Dropped
<1>6. \A gone : Written(gone) => archive' \in RowsType
  BY StoredRows DEF Written
<1>7. Fine
  <2>1. CASE Start
    BY <1>1, <2>1, StartEffect
  <2>2. CASE History
    BY <1>1, <2>2, HistoryEffect
  <2>3. CASE HistoryExpired
    BY <1>1, <1>9, <2>3, ExpiredEffect DEF ExcusesType
  <2>4. CASE Fetch
    BY <1>1, <2>4, FetchEffect
  <2>5. CASE Apply
    BY <1>1, <1>5, <1>6, <2>5, ApplyEffect, NoCycleFields
  <2>6. CASE CatchUpPage
    BY <1>1, <2>6, CatchUpPageEffect
  <2>7. CASE CatchUpStored
    BY <1>1, <1>5, <1>6, <2>7, CatchUpStoredEffect
  <2>8. CASE Reanchor
    BY <1>1, <1>10, <2>8, ReanchorEffect, NoCycleFields DEF ExcusesType
  <2>9. CASE BackfillPage
    BY <1>1, <2>9, BackfillEffect
  <2>10. CASE PageStored
    BY <1>1, <1>5, <1>6, <2>10, PageStoredEffect
  <2>11. CASE AnswerRefused
    BY <1>1, <1>4, <1>5, <1>6, <2>11, RefusedEffect, NoCycleFields
  <2>12. CASE Broken
    BY <1>5, <2>12, BrokenEffect
  <2> QED
    BY <2>1, <2>2, <2>3, <2>4, <2>5, <2>6, <2>7, <2>8, <2>9, <2>10, <2>11, <2>12 DEF SyncStep
<1>8. sync' \in SyncType' /\ account' \in AccountType'
  BY <1>2, <1>7 DEF SyncType, AccountType
<1> QED
  BY <1>1, <1>2, <1>3, <1>7, <1>8 DEF SyncOK, SyncType, AccountType, EntryType, RowsType, ExcusesType

LEMMA SyncNext_Inv ==
    ASSUME SyncInv, [SyncNext]_syncVars
    PROVE  SyncInv'
<1>0. SyncOK /\ HistoryOK /\ Rest /\ CycleOK
  BY DEF SyncInv, Rest
<1>1. CASE SyncStep \/ AnswerRefused \/ Broken
  <2>1. SyncOK'
    BY <1>0, <1>1, CycleStaysTyped
  <2>2. Outside
    BY <1>1 DEF Outside, SyncStep, Start, History, HistoryExpired, Fetch, Apply, CatchUpPage,
       CatchUpStored, Reanchor, BackfillPage, Walk, PageStored, AnswerRefused, Broken, gmail
  <2>3. HistoryOK'
    BY <1>0, <2>2, LogStays
  <2>4. Rest'
    BY <1>0, <1>1, StartStays, HistoryStays, HistoryExpiredStays, FetchStays, ApplyStays,
       CatchUpPageStays, CatchUpStoredStays, ReanchorStays, BackfillPageStays, PageStoredStays,
       RefusedStays, DroppedStays, BrokenEffect DEF SyncStep
  <2> QED
    BY <2>1, <2>3, <2>4 DEF SyncInv, Rest
<1>2. CASE Arrive \/ Remove \/ Expire \/ Send \/ MirrorLookUp \/ MirrorCommit \/ Authorize
  <2>1. SyncOK'
    BY <1>0, <1>2, OthersStayTyped
  <2>2. mirror.pc # "none" => mirror.id \in 1..arrived
    BY <1>0 DEF CycleOK
  <2>3. arrived \in Nat
    BY <1>0, Numbers
  <2>4. HistoryOK' /\ Rest'
    <3>1. CASE Arrive
      BY <1>0, <2>2, <2>3, <3>1, NewMailStays DEF Arrive
    <3>2. CASE Remove
      BY <1>0, <3>2, RemoveStays
    <3>3. CASE Send
      <4>1. mirror'.id \in 1..(arrived + 1)
        BY <2>3, <3>3 DEF Send
      <4> QED
        BY <1>0, <3>3, <4>1, NewMailStays DEF Send
    <3>4. CASE MirrorCommit
      <4>2. HistoryOK'
        BY <1>0, <3>4, ToldSame DEF HistoryOK, MirrorCommit, gmail
      <4> QED
        BY <1>0, <3>4, <4>2, MirrorCommitStays
    <3>5. CASE Expire \/ MirrorLookUp \/ Authorize
      <4>1. UNCHANGED <<arrived, box, log, archive, sync, excuses>>
        BY <3>5 DEF Expire, MirrorLookUp, Authorize, gmail
      <4>2. account'.anchor = account.anchor /\ account'.token = account.token
        BY <1>0, <3>5, Numbers DEF Expire, MirrorLookUp, Authorize, AccountType
      <4>3. mirror'.pc # "none" => mirror'.id \in 1..arrived
        <5>1. mirror \in [id : Ids \cup {0}, pc : {"none", "sent", "insert", "update"}]
          BY <1>0, Typed
        <5> QED
          BY <2>2, <3>5, <5>1 DEF Expire, MirrorLookUp, Authorize
      <4>4. HistoryOK'
        BY <1>0, <4>1, ToldSame DEF HistoryOK
      <4> QED
        BY <1>0, <4>1, <4>2, <4>3, <4>4, QuietStays
    <3> QED
      BY <1>2, <3>1, <3>2, <3>3, <3>4, <3>5
  <2> QED
    BY <2>1, <2>4 DEF SyncInv, Rest
<1>3. CASE UNCHANGED syncVars
  <2>1. UNCHANGED <<arrived, box, log, kept, archive, account, sync, mirror, excuses, faults, sends>>
    BY <1>3 DEF syncVars, gmail
  <2>2. SyncOK'
    BY <1>0, <2>1 DEF SyncOK
  <2>3. HistoryOK'
    BY <1>0, <2>1, ToldSame DEF HistoryOK
  <2>4. mirror'.pc # "none" => mirror'.id \in 1..arrived
    BY <1>0, <2>1 DEF CycleOK
  <2>5. Rest'
    BY <1>0, <2>1, <2>4, QuietStays
  <2> QED
    BY <2>2, <2>3, <2>5 DEF SyncInv, Rest
<1> QED
  BY <1>1, <1>2, <1>3 DEF SyncNext

(***************************************************************************)
(* The page token leaves no old mail behind it, and the anchor no removal  *)
(* and no arrival but single messages whose arrival expired unread from    *)
(* the history and that lie below rows stored out of turn: by a catch-up   *)
(* that ended early, by a send, or where a catch-up was capped.  Every     *)
(* other message is kept, also in a mailbox to which all of that happened  *)
(* (_sync_incremental, _catch_up_recent, _sync_backfill, do_send).         *)
(***************************************************************************)
THEOREM CursorsLeaveNothingBehindHolds == SyncSpec => []CursorsLeaveNothingBehind
<1>1. SyncInit => SyncInv
  BY SyncInit_Inv
<1>2. SyncInv /\ [SyncNext]_syncVars => SyncInv'
  BY SyncNext_Inv
<1>3. SyncInv => CursorsLeaveNothingBehind
  BY DEF SyncInv, CursorsLeaveNothingBehind, TokenLeavesNothingBehind
<1> QED
  BY <1>1, <1>2, <1>3, PTL DEF SyncSpec
=============================================================================
