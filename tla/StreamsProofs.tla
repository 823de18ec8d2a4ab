----------------------------- MODULE StreamsProofs ------------------------------
(***************************************************************************)
(* No lead is lost between the walk of a search, the embedding of its      *)
(* vectors and the relay that reads both streams, for every number of      *)
(* pages, queue and batch size, and any pauses, cancels, expiries and      *)
(* breaks of a connection.                                                 *)
(*                                                                         *)
(* A log only grows, ends once, and loses nothing to trimming but lossy    *)
(* events (LogOK); what the relay has received is the selection of the     *)
(* log's other events up to its place (ReadOK).  Selections are recursive: *)
(* what they do is shown at the least place where it would be wrong.  The  *)
(* pages that were announced are the ones before the walk's, each is in    *)
(* the queue or has a batch (QueueOK), and the embedding's counters are    *)
(* cardinalities of what it started and of what it has still to do         *)
(* (CountOK).                                                              *)
(***************************************************************************)
EXTENDS SearchIngest, FiniteSetTheorems, WellFoundedInduction, TLAPS

-----------------------------------------------------------------------------
(***************************************************************************)
(* What the proofs speak of: the events of some types up to a place in the *)
(* log, the pages that are queued or with the embedding, and the leads     *)
(* that the embedding has still to go over.                                *)
(***************************************************************************)
Taken(events, types) ==
    LET first[n \in 0..Len(events)] ==
            IF n = 0 THEN << >>
            ELSE IF events[n].type \in types THEN Append(first[n - 1], events[n])
            ELSE first[n - 1]
    IN  first

EventType == [type : Types, page : 0..Pages]
LosslessTypes == Types \ Lossy
HasEnd(s) == \E i \in DOMAIN log[s] : log[s][i].type \in Ends

Announced == Len(StoredPages)
Queued == {queue[i] : i \in DOMAIN queue}
Begun == {p \in PageNumbers : batch[p].pc # "none"}
Working == {p \in PageNumbers : batch[p].pc \in {"held", "woken", "embedding"}}
Started == {p \in PageNumbers : batch[p].pc \notin {"none", "task"}}
Leads == PageNumbers \X (0..(Chunks - 1))
Waiting == {l \in Leads : l[1] \in Working /\ batch[l[1]].chunk <= l[2]}

Held == {"held", "woken", "fetching", "throttled"}

(***************************************************************************)
(* Nothing follows the end of a stream, only lossy events are trimmed, the *)
(* pages told are among those announced, and the embedding announces none. *)
(***************************************************************************)
LogOK ==
    /\ DOMAIN log = Streams /\ DOMAIN dropped = Streams
    /\ \A s \in Streams :
          /\ \A i \in dropped[s] : log[s][i].type \in Lossy
          /\ \A i \in DOMAIN log[s] : log[s][i].type \in Ends => i = Len(log[s])
          /\ HasEnd(s) => Over(s)
    /\ \A i \in DOMAIN log["embedding"] : log["embedding"][i].type # "ids"
    /\ \A i \in DOMAIN log["ingest"] :
          log["ingest"][i].type = "ids" => log["ingest"][i].page <= Announced

(* The relay has what lies before its place in the log. *)
ReadOK ==
    /\ DOMAIN pos = Streams /\ DOMAIN received = Streams
    /\ \A s \in Streams : /\ pos[s] \in 0..Len(log[s])
                          /\ received[s] = Taken(log[s], LosslessTypes)[pos[s]]
    /\ LET got == Taken(log["ingest"], {"ids"})[pos["ingest"]]
       IN  rows = [i \in 1..Len(got) |-> got[i].page]
    /\ relay.ingestDone =>
          /\ pos["ingest"] = Len(log["ingest"]) /\ Over("ingest")

RepliesOK ==
    replies \subseteq [stream : Streams,
                       status : Terminal \cup {"none", "queued", "running", "paused"}]

(* The walk and its job. *)
WalkOK ==
    /\ walk.pc \in Held => job["ingest"].status = "running" /\ ~job["ingest"].gone
    /\ walk.pc = "idle" => job["ingest"].status = "pending" /\ walk.page = 1
    /\ walk.pc \in Held \cup {"idle"} =>
          Announced = walk.page - 1 /\ \A p \in Queued \cup Begun : p < walk.page
    /\ walk.pc \in {"closing", "over"} => Over("ingest") \/ job["ingest"].gone
    /\ walk.pc = "throttled" /\ walk.page = Pages => walk.last

(* The queue, the batches and the embedding's job. *)
QueueOK ==
    /\ Len(queue) <= QueuePages
    /\ \A i \in DOMAIN queue : queue[i] = Sentinel => i = Len(queue) /\ walk.pc = "over"
    /\ \A i \in DOMAIN queue : queue[i] # Sentinel => batch[queue[i]].pc = "none"
    /\ \A i, j \in DOMAIN queue : queue[i] = queue[j] => i = j
    /\ \A p \in Queued \cup Begun : p <= Announced
    /\ emb.live /\ ~job["ingest"].cancelled => 1..Announced \subseteq Queued \cup Begun
    /\ consumer # "taking" => walk.pc = "over" /\ queue = << >>
    /\ consumer = "over" => Busy = {}
    /\ emb.live <=> job["embedding"].status = "running"
    /\ emb.live => ~job["embedding"].gone /\ emb.accepting

(* The embedding counts every lead that it started with once. *)
CountOK ==
    /\ Cardinality(Busy) <= Concurrency
    /\ emb.done + emb.failed <= emb.total
    /\ emb.live => /\ emb.total = Chunks * Cardinality(Started)
                   /\ emb.done + emb.failed + Cardinality(Waiting) = emb.total
                   /\ emb.inFlight = Cardinality(Working)
    /\ ~emb.accepting =>
          /\ consumer = "over" /\ emb.done + emb.failed = emb.total
          /\ ~job["ingest"].cancelled => emb.total = Chunks * Announced

IngestInv == TypeOK /\ LogOK /\ ReadOK /\ RepliesOK /\ WalkOK /\ QueueOK /\ CountOK

-----------------------------------------------------------------------------
(***************************************************************************)
(* The events of some types up to each place of a sequence.  The recursion *)
(* has a value: were there a place without one, take the first.            *)
(***************************************************************************)
IsTaken(f, events, types, n) ==
    f = [i \in 0..n |-> IF i = 0 THEN << >>
                        ELSE IF events[i].type \in types THEN Append(f[i - 1], events[i])
                        ELSE f[i - 1]]

LEMMA FirstOfNaturals ==
    ASSUME NEW S \in SUBSET Nat, S # {}
    PROVE  \E n \in S : \A m \in S : n <= m
<1>1. PICK n \in S : \A m \in S : <<m, n>> \notin OpToRel(<, Nat)
  BY NatLessThanWellFounded, WFMin
<1>2. \A m \in S : ~(m < n)
  BY <1>1 DEF OpToRel
<1> QED
  BY <1>2

LEMMA TakenExists ==
    ASSUME NEW events, NEW types
    PROVE  \A n \in Nat : \E f : IsTaken(f, events, types, n)
<1> DEFINE bad == {n \in Nat : ~ \E f : IsTaken(f, events, types, n)}
<1> SUFFICES ASSUME bad # {} PROVE FALSE
  OBVIOUS
<1>1. PICK n \in bad : \A m \in bad : n <= m
  <2> HIDE DEF bad
  <2>1. bad \in SUBSET Nat
    BY DEF bad
  <2> QED
    BY <2>1, FirstOfNaturals
<1>2. CASE n = 0
  <2>1. IsTaken([i \in 0..0 |-> << >>], events, types, 0)
    BY DEF IsTaken
  <2> QED
    BY <1>2, <2>1
<1>3. CASE n # 0
  <2>1. n - 1 \in Nat /\ n - 1 \notin bad
    BY <1>1, <1>3
  <2>2. PICK h : IsTaken(h, events, types, n - 1)
    BY <2>1
  <2> DEFINE f == [i \in 0..n |-> IF i < n THEN h[i]
                                  ELSE IF events[n].type \in types THEN Append(h[n - 1], events[n])
                                  ELSE h[n - 1]]
  <2>3. \A i \in 0..n : f[i] = IF i = 0 THEN << >>
                               ELSE IF events[i].type \in types THEN Append(f[i - 1], events[i])
                               ELSE f[i - 1]
    <3> TAKE i \in 0..n
    <3>1. CASE i < n
      <4>1. i \in 0..(n - 1) /\ (i # 0 => i - 1 \in 0..(n - 1))
        BY <3>1
      <4>2. h[i] = IF i = 0 THEN << >>
                   ELSE IF events[i].type \in types THEN Append(h[i - 1], events[i])
                   ELSE h[i - 1]
        BY <2>2, <4>1 DEF IsTaken
      <4> QED
        BY <3>1, <4>1, <4>2
    <3>2. CASE i = n
      BY <1>3, <3>2
    <3> QED
      BY <3>1, <3>2
  <2>4. IsTaken(f, events, types, n)
    BY <2>3 DEF IsTaken
  <2> QED
    BY <2>4
<1> QED
  BY <1>1, <1>2, <1>3

LEMMA TakenDef ==
    ASSUME NEW events \in Seq(EventType), NEW types
    PROVE  /\ Selected(events, types) = Taken(events, types)[Len(events)]
           /\ Taken(events, types)[0] = << >>
           /\ \A n \in 1..Len(events) :
                Taken(events, types)[n] =
                    IF events[n].type \in types
                    THEN Append(Taken(events, types)[n - 1], events[n])
                    ELSE Taken(events, types)[n - 1]
<1> DEFINE N == Len(events)
           t == Taken(events, types)
<1>1. N \in Nat
  OBVIOUS
<1>2. PICK f : IsTaken(f, events, types, N)
  BY <1>1, TakenExists
<1>3. IsTaken(t, events, types, N)
  BY <1>2 DEF IsTaken, Taken
<1>4. t[0] = << >> /\ \A n \in 1..N : t[n] = IF events[n].type \in types
                                             THEN Append(t[n - 1], events[n]) ELSE t[n - 1]
  <2> HIDE DEF t, N
  <2>1. \A n \in 0..N : t[n] = IF n = 0 THEN << >>
                                ELSE IF events[n].type \in types
                                THEN Append(t[n - 1], events[n]) ELSE t[n - 1]
    BY <1>3, Zenon DEF IsTaken
  <2>2. \A n \in 1..N : n \in 0..N /\ n # 0
    BY <1>1
  <2>3. 0 \in 0..N
    BY <1>1
  <2> QED
    BY <2>1, <2>2, <2>3, Zenon
<1>5. Selected(events, types) = t[N]
  BY DEF Selected, Taken
<1> QED
  BY <1>4, <1>5

\* What is taken up to a place are events, of the types, from before it.
LEMMA TakenEvents ==
    ASSUME NEW events \in Seq(EventType), NEW types
    PROVE  \A n \in 0..Len(events) :
              /\ Taken(events, types)[n] \in Seq(EventType)
              /\ \A k \in 1..Len(Taken(events, types)[n]) :
                    \E i \in 1..n : /\ Taken(events, types)[n][k] = events[i]
                                    /\ events[i].type \in types
<1> DEFINE t == Taken(events, types)
           Good(n) == /\ t[n] \in Seq(EventType)
                      /\ \A k \in 1..Len(t[n]) :
                            \E i \in 1..n : t[n][k] = events[i] /\ events[i].type \in types
           bad == {n \in 0..Len(events) : ~Good(n)}
<1> SUFFICES ASSUME bad # {} PROVE FALSE
  OBVIOUS
<1>0. Len(events) \in Nat /\ \A i \in 1..Len(events) : events[i] \in EventType
  OBVIOUS
<1>1. PICK n \in bad : \A m \in bad : n <= m
  <2> HIDE DEF bad
  <2>1. bad \in SUBSET Nat
    BY DEF bad
  <2> QED
    BY <2>1, FirstOfNaturals
<1>2. /\ t[0] = << >>
      /\ \A m \in 1..Len(events) : t[m] = IF events[m].type \in types
                                          THEN Append(t[m - 1], events[m]) ELSE t[m - 1]
  BY TakenDef
<1> HIDE DEF t
<1>3. CASE n = 0
  <2>1. t[n] = << >>
    BY <1>2, <1>3
  <2>2. << >> \in Seq(EventType) /\ \A k \in 1..Len(<< >>) : FALSE
    OBVIOUS
  <2>3. Good(n)
    BY <2>1, <2>2, Zenon
  <2> QED
    BY <1>1, <2>3
<1>4. CASE n # 0
  <2>1. n - 1 \in 0..Len(events) /\ n - 1 \notin bad /\ n \in 1..Len(events)
    BY <1>0, <1>1, <1>4
  <2>2. Good(n - 1)
    BY <2>1
  <2>3. CASE events[n].type \notin types
    <3>1. t[n] = t[n - 1]
      BY <1>2, <2>1, <2>3
    <3>2. Good(n)
      BY <2>1, <2>2, <3>1
    <3> QED
      BY <1>1, <3>2
  <2>4. CASE events[n].type \in types
    <3>1. t[n] = Append(t[n - 1], events[n])
      BY <1>2, <2>1, <2>4
    <3> DEFINE s == t[n - 1]
    <3>2. s \in Seq(EventType) /\ events[n] \in EventType
      BY <1>0, <2>1, <2>2
    <3>3. /\ Append(s, events[n]) \in Seq(EventType)
          /\ Len(Append(s, events[n])) = Len(s) + 1
          /\ \A k \in 1..Len(s) : Append(s, events[n])[k] = s[k]
          /\ Append(s, events[n])[Len(s) + 1] = events[n]
      <4> HIDE DEF s
      <4> QED
        BY <3>2
    <3>4. \A k \in 1..Len(t[n]) : \E i \in 1..n : t[n][k] = events[i] /\ events[i].type \in types
      <4> TAKE k \in 1..Len(t[n])
      <4>1. CASE k = Len(s) + 1
        BY <2>1, <2>4, <3>1, <3>3, <4>1
      <4>2. CASE k # Len(s) + 1
        <5>1. k \in 1..Len(s) /\ t[n][k] = s[k]
          BY <3>1, <3>2, <3>3, <4>2
        <5>2. PICK i \in 1..(n - 1) : s[k] = events[i] /\ events[i].type \in types
          BY <2>2, <5>1
        <5> QED
          BY <2>1, <5>1, <5>2
      <4> QED
        BY <4>1, <4>2
    <3>5. Good(n)
      BY <3>1, <3>3, <3>4
    <3> QED
      BY <1>1, <3>5
  <2> QED
    BY <2>3, <2>4
<1> QED
  BY <1>3, <1>4

\* Where a sequence goes on does not change what was taken before.
LEMMA TakenKept ==
    ASSUME NEW events \in Seq(EventType), NEW all \in Seq(EventType), NEW types,
           Len(events) <= Len(all), \A i \in 1..Len(events) : all[i] = events[i]
    PROVE  \A n \in 0..Len(events) : Taken(all, types)[n] = Taken(events, types)[n]
<1> DEFINE t == Taken(events, types)
           u == Taken(all, types)
           bad == {n \in 0..Len(events) : u[n] # t[n]}
<1> SUFFICES ASSUME bad # {} PROVE FALSE
  OBVIOUS
<1>0. Len(events) \in Nat /\ Len(all) \in Nat
  OBVIOUS
<1>1. PICK n \in bad : \A m \in bad : n <= m
  <2> HIDE DEF bad
  <2>1. bad \in SUBSET Nat
    BY DEF bad
  <2> QED
    BY <2>1, FirstOfNaturals
<1>2. /\ t[0] = << >>
      /\ \A m \in 1..Len(events) : t[m] = IF events[m].type \in types
                                          THEN Append(t[m - 1], events[m]) ELSE t[m - 1]
  BY TakenDef
<1>3. /\ u[0] = << >>
      /\ \A m \in 1..Len(all) : u[m] = IF all[m].type \in types
                                       THEN Append(u[m - 1], all[m]) ELSE u[m - 1]
  BY TakenDef
<1> HIDE DEF t, u
<1>4. n # 0
  BY <1>1, <1>2, <1>3
<1>5. n - 1 \in 0..Len(events) /\ n - 1 \notin bad /\ n \in 1..Len(events) /\ n \in 1..Len(all)
  BY <1>0, <1>1, <1>4
<1> QED
  BY <1>1, <1>2, <1>3, <1>5

\* One more event.
LEMMA SelectedLonger ==
    ASSUME NEW events \in Seq(EventType), NEW all \in Seq(EventType), NEW types,
           Len(all) = Len(events) + 1, \A i \in 1..Len(events) : all[i] = events[i]
    PROVE  Selected(all, types) =
              IF all[Len(all)].type \in types THEN Append(Selected(events, types), all[Len(all)])
              ELSE Selected(events, types)
<1>1. Len(events) \in Nat /\ Len(events) <= Len(all) /\ Len(events) \in 0..Len(events)
      /\ Len(all) \in 1..Len(all) /\ Len(all) - 1 = Len(events)
  OBVIOUS
<1>2. Taken(all, types)[Len(events)] = Taken(events, types)[Len(events)]
  BY <1>1, TakenKept
<1>3. Selected(all, types) = Taken(all, types)[Len(all)]
      /\ Selected(events, types) = Taken(events, types)[Len(events)]
  BY TakenDef
<1>4. \A m \in 1..Len(all) : Taken(all, types)[m] =
            IF all[m].type \in types THEN Append(Taken(all, types)[m - 1], all[m])
            ELSE Taken(all, types)[m - 1]
  BY TakenDef
<1> QED
  BY <1>1, <1>2, <1>3, <1>4

LEMMA SelectedAppend ==
    ASSUME NEW events \in Seq(EventType), NEW e \in EventType, NEW types
    PROVE  Selected(Append(events, e), types) =
              IF e.type \in types THEN Append(Selected(events, types), e)
              ELSE Selected(events, types)
<1> DEFINE all == Append(events, e)
<1>1. /\ all \in Seq(EventType) /\ Len(all) = Len(events) + 1 /\ all[Len(all)] = e
      /\ \A i \in 1..Len(events) : all[i] = events[i]
  OBVIOUS
<1> HIDE DEF all
<1>2. Selected(all, types) = IF all[Len(all)].type \in types
                             THEN Append(Selected(events, types), all[Len(all)])
                             ELSE Selected(events, types)
  BY <1>1, SelectedLonger
<1> QED
  BY <1>1, <1>2 DEF all

\* Between two places without an event of the types nothing is taken, and
\* what is taken later goes on from what is taken before.
LEMMA TakenOver ==
    ASSUME NEW events \in Seq(EventType), NEW types, NEW i \in 0..Len(events)
    PROVE  \A j \in i..Len(events) :
              (\A k \in (i + 1)..j : events[k].type \notin types)
                 => Taken(events, types)[j] = Taken(events, types)[i]
<1> DEFINE t == Taken(events, types)
           Good(j) == (\A k \in (i + 1)..j : events[k].type \notin types) => t[j] = t[i]
           bad == {j \in i..Len(events) : ~Good(j)}
<1> SUFFICES ASSUME bad # {} PROVE FALSE
  OBVIOUS
<1>0. Len(events) \in Nat
  OBVIOUS
<1>1. PICK j \in bad : \A m \in bad : j <= m
  <2> HIDE DEF bad
  <2>1. bad \in SUBSET Nat
    BY DEF bad
  <2> QED
    BY <2>1, FirstOfNaturals
<1>2. \A m \in 1..Len(events) : t[m] = IF events[m].type \in types
                                       THEN Append(t[m - 1], events[m]) ELSE t[m - 1]
  BY TakenDef
<1> HIDE DEF t
<1>3. j # i
  BY <1>1
<1>4. j - 1 \in i..Len(events) /\ j - 1 \notin bad /\ j \in 1..Len(events) /\ j \in (i + 1)..j
  BY <1>0, <1>1, <1>3
<1>5. \A k \in (i + 1)..j : events[k].type \notin types
  BY <1>1
<1>6. \A k \in (i + 1)..(j - 1) : k \in (i + 1)..j
  BY <1>4
<1>7. t[j - 1] = t[i]
  BY <1>4, <1>5, <1>6
<1> QED
  BY <1>1, <1>2, <1>4, <1>5, <1>7

LEMMA TakenGrows ==
    ASSUME NEW events \in Seq(EventType), NEW types, NEW i \in 0..Len(events)
    PROVE  \A j \in i..Len(events) :
              /\ Len(Taken(events, types)[i]) <= Len(Taken(events, types)[j])
              /\ \A k \in 1..Len(Taken(events, types)[i]) :
                    Taken(events, types)[j][k] = Taken(events, types)[i][k]
<1> DEFINE t == Taken(events, types)
           Good(j) == /\ Len(t[i]) <= Len(t[j])
                      /\ \A k \in 1..Len(t[i]) : t[j][k] = t[i][k]
           bad == {j \in i..Len(events) : ~Good(j)}
<1> SUFFICES ASSUME bad # {} PROVE FALSE
  OBVIOUS
<1>0. Len(events) \in Nat
  OBVIOUS
<1>1. PICK j \in bad : \A m \in bad : j <= m
  <2> HIDE DEF bad
  <2>1. bad \in SUBSET Nat
    BY DEF bad
  <2> QED
    BY <2>1, FirstOfNaturals
<1>2. \A m \in 1..Len(events) : t[m] = IF events[m].type \in types
                                       THEN Append(t[m - 1], events[m]) ELSE t[m - 1]
  BY TakenDef
<1>3. \A m \in 0..Len(events) : t[m] \in Seq(EventType)
  BY TakenEvents
<1> HIDE DEF t
<1>4. j # i
  BY <1>1, <1>3
<1>5. j - 1 \in i..Len(events) /\ j - 1 \notin bad /\ j \in 1..Len(events) /\ j - 1 \in 0..Len(events)
  BY <1>0, <1>1, <1>4
<1>6. Good(j - 1)
  BY <1>5
<1> DEFINE s == t[j - 1]
<1>7. s \in Seq(EventType) /\ events[j] \in EventType /\ t[i] \in Seq(EventType)
  BY <1>3, <1>5
<1>8. t[j] = Append(s, events[j]) \/ t[j] = s
  BY <1>2, <1>5
<1>9. Len(s) <= Len(t[j]) /\ \A k \in 1..Len(s) : t[j][k] = s[k]
  <2> HIDE DEF s
  <2> QED
    BY <1>7, <1>8
<1>10. Good(j)
  <2>1. Len(t[i]) \in Nat /\ Len(s) \in Nat /\ Len(t[j]) \in Nat
    BY <1>3, <1>5, <1>7
  <2> QED
    BY <1>6, <1>9, <2>1
<1> QED
  BY <1>1, <1>10

-----------------------------------------------------------------------------
(***************************************************************************)
(* Types, and what a publication does to the logs.                         *)
(***************************************************************************)
JobType == [status : {"pending", "running", "complete", "error"},
            cancelled : BOOLEAN, paused : BOOLEAN, readers : 0..1, gone : BOOLEAN]
EmbType == [live : BOOLEAN, accepting : BOOLEAN, paused : BOOLEAN,
            total : Nat, done : Nat, failed : Nat, inFlight : 0..Concurrency]
WalkType == [pc : {"idle", "held", "woken", "fetching", "throttled", "closing", "over"},
             page : PageNumbers, last : BOOLEAN, detached : BOOLEAN]
BatchType == [pc : {"none", "task", "held", "woken", "embedding", "over"},
              chunk : 0..(Chunks - 1)]

LogsTyped == \A s \in Streams : log[s] \in Seq(EventType) /\ dropped[s] \subseteq 1..Len(log[s])

LEMMA Typed ==
    StreamsOK <=> /\ job \in [Streams -> JobType] /\ LogsTyped /\ emb \in EmbType
                  /\ walk \in WalkType /\ queue \in Seq(0..Pages)
                  /\ batch \in [PageNumbers -> BatchType]
                  /\ consumer \in {"taking", "joining", "over"} /\ controls \in 0..MaxControls
BY DEF StreamsOK, JobType, LogsTyped, EmbType, WalkType, BatchType, EventType

LEMMA Sizes ==
    /\ Pages \in Nat /\ Pages >= 1 /\ Concurrency \in Nat /\ Concurrency >= 1
    /\ Chunks \in Nat /\ Chunks >= 1 /\ MaxProgress \in Nat /\ MaxControls \in Nat
    /\ QueuePages \in Nat /\ QueuePages >= 1
    /\ PageNumbers = 1..Pages /\ Streams = {"ingest", "embedding"}
    /\ "ingest" \in Streams /\ "embedding" \in Streams /\ Sentinel = 0
BY StreamsAssumption DEF PageNumbers, Streams, Sentinel

LEMMA Notes ==
    /\ \A type \in Types : Note(type) \in EventType /\ Note(type).type = type
    /\ \A type \in Ends : type \in LosslessTypes /\ type \in Types /\ type # "ids"
    /\ \A p \in PageNumbers : Event("ids", p) \in EventType /\ Event("ids", p).type = "ids"
    /\ "ids" \in LosslessTypes /\ "ids" \notin Ends /\ "ids" \in Types
    /\ Lossy \cap LosslessTypes = {} /\ Lossy \cap Ends = {}
BY Sizes DEF Note, Event, EventType, Types, LosslessTypes, Ends, Lossy

LEMMA LeastOfNaturals ==
    ASSUME NEW S \in SUBSET Nat, S # {}
    PROVE  Min(S) \in S /\ \A m \in S : Min(S) <= m
BY FirstOfNaturals DEF Min

\* Only a lossy event is trimmed.
LEMMA TrimmedLossy ==
    ASSUME NEW events \in Seq(EventType), NEW gone \in SUBSET (1..Len(events))
    PROVE  /\ Trimmed(events, gone) \subseteq 1..Len(events)
           /\ \A i \in Trimmed(events, gone) : i \in gone \/ events[i].type \in Lossy
<1> DEFINE lossy == {i \in (1..Len(events)) \ gone : events[i].type \in Lossy}
<1>1. CASE Cardinality(lossy) > MaxProgress
  <2>1. lossy # {}
    <3> SUFFICES ASSUME lossy = {} PROVE FALSE
      OBVIOUS
    <3>1. Cardinality({}) = 0
      BY FS_EmptySet
    <3>2. Cardinality(lossy) = 0
      BY <3>1, Zenon
    <3>3. 0 > MaxProgress
      BY <1>1, <3>2, Zenon
    <3> HIDE DEF lossy
    <3> QED
      BY <3>3, Sizes
  <2>2. lossy \in SUBSET Nat
    OBVIOUS
  <2>3. Min(lossy) \in lossy
    <3> HIDE DEF lossy
    <3> QED
      BY <2>1, <2>2, LeastOfNaturals
  <2>4. Trimmed(events, gone) = gone \cup {Min(lossy)}
    BY <1>1 DEF Trimmed
  <2> QED
    BY <2>3, <2>4
<1>2. CASE ~(Cardinality(lossy) > MaxProgress)
  <2>1. Trimmed(events, gone) = gone
    BY <1>2 DEF Trimmed
  <2> QED
    BY <2>1
<1> QED
  BY <1>1, <1>2

\* A log goes on from where it was.
Grows(s) ==
    /\ log'[s] \in Seq(EventType) /\ Len(log[s]) <= Len(log'[s])
    /\ \A i \in 1..Len(log[s]) : log'[s][i] = log[s][i]

EndsLast(l) == \A i \in DOMAIN l : l[i].type \in Ends => i = Len(l)

LEMMA Published ==
    ASSUME LogsTyped, LogOK, NEW s \in Streams, NEW events \in Seq(EventType), ~HasEnd(s),
           EndsLast(events), ~job[s].gone, Publish(s, events)
    PROVE  /\ LogsTyped' /\ DOMAIN log' = Streams /\ DOMAIN dropped' = Streams
           /\ \A t \in Streams : Grows(t) /\ (t # s => log'[t] = log[t])
           /\ log'[s] = log[s] \o events
           /\ \A t \in Streams : \A i \in dropped'[t] : log'[t][i].type \in Lossy
           /\ \A t \in Streams : EndsLast(log'[t])
           /\ HasEnd(s)' => Len(events) > 0 /\ events[Len(events)].type \in Ends
<1>1. /\ log' = [log EXCEPT ![s] = @ \o events]
      /\ dropped' = [dropped EXCEPT ![s] = Trimmed(log[s] \o events, @)]
  BY DEF Publish
<1>2. /\ DOMAIN log' = Streams /\ DOMAIN dropped' = Streams
      /\ log'[s] = log[s] \o events /\ dropped'[s] = Trimmed(log[s] \o events, dropped[s])
      /\ \A t \in Streams : t # s => log'[t] = log[t] /\ dropped'[t] = dropped[t]
  BY <1>1 DEF LogOK
<1> DEFINE l == log[s]
           m == log'[s]
<1>3. l \in Seq(EventType) /\ dropped[s] \subseteq 1..Len(l)
  BY DEF LogsTyped
<1>4. /\ m \in Seq(EventType) /\ Len(m) = Len(l) + Len(events) /\ Len(l) \in Nat /\ Len(events) \in Nat
      /\ \A i \in 1..Len(l) : m[i] = l[i]
      /\ \A i \in 1..Len(events) : m[Len(l) + i] = events[i]
  <2> HIDE DEF l
  <2>1. m = l \o events
    BY <1>2 DEF l
  <2> HIDE DEF m
  <2> QED
    BY <1>3, <2>1
<1>5. \A t \in Streams : Grows(t)
  <2> TAKE t \in Streams
  <2>1. CASE t = s
    BY <1>4, <2>1 DEF Grows
  <2>2. CASE t # s
    BY <1>2, <2>2 DEF Grows, LogsTyped
  <2> QED
    BY <2>1, <2>2
<1>6. /\ dropped'[s] \subseteq 1..Len(m)
      /\ \A i \in dropped'[s] : m[i].type \in Lossy
  <2> HIDE DEF l, m
  <2>1. dropped[s] \in SUBSET (1..Len(m))
    BY <1>3, <1>4
  <2>2. /\ dropped'[s] \subseteq 1..Len(m)
        /\ \A i \in dropped'[s] : i \in dropped[s] \/ m[i].type \in Lossy
    BY ZenonT(60), <1>2, <1>4, <2>1, TrimmedLossy DEF l, m
  <2>3. \A i \in dropped[s] : m[i].type \in Lossy
    BY <1>3, <1>4 DEF LogOK, l
  <2> QED
    BY <2>2, <2>3
<1>7. EndsLast(m) /\ (\E i \in DOMAIN m : m[i].type \in Ends)
                        => EndsLast(m) /\ Len(events) > 0 /\ events[Len(events)].type \in Ends
  <2> SUFFICES ASSUME NEW i \in DOMAIN m, m[i].type \in Ends
               PROVE  Len(events) > 0 /\ events[Len(events)].type \in Ends
    OBVIOUS
  <2>1. i \in 1..Len(m) /\ ~(i \in 1..Len(l))
    BY <1>3, <1>4 DEF HasEnd
  <2> DEFINE k == i - Len(l)
  <2> HIDE DEF l, m
  <2>2. k \in 1..Len(events) /\ m[i] = events[k]
    BY <1>4, <2>1
  <2>3. k = Len(events)
    BY <2>2 DEF EndsLast
  <2> QED
    BY <1>4, <2>2, <2>3
<1>8. EndsLast(m)
  <2> SUFFICES ASSUME NEW i \in DOMAIN m, m[i].type \in Ends PROVE i = Len(m)
    BY DEF EndsLast
  <2>1. i \in 1..Len(m) /\ ~(i \in 1..Len(l))
    BY <1>3, <1>4 DEF HasEnd
  <2> DEFINE k == i - Len(l)
  <2> HIDE DEF l, m
  <2>2. k \in 1..Len(events) /\ m[i] = events[k]
    BY <1>4, <2>1
  <2>3. k = Len(events)
    BY <2>2 DEF EndsLast
  <2> QED
    BY <1>4, <2>1, <2>3
<1>9. LogsTyped'
  BY <1>2, <1>4, <1>6 DEF LogsTyped
<1>10. \A t \in Streams : \A i \in dropped'[t] : log'[t][i].type \in Lossy
  BY <1>2, <1>6 DEF LogOK
<1>11. \A t \in Streams : EndsLast(log'[t])
  BY <1>2, <1>8 DEF LogOK, EndsLast
<1>12. HasEnd(s)' => Len(events) > 0 /\ events[Len(events)].type \in Ends
  BY <1>7, <1>8 DEF HasEnd
<1> QED
  BY <1>2, <1>5, <1>9, <1>10, <1>11, <1>12

\* What was read stays read.
LEMMA ReadKept ==
    ASSUME LogsTyped, ReadOK, \A s \in Streams : Grows(s),
           UNCHANGED <<pos, received, rows, relay>>,
           Over("ingest") => Over("ingest")' /\ log'["ingest"] = log["ingest"]
    PROVE  ReadOK'
<1>1. \A s \in Streams : pos[s] \in 0..Len(log[s]) /\ pos[s] \in 0..Len(log'[s])
  BY DEF ReadOK, Grows
<1>2. \A types : \A s \in Streams :
        Taken(log'[s], types)[pos[s]] = Taken(log[s], types)[pos[s]]
  <2> TAKE types
  <2> TAKE s \in Streams
  <2> DEFINE old == log[s]
             new == log'[s]
  <2>1. /\ old \in Seq(EventType) /\ new \in Seq(EventType) /\ Len(old) <= Len(new)
        /\ \A i \in 1..Len(old) : new[i] = old[i]
    BY DEF LogsTyped, Grows
  <2> HIDE DEF old, new
  <2>2. \A n \in 0..Len(old) : Taken(new, types)[n] = Taken(old, types)[n]
    BY <2>1, TakenKept
  <2> QED
    BY <1>1, <2>2 DEF old, new
<1>3. pos' = pos /\ received' = received /\ rows' = rows /\ relay' = relay
  OBVIOUS
<1>4. "ingest" \in Streams
  BY Sizes
<1>5. relay.ingestDone => pos["ingest"] = Len(log["ingest"]) /\ Over("ingest")
  BY DEF ReadOK
<1> DEFINE got == Taken(log["ingest"], {"ids"})[pos["ingest"]]
           now == Taken(log'["ingest"], {"ids"})[pos["ingest"]]
<1>6. now = got
  BY <1>2, <1>4
<1>7. rows = [i \in 1..Len(got) |-> got[i].page]
  BY DEF ReadOK
<1>8. rows = [i \in 1..Len(now) |-> now[i].page]
  <2> HIDE DEF now, got
  <2> QED
    BY <1>6, <1>7
<1>9. \A s \in Streams : received[s] = Taken(log'[s], LosslessTypes)[pos[s]]
  BY <1>2 DEF ReadOK
<1> HIDE DEF now, got
<1> QED
  BY <1>1, <1>3, <1>5, <1>8, <1>9 DEF ReadOK, now

\* What a selection makes of the events that were added.
LEMMA SelectedOver ==
    ASSUME NEW old \in Seq(EventType), NEW events \in Seq(EventType), NEW types
    PROVE  /\ (\A k \in DOMAIN events : events[k].type \notin types)
                 => Selected(old \o events, types) = Selected(old, types)
           /\ \A k \in DOMAIN events :
                 events[k].type \in types /\ (\A j \in DOMAIN events : j # k => events[j].type \notin types)
                 => Selected(old \o events, types) = Append(Selected(old, types), events[k])
<1> DEFINE all == old \o events
           t == Taken(all, types)
           n == Len(old)
<1>1. /\ all \in Seq(EventType) /\ Len(all) = n + Len(events) /\ n \in Nat /\ Len(events) \in Nat
      /\ \A i \in 1..n : all[i] = old[i]
      /\ \A i \in 1..Len(events) : all[n + i] = events[i]
      /\ DOMAIN events = 1..Len(events)
  OBVIOUS
<1> HIDE DEF all, n
<1>2. /\ Selected(all, types) = t[Len(all)]
      /\ \A m \in 1..Len(all) : t[m] = IF all[m].type \in types THEN Append(t[m - 1], all[m])
                                       ELSE t[m - 1]
  <2>1. all \in Seq(EventType)
    BY <1>1
  <2>2. Selected(all, types) = Taken(all, types)[Len(all)]
    BY <2>1, TakenDef
  <2>3. \A m \in 1..Len(all) : Taken(all, types)[m] =
            IF all[m].type \in types THEN Append(Taken(all, types)[m - 1], all[m])
            ELSE Taken(all, types)[m - 1]
    BY <2>1, TakenDef
  <2> QED
    BY <2>2, <2>3
<1>3. Selected(old, types) = t[n]
  <2>1. Selected(old, types) = Taken(old, types)[n]
    BY TakenDef DEF n
  <2>2. Len(old) <= Len(all) /\ n \in 0..Len(old)
    BY <1>1 DEF n
  <2> QED
    BY <1>1, <2>1, <2>2, TakenKept DEF n
<1>4. \A i \in 0..Len(all) : \A j \in i..Len(all) :
        (\A m \in (i + 1)..j : all[m].type \notin types) => t[j] = t[i]
  BY <1>1, TakenOver
<1> HIDE DEF t
<1>5. ASSUME \A k \in DOMAIN events : events[k].type \notin types
      PROVE  t[Len(all)] = t[n]
  <2>1. \A m \in (n + 1)..Len(all) : all[m].type \notin types
    <3> TAKE m \in (n + 1)..Len(all)
    <3>1. m - n \in 1..Len(events) /\ m = n + (m - n)
      BY <1>1
    <3> QED
      BY <1>1, <1>5, <3>1
  <2>2. n \in 0..Len(all) /\ Len(all) \in n..Len(all)
    BY <1>1
  <2> QED
    BY <1>4, <2>1, <2>2
<1>6. ASSUME NEW k \in DOMAIN events, events[k].type \in types,
             \A j \in DOMAIN events : j # k => events[j].type \notin types
      PROVE  t[Len(all)] = Append(t[n], events[k])
  <2>1. /\ k \in 1..Len(events) /\ n \in 0..Len(all) /\ n + k \in 1..Len(all) /\ n + k \in 0..Len(all)
        /\ (n + k) - 1 \in n..Len(all) /\ Len(all) \in (n + k)..Len(all)
    BY <1>1
  <2>2. \A m \in (n + 1)..((n + k) - 1) : all[m].type \notin types
    <3> TAKE m \in (n + 1)..((n + k) - 1)
    <3>1. m - n \in 1..Len(events) /\ m = n + (m - n) /\ m - n # k
      BY <1>1, <2>1
    <3> QED
      BY <1>1, <1>6, <3>1
  <2>3. \A m \in ((n + k) + 1)..Len(all) : all[m].type \notin types
    <3> TAKE m \in ((n + k) + 1)..Len(all)
    <3>1. m - n \in 1..Len(events) /\ m = n + (m - n) /\ m - n # k
      BY <1>1, <2>1
    <3> QED
      BY <1>1, <1>6, <3>1
  <2>4. t[(n + k) - 1] = t[n]
    BY <1>4, <2>1, <2>2
  <2>5. t[Len(all)] = t[n + k]
    BY <1>4, <2>1, <2>3
  <2>6. t[n + k] = Append(t[(n + k) - 1], events[k])
    BY <1>1, <1>2, <1>6, <2>1
  <2> QED
    BY <2>4, <2>5, <2>6
<1>7. /\ (\A k \in DOMAIN events : events[k].type \notin types)
            => Selected(all, types) = Selected(old, types)
      /\ \A k \in DOMAIN events :
            events[k].type \in types /\ (\A j \in DOMAIN events : j # k => events[j].type \notin types)
            => Selected(all, types) = Append(Selected(old, types), events[k])
  BY <1>2, <1>3, <1>5, <1>6
<1> QED
  BY <1>7 DEF all

LEMMA AnnouncedIsNat ==
    ASSUME LogsTyped
    PROVE  StoredPages \in Seq(EventType) /\ Announced \in Nat
<1> DEFINE l == log["ingest"]
<1>1. l \in Seq(EventType)
  BY Sizes DEF LogsTyped
<1> HIDE DEF l
<1>2. Selected(l, {"ids"}) \in Seq(EventType)
  <2>1. Len(l) \in 0..Len(l)
    BY <1>1
  <2> QED
    BY <1>1, <2>1, TakenDef, TakenEvents
<1> QED
  BY <1>2 DEF Announced, StoredPages, l

(***************************************************************************)
(* A step of leads: the logs go on, and a stream that is over stays so     *)
(* and publishes no more.                                                  *)
(***************************************************************************)
LogStep ==
    /\ LogsTyped' /\ LogOK'
    /\ \A s \in Streams : /\ Grows(s)
                          /\ Over(s) => Over(s)' /\ log'[s] = log[s]

\* Of some events none is a page, or one is and it is p; n is announced with them.
NoIds(events) == \A k \in DOMAIN events : events[k].type # "ids"
OneIds(events, p) ==
    \E k \in DOMAIN events :
        /\ events[k].type = "ids" /\ events[k].page = p
        /\ \A j \in DOMAIN events : j # k => events[j].type # "ids"
Tells(events, n) ==
    \/ NoIds(events) /\ n = Announced
    \/ OneIds(events, n) /\ n = Announced + 1

LEMMA LogsStay ==
    ASSUME LogsTyped, LogOK, UNCHANGED <<log, dropped>>, \A s \in Streams : Over(s) => Over(s)'
    PROVE  LogStep /\ Announced' = Announced
<1>1. log' = log /\ dropped' = dropped
  OBVIOUS
<1>2. \A s \in Streams : HasEnd(s)' => HasEnd(s)
  BY <1>1 DEF HasEnd
<1>3. LogOK'
  BY <1>1, <1>2 DEF LogOK, Announced, StoredPages
<1>4. LogsTyped'
  BY <1>1 DEF LogsTyped
<1>5. \A s \in Streams : Grows(s)
  BY <1>1 DEF Grows, LogsTyped
<1> QED
  BY <1>1, <1>3, <1>4, <1>5 DEF LogStep, Announced, StoredPages

LEMMA LogsGrow ==
    ASSUME StreamsOK, LogOK, NEW s \in Streams, NEW events \in Seq(EventType), EndsLast(events),
           ~job[s].gone, ~Over(s), Publish(s, events),
           \A t \in Streams : Over(t) => Over(t)',
           s = "embedding" => \A k \in DOMAIN events : events[k].type # "ids",
           Len(events) > 0 /\ events[Len(events)].type \in Ends => Over(s)',
           NEW n, s = "ingest" => Tells(events, n)
    PROVE  /\ LogStep
           /\ s # "ingest" => Announced' = Announced
           /\ s = "ingest" => Announced' = n
<1>1. LogsTyped
  BY Typed
<1>2. ~HasEnd(s)
  BY DEF LogOK
<1>3. /\ LogsTyped' /\ DOMAIN log' = Streams /\ DOMAIN dropped' = Streams
      /\ \A t \in Streams : Grows(t) /\ (t # s => log'[t] = log[t])
      /\ log'[s] = log[s] \o events
      /\ \A t \in Streams : \A i \in dropped'[t] : log'[t][i].type \in Lossy
      /\ \A t \in Streams : EndsLast(log'[t])
      /\ HasEnd(s)' => Len(events) > 0 /\ events[Len(events)].type \in Ends
  BY <1>1, <1>2, Published
<1>4. \A t \in Streams : HasEnd(t)' => Over(t)'
  <2> TAKE t \in Streams
  <2>1. CASE t = s
    BY <1>3, <2>1
  <2>2. CASE t # s
    <3>1. HasEnd(t)' => HasEnd(t)
      BY <1>3, <2>2 DEF HasEnd
    <3> QED
      BY <3>1 DEF LogOK
  <2> QED
    BY <2>1, <2>2
<1>7. s # "ingest" => Announced' = Announced
  BY <1>3, Sizes DEF Announced, StoredPages
<1>8. ASSUME s = "ingest"
      PROVE  Announced' = n
  <2> DEFINE old == log["ingest"]
             ids == Selected(old, {"ids"})
             now == Selected(old \o events, {"ids"})
  <2>1. old \in Seq(EventType)
    BY <1>1, Sizes DEF LogsTyped
  <2>2. Announced' = Len(now) /\ Announced = Len(ids)
    BY <1>3, <1>8 DEF Announced, StoredPages
  <2>3. ids \in Seq(EventType)
    BY <1>1, AnnouncedIsNat DEF StoredPages
  <2>4. /\ (\A k \in DOMAIN events : events[k].type \notin {"ids"}) => now = ids
        /\ \A k \in DOMAIN events :
              events[k].type \in {"ids"} /\ (\A j \in DOMAIN events : j # k => events[j].type \notin {"ids"})
              => now = Append(ids, events[k])
    <3> HIDE DEF old
    <3> QED
      BY <2>1, SelectedOver
  <2>5. \A k \in DOMAIN events : events[k] \in EventType
    OBVIOUS
  <2>6. \A e \in EventType : Len(Append(ids, e)) = Len(ids) + 1
    <3> HIDE DEF ids
    <3> QED
      BY <2>3
  <2> HIDE DEF ids, now, old
  <2> QED
    BY <1>8, <2>2, <2>4, <2>5, <2>6 DEF Tells, NoIds, OneIds
<1>5. LogOK'
  <2>1. \A i \in DOMAIN log'["embedding"] : log'["embedding"][i].type # "ids"
    <3> DEFINE old == log["embedding"]
    <3>1. old \in Seq(EventType) /\ \A i \in DOMAIN old : old[i].type # "ids"
      BY <1>1, Sizes DEF LogsTyped, LogOK
    <3>2. CASE s = "embedding"
      <4> DEFINE all == old \o events
      <4>1. log'["embedding"] = all
        BY <1>3, <3>2
      <4>2. \A i \in DOMAIN all : \/ (i \in DOMAIN old /\ all[i] = old[i])
                                  \/ (i - Len(old) \in DOMAIN events /\ all[i] = events[i - Len(old)])
        <5> HIDE DEF old
        <5> QED
          BY <3>1
      <4> HIDE DEF all, old
      <4> QED
        BY <3>1, <3>2, <4>1, <4>2
    <3>3. CASE s # "embedding"
      BY <1>3, <3>1, <3>3, Sizes
    <3> QED
      BY <3>2, <3>3
  <2>2. \A i \in DOMAIN log'["ingest"] :
           log'["ingest"][i].type = "ids" => log'["ingest"][i].page <= Announced'
    <3> DEFINE old == log["ingest"]
    <3>1. /\ old \in Seq(EventType)
          /\ \A i \in DOMAIN old : old[i].type = "ids" => old[i].page <= Announced
      BY <1>1, Sizes DEF LogsTyped, LogOK
    <3>2. CASE s = "ingest"
      <4> DEFINE all == old \o events
      <4>1. log'["ingest"] = all
        BY <1>3, <3>2
      <4>2. \A i \in DOMAIN all : \/ (i \in DOMAIN old /\ all[i] = old[i])
                                  \/ (i - Len(old) \in DOMAIN events /\ all[i] = events[i - Len(old)])
        <5> HIDE DEF old
        <5> QED
          BY <3>1
      <4>3. \A i \in DOMAIN old : old[i].page \in Int
        <5>1. \A i \in DOMAIN old : old[i] \in EventType
          <6> HIDE DEF old
          <6> QED
            BY <3>1
        <5> QED
          BY <5>1, Sizes DEF EventType
      <4>4. Announced \in Nat /\ Announced' = n
        BY <1>1, <1>8, <3>2, AnnouncedIsNat
      <4>5. \A k \in DOMAIN events : events[k].type = "ids" => events[k].page = n
        BY <3>2 DEF Tells, NoIds, OneIds
      <4>6. n \in Nat /\ Announced <= n
        BY <3>2, <4>4 DEF Tells
      <4> HIDE DEF all, old
      <4> QED
        BY <3>1, <4>1, <4>2, <4>3, <4>4, <4>5, <4>6
    <3>3. CASE s # "ingest"
      BY <1>3, <1>7, <3>1, <3>3, Sizes
    <3> QED
      BY <3>2, <3>3
  <2> QED
    BY <1>3, <1>4, <2>1, <2>2 DEF LogOK, EndsLast
<1>6. LogStep
  BY <1>3, <1>5 DEF LogStep
<1> QED
  BY <1>3, <1>6, <1>7, <1>8

-----------------------------------------------------------------------------
(***************************************************************************)
(* Steps that leave the walk, the queue and the embedding where they were. *)
(***************************************************************************)
InHand == {"held", "woken", "embedding"}
SameWork(b, c) == c.chunk = b.chunk /\ (c.pc = b.pc \/ (b.pc \in InHand /\ c.pc \in InHand))

SameWalk ==
    walk' = walk \/ (walk.pc \in Held /\ walk'.pc \in Held /\ walk'.page = walk.page
                       /\ (walk'.pc = "throttled" /\ walk'.page = Pages => walk'.last))

SameJobs ==
    /\ \A s \in Streams : /\ job'[s].status = job[s].status
                          /\ job[s].gone => job'[s].gone
                          /\ job'[s].gone => job[s].gone \/ job[s].status # "running"
    /\ job["ingest"].cancelled => job'["ingest"].cancelled

SameCounts ==
    /\ emb'.live = emb.live /\ emb'.accepting = emb.accepting /\ emb'.total = emb.total
    /\ emb'.done = emb.done /\ emb'.failed = emb.failed /\ emb'.inFlight = emb.inFlight

LEMMA SameBatches ==
    ASSUME \A p \in PageNumbers : SameWork(batch[p], batch'[p])
    PROVE  /\ Begun' = Begun /\ Working' = Working /\ Started' = Started /\ Waiting' = Waiting
           /\ Busy' = Busy
<1>1. \A p \in PageNumbers :
        /\ (batch'[p].pc # "none") <=> (batch[p].pc # "none")
        /\ (batch'[p].pc \in InHand) <=> (batch[p].pc \in InHand)
        /\ (batch'[p].pc \notin {"none", "task"}) <=> (batch[p].pc \notin {"none", "task"})
        /\ (batch'[p].pc \in {"task", "held", "woken", "embedding"})
              <=> (batch[p].pc \in {"task", "held", "woken", "embedding"})
        /\ batch'[p].chunk = batch[p].chunk
  BY DEF SameWork, InHand
<1>2. Working' = Working
  BY <1>1 DEF Working, InHand
<1>3. Leads \subseteq PageNumbers \X (0..(Chunks - 1)) /\ \A l \in Leads : l[1] \in PageNumbers
  BY DEF Leads
<1>4. Waiting' = Waiting
  <2>1. Working' = Working /\ Leads' = Leads
    BY <1>2 DEF Leads, PageNumbers
  <2>2. \A l \in Leads : batch'[l[1]].chunk = batch[l[1]].chunk
    BY <1>1, <1>3
  <2> QED
    BY <2>1, <2>2 DEF Waiting
<1> QED
  BY <1>1, <1>2, <1>4 DEF Begun, Started, Busy

LEMMA Quiet ==
    ASSUME WalkOK, QueueOK, CountOK, UNCHANGED <<queue, consumer>>, Announced' = Announced,
           SameWalk, SameJobs, SameCounts, \A p \in PageNumbers : SameWork(batch[p], batch'[p]),
           queue \in Seq(0..Pages)
    PROVE  WalkOK' /\ QueueOK' /\ CountOK'
<1>1. /\ Begun' = Begun /\ Working' = Working /\ Started' = Started /\ Waiting' = Waiting
      /\ Busy' = Busy
  BY SameBatches
<1>2. queue' = queue /\ consumer' = consumer /\ Queued' = Queued
  BY DEF Queued
<1>3. /\ walk'.pc = walk.pc \/ (walk.pc \in Held /\ walk'.pc \in Held)
      /\ walk'.page = walk.page
      /\ walk'.pc = "throttled" /\ walk'.page = Pages => walk'.last
  BY DEF SameWalk, WalkOK
<1>4. "ingest" \in Streams /\ "embedding" \in Streams
  BY Sizes
<1>5. /\ Over("ingest")' <=> Over("ingest")
      /\ job'["ingest"].status = job["ingest"].status
      /\ job["ingest"].gone => job'["ingest"].gone
      /\ job'["ingest"].gone => job["ingest"].gone \/ job["ingest"].status # "running"
      /\ job["ingest"].cancelled => job'["ingest"].cancelled
      /\ job'["embedding"].status = job["embedding"].status
      /\ job'["embedding"].gone => job["embedding"].gone \/ job["embedding"].status # "running"
  BY <1>4 DEF SameJobs, Over
<1>6. \A i \in DOMAIN queue : queue[i] # Sentinel => batch[queue[i]].pc = "none"
  BY DEF QueueOK
<1>7. WalkOK'
  <2>1. walk'.pc \in Held => job'["ingest"].status = "running" /\ ~job'["ingest"].gone
    BY <1>3, <1>5 DEF WalkOK, Held
  <2>2. walk'.pc = "idle" => job'["ingest"].status = "pending" /\ walk'.page = 1
    BY <1>3, <1>5 DEF WalkOK, Held
  <2>3. walk'.pc \in Held \cup {"idle"} =>
          Announced' = walk'.page - 1 /\ \A p \in (Queued \cup Begun)' : p < walk'.page
    BY <1>1, <1>2, <1>3 DEF WalkOK, Held
  <2>4. walk'.pc \in {"closing", "over"} => Over("ingest")' \/ job'["ingest"].gone
    BY <1>3, <1>5 DEF WalkOK, Held
  <2> QED
    BY <1>3, <2>1, <2>2, <2>3, <2>4 DEF WalkOK, Held
<1>8. QueueOK'
  <2>1. \A i \in DOMAIN queue' : queue'[i] = Sentinel => i = Len(queue') /\ walk'.pc = "over"
    BY <1>2, <1>3 DEF QueueOK, Held
  <2>2. \A i \in DOMAIN queue' : queue'[i] # Sentinel => batch'[queue'[i]].pc = "none"
    <3> SUFFICES ASSUME NEW i \in DOMAIN queue, queue[i] # Sentinel
                 PROVE  batch'[queue[i]].pc = "none"
      BY <1>2
    <3>1. batch[queue[i]].pc = "none"
      BY <1>6
    <3>2. queue[i] \in PageNumbers
      BY Sizes
    <3>3. SameWork(batch[queue[i]], batch'[queue[i]])
      BY <3>2
    <3> QED
      BY <3>1, <3>3 DEF SameWork, InHand
  <2>3. \A i, j \in DOMAIN queue' : queue'[i] = queue'[j] => i = j
    BY <1>2 DEF QueueOK
  <2>4. \A p \in (Queued \cup Begun)' : p <= Announced'
    BY <1>1, <1>2 DEF QueueOK
  <2>5. emb'.live /\ ~job'["ingest"].cancelled => 1..Announced' \subseteq (Queued \cup Begun)'
    BY <1>1, <1>2, <1>5 DEF QueueOK, SameCounts
  <2>6. /\ consumer' # "taking" => walk'.pc = "over" /\ queue' = << >>
        /\ consumer' = "over" => Busy' = {}
    BY <1>1, <1>2, <1>3 DEF QueueOK, Held
  <2>7. /\ emb'.live <=> job'["embedding"].status = "running"
        /\ emb'.live => ~job'["embedding"].gone /\ emb'.accepting
    BY <1>5 DEF QueueOK, SameCounts
  <2> QED
    BY <2>1, <2>2, <2>3, <2>4, <2>5, <2>6, <2>7 DEF QueueOK
<1>9. CountOK'
  BY <1>1, <1>2, <1>5 DEF CountOK, SameCounts
<1> QED
  BY <1>7, <1>8, <1>9

-----------------------------------------------------------------------------
(***************************************************************************)
(* The walk.                                                               *)
(***************************************************************************)
LeadsInv == StreamsOK /\ LogOK /\ WalkOK /\ QueueOK /\ CountOK

\* The queue q is right for n announced pages.
QueueReady(q, n) ==
    /\ q \in Seq(PageNumbers) /\ Len(q) <= QueuePages
    /\ \A i \in DOMAIN q : batch[q[i]].pc = "none"
    /\ \A i, j \in DOMAIN q : q[i] = q[j] => i = j
    /\ \A i \in DOMAIN q : q[i] <= n
    /\ \A p \in Begun : p <= n
    /\ emb.live /\ ~job["ingest"].cancelled
          => \A p \in 1..n : p \in Begun \/ \E i \in DOMAIN q : q[i] = p

LEMMA ReadyQueue ==
    ASSUME LeadsInv, walk.pc # "over"
    PROVE  QueueReady(queue, Announced)
<1>1. queue \in Seq(0..Pages)
  BY DEF LeadsInv, StreamsOK
<1>2. \A i \in DOMAIN queue : queue[i] # Sentinel
  BY DEF LeadsInv, QueueOK
<1>3. queue \in Seq(PageNumbers)
  <2>1. \A i \in DOMAIN queue : queue[i] \in PageNumbers
    BY <1>1, <1>2, Sizes
  <2> QED
    BY <1>1, <2>1
<1>4. \A i \in DOMAIN queue : queue[i] \in Queued
  BY DEF Queued
<1>5. \A p \in Queued : \E i \in DOMAIN queue : queue[i] = p
  BY DEF Queued
<1>6. Len(queue) <= QueuePages
  BY DEF LeadsInv, QueueOK
<1> QED
  BY <1>2, <1>3, <1>4, <1>5, <1>6 DEF LeadsInv, QueueOK, QueueReady

\* The walk has moved, and the embedding has not.
LEMMA Walked ==
    ASSUME LeadsInv, UNCHANGED <<emb, batch, consumer>>, NEW q,
           walk.pc \in Held \cup {"idle", "closing"},
           QueueReady(q, Announced'),
           queue' = q \/ (queue' = Append(q, Sentinel) /\ walk'.pc = "over" /\ ~Full(q)),
           job'["embedding"] = job["embedding"],
           job["ingest"].cancelled => job'["ingest"].cancelled,
           Announced' \in Nat, walk'.pc # "idle",
           walk'.pc \in Held =>
              /\ job'["ingest"].status = "running" /\ ~job'["ingest"].gone
              /\ walk'.page = Announced' + 1 /\ queue' = q,
           walk'.pc = "throttled" /\ walk'.page = Pages => walk'.last,
           walk'.pc \in {"closing", "over"} => Over("ingest")' \/ job'["ingest"].gone
    PROVE  WalkOK' /\ QueueOK' /\ CountOK'
<1>1. emb' = emb /\ batch' = batch /\ consumer' = consumer
  OBVIOUS
<1>2. /\ Begun' = Begun /\ Working' = Working /\ Started' = Started /\ Waiting' = Waiting
      /\ Busy' = Busy
  BY <1>1 DEF Begun, Working, Started, Waiting, Busy, Leads, PageNumbers
<1>3. consumer = "taking"
  BY DEF LeadsInv, QueueOK, StreamsOK, Held
<1>4. emb.accepting
  BY <1>3 DEF LeadsInv, CountOK, StreamsOK
<1>5. CountOK'
  BY <1>1, <1>2, <1>4 DEF LeadsInv, CountOK
<1>6. /\ q \in Seq(PageNumbers) /\ Len(q) \in Nat /\ DOMAIN q = 1..Len(q)
      /\ \A i \in DOMAIN q : q[i] \in PageNumbers /\ q[i] # Sentinel /\ q[i] <= Announced'
      /\ \A i \in DOMAIN q : batch[q[i]].pc = "none"
      /\ \A i, j \in DOMAIN q : q[i] = q[j] => i = j
  BY Sizes DEF QueueReady
<1>7. \/ queue' = q
      \/ /\ walk'.pc = "over" /\ DOMAIN queue' = 1..(Len(q) + 1) /\ Len(queue') = Len(q) + 1
         /\ \A i \in 1..Len(q) : queue'[i] = q[i]
         /\ queue'[Len(q) + 1] = Sentinel
  BY <1>6
<1>8. Queued' \subseteq {q[i] : i \in DOMAIN q} \cup {Sentinel}
  BY <1>6, <1>7 DEF Queued
<1>9. \A i \in DOMAIN q : q[i] \in Queued'
  <2> TAKE i \in DOMAIN q
  <2>1. i \in DOMAIN queue' /\ queue'[i] = q[i]
    BY <1>6, <1>7
  <2> QED
    BY <2>1 DEF Queued
<1>10. \A p \in (Queued \cup Begun)' : p <= Announced'
  BY <1>2, <1>6, <1>8, Sizes DEF QueueReady
<1>11. QueueOK'
  <2>1. \A i \in DOMAIN queue' : queue'[i] = Sentinel => i = Len(queue') /\ walk'.pc = "over"
    BY <1>6, <1>7
  <2>2. \A i \in DOMAIN queue' : queue'[i] # Sentinel => batch'[queue'[i]].pc = "none"
    BY <1>1, <1>6, <1>7
  <2>3. \A i, j \in DOMAIN queue' : queue'[i] = queue'[j] => i = j
    BY <1>6, <1>7
  <2>4. emb'.live /\ ~job'["ingest"].cancelled => 1..Announced' \subseteq (Queued \cup Begun)'
    BY <1>1, <1>2, <1>9 DEF QueueReady
  <2>5. consumer' = "taking"
    BY <1>1, <1>3
  <2>6. /\ emb'.live <=> job'["embedding"].status = "running"
        /\ emb'.live => ~job'["embedding"].gone /\ emb'.accepting
    BY <1>1 DEF LeadsInv, QueueOK
  <2>7. Len(queue') <= QueuePages
    <3>1. Len(q) <= QueuePages
      BY DEF QueueReady
    <3>2. queue' # q => Len(queue') = Len(q) + 1 /\ Len(q) < QueuePages
      BY <1>6, Sizes DEF Full
    <3> QED
      BY <1>6, <3>1, <3>2, Sizes
  <2> QED
    BY <1>10, <2>1, <2>2, <2>3, <2>4, <2>5, <2>6, <2>7 DEF QueueOK
<1>12. WalkOK'
  <2>1. walk'.pc \in Held \cup {"idle"} =>
          Announced' = walk'.page - 1 /\ \A p \in (Queued \cup Begun)' : p < walk'.page
    <3> SUFFICES ASSUME walk'.pc \in Held
                 PROVE  Announced' = walk'.page - 1 /\ \A p \in (Queued \cup Begun)' : p < walk'.page
      OBVIOUS
    <3>1. walk'.page = Announced' + 1 /\ queue' = q
      OBVIOUS
    <3>2. \A p \in (Queued \cup Begun)' : p \in Nat
      <4>1. Begun' \subseteq Nat
        BY <1>2, Sizes DEF Begun
      <4>2. Queued' \subseteq Nat
        BY <1>8, <1>6, Sizes
      <4> QED
        BY <4>1, <4>2
    <3> QED
      BY <1>10, <3>1, <3>2
  <2> QED
    BY <2>1 DEF WalkOK
<1> QED
  BY <1>5, <1>11, <1>12

NoEnd(events) == \A k \in DOMAIN events : events[k].type \notin Ends

\* What is published behind some events.
LEMMA Appended ==
    ASSUME NEW events \in Seq(EventType), NEW e \in EventType, NoEnd(events)
    PROVE  LET all == Append(events, e) IN
           /\ all \in Seq(EventType) /\ EndsLast(all) /\ Len(all) > 0 /\ all[Len(all)] = e
           /\ e.type \notin Ends => NoEnd(all)
           /\ e.type # "ids" /\ NoIds(events) => NoIds(all)
           /\ \A p : e.type # "ids" /\ OneIds(events, p) => OneIds(all, p)
           /\ e.type = "ids" /\ NoIds(events) => OneIds(all, e.page)
<1> DEFINE all == Append(events, e)
<1>1. /\ all \in Seq(EventType) /\ Len(all) = Len(events) + 1 /\ Len(events) \in Nat
      /\ DOMAIN all = 1..(Len(events) + 1) /\ DOMAIN events = 1..Len(events)
      /\ all[Len(events) + 1] = e
      /\ \A i \in 1..Len(events) : all[i] = events[i]
  OBVIOUS
<1> HIDE DEF all
<1>2. EndsLast(all)
  BY <1>1 DEF EndsLast, NoEnd
<1>3. e.type \notin Ends => NoEnd(all)
  BY <1>1 DEF NoEnd
<1>4. e.type # "ids" /\ NoIds(events) => NoIds(all)
  BY <1>1 DEF NoIds
<1>5. \A p : e.type # "ids" /\ OneIds(events, p) => OneIds(all, p)
  <2> SUFFICES ASSUME NEW p, e.type # "ids", NEW k \in DOMAIN events,
                      events[k].type = "ids", events[k].page = p,
                      \A j \in DOMAIN events : j # k => events[j].type # "ids"
               PROVE  OneIds(all, p)
    BY DEF OneIds
  <2>1. k \in DOMAIN all /\ all[k].type = "ids" /\ all[k].page = p
    BY <1>1
  <2>2. \A j \in DOMAIN all : j # k => all[j].type # "ids"
    BY <1>1
  <2> QED
    BY <2>1, <2>2 DEF OneIds
<1>6. e.type = "ids" /\ NoIds(events) => OneIds(all, e.page)
  <2> SUFFICES ASSUME e.type = "ids", NoIds(events) PROVE OneIds(all, e.page)
    OBVIOUS
  <2>1. /\ (Len(events) + 1) \in DOMAIN all /\ all[Len(events) + 1].type = "ids"
        /\ all[Len(events) + 1].page = e.page
    BY <1>1
  <2>2. \A j \in DOMAIN all : j # Len(events) + 1 => all[j].type # "ids"
    BY <1>1 DEF NoIds
  <2> QED
    BY <2>1, <2>2 DEF OneIds
<1>7. Len(all) > 0 /\ all[Len(all)] = e
  BY <1>1
<1> QED
  BY <1>1, <1>2, <1>3, <1>4, <1>5, <1>6, <1>7 DEF all

LEMMA StatusSet ==
    ASSUME StreamsOK, NEW s \in Streams, NEW status \in {"pending", "running", "complete", "error"},
           job' = [job EXCEPT ![s].status = status]
    PROVE  /\ job' \in [Streams -> JobType]
           /\ job'[s].status = status /\ job'[s].gone = job[s].gone
           /\ job'[s].cancelled = job[s].cancelled
           /\ \A t \in Streams : t # s => job'[t] = job[t]
<1>1. job \in [Streams -> JobType]
  BY Typed
<1>2. job' = [job EXCEPT ![s] = [job[s] EXCEPT !.status = status]]
  OBVIOUS
<1>3. job[s] \in JobType
  BY <1>1
<1>4. /\ [job[s] EXCEPT !.status = status] \in JobType
      /\ [job[s] EXCEPT !.status = status].status = status
      /\ [job[s] EXCEPT !.status = status].gone = job[s].gone
      /\ [job[s] EXCEPT !.status = status].cancelled = job[s].cancelled
  BY <1>3 DEF JobType
<1>5. job'[s] = [job[s] EXCEPT !.status = status]
  BY <1>1, <1>2
<1> QED
  BY <1>1, <1>2, <1>4, <1>5

LEMMA EndWalkKeeps ==
    ASSUME LeadsInv, NEW w \in WalkType, NEW q, NEW n, NEW events \in Seq(EventType),
           NEW type \in Ends, walk.pc \in Held \cup {"idle"}, ~job["ingest"].gone,
           QueueReady(q, n), NoEnd(events), Tells(events, n),
           EndWalk(w, q, events, type), UNCHANGED embedVars, controls' = controls
    PROVE  LeadsInv' /\ LogStep
<1>1. /\ Publish("ingest", Append(events, Note(type)))
      /\ job' = [job EXCEPT !["ingest"].status = type] /\ Close(w, q)
      /\ emb' = emb /\ batch' = batch /\ consumer' = consumer
  BY DEF EndWalk, Finished, embedVars
<1>2. type \in {"pending", "running", "complete", "error"}
  BY DEF Ends
<1>3. /\ job' \in [Streams -> JobType]
      /\ job'["ingest"].status = type /\ job'["ingest"].cancelled = job["ingest"].cancelled
      /\ \A t \in Streams : t # "ingest" => job'[t] = job[t]
  BY <1>1, <1>2, StatusSet, Sizes DEF LeadsInv
<1>4. ~Over("ingest")
  BY DEF LeadsInv, WalkOK, Over, Ends
<1>5. \A t \in Streams : Over(t) => Over(t)'
  BY <1>3 DEF Over
<1>6. Over("ingest")'
  BY <1>3 DEF Over
<1> DEFINE all == Append(events, Note(type))
<1>7. /\ Note(type) \in EventType /\ Note(type).type = type /\ type # "ids"
  BY Notes DEF Ends, Types
<1>8. /\ all \in Seq(EventType) /\ EndsLast(all)
      /\ NoIds(events) => NoIds(all)
      /\ OneIds(events, n) => OneIds(all, n)
  BY <1>7, Appended
<1> HIDE DEF all
<1>9. LogStep /\ Announced' = n
  <2>1. Publish("ingest", all)
    BY <1>1 DEF all
  <2>2. Tells(all, n)
    BY <1>8 DEF Tells
  <2> QED
    BY <2>1, <2>2, <1>4, <1>5, <1>6, <1>8, LogsGrow, Sizes DEF LeadsInv
<1>10. Announced' = n
  BY <1>9
<1>11. Announced' \in Nat
  <2>1. Announced \in Nat
    BY AnnouncedIsNat, Typed DEF LeadsInv
  <2> QED
    BY <2>1, <1>10 DEF Tells
<1>12. /\ walk' \in WalkType /\ walk'.pc \in {"closing", "over"}
       /\ queue' = q \/ (queue' = Append(q, Sentinel) /\ walk'.pc = "over" /\ ~Full(q))
  BY <1>1 DEF Close, WalkType
<1>13. queue' \in Seq(0..Pages)
  <2>1. q \in Seq(0..Pages)
    BY Sizes DEF QueueReady
  <2>2. Sentinel \in 0..Pages
    BY Sizes
  <2>3. Append(q, Sentinel) \in Seq(0..Pages)
    BY <2>1, <2>2
  <2> QED
    BY <1>12, <2>1, <2>3
<1>14. WalkOK' /\ QueueOK' /\ CountOK'
  <2>1. QueueReady(q, Announced')
    BY <1>10
  <2> QED
    BY <1>1, <1>3, <1>6, <1>11, <1>12, <2>1, Walked, Sizes DEF Held
<1>15. StreamsOK'
  BY <1>1, <1>3, <1>9, <1>12, <1>13, Typed DEF LeadsInv, LogStep, StreamsOK, LogsTyped,
     JobType, WalkType, EventType
<1> QED
  BY <1>9, <1>14, <1>15 DEF LeadsInv, LogStep

LEMMA AskKeeps ==
    ASSUME LeadsInv, NEW w \in WalkType, NEW q, NEW n, NEW events \in Seq(EventType),
           walk.pc \in Held \cup {"idle"}, ~job["ingest"].gone,
           QueueReady(q, n), NoEnd(events), Tells(events, n), w.page = n + 1,
           AskForPage(w, q, events), UNCHANGED embedVars, controls' = controls
    PROVE  LeadsInv' /\ LogStep
<1>1. /\ Publish("ingest", events)
      /\ job' = [job EXCEPT !["ingest"].status = "running"] /\ queue' = q
      /\ walk' = [w EXCEPT !.pc = IF job["ingest"].paused THEN "held" ELSE "fetching"]
      /\ emb' = emb /\ batch' = batch /\ consumer' = consumer
  BY DEF AskForPage, embedVars
<1>2. /\ job' \in [Streams -> JobType]
      /\ job'["ingest"].status = "running" /\ job'["ingest"].cancelled = job["ingest"].cancelled
      /\ ~job'["ingest"].gone
      /\ \A t \in Streams : t # "ingest" => job'[t] = job[t]
  BY <1>1, StatusSet, Sizes DEF LeadsInv
<1>3. ~Over("ingest")
  BY DEF LeadsInv, WalkOK, Over, Ends
<1>4. \A t \in Streams : Over(t) => Over(t)'
  BY <1>2, <1>3 DEF Over
<1>5. EndsLast(events) /\ ~(Len(events) > 0 /\ events[Len(events)].type \in Ends)
  BY DEF NoEnd, EndsLast
<1>6. LogStep /\ Announced' = n
  BY <1>1, <1>3, <1>4, <1>5, LogsGrow, Sizes DEF LeadsInv
<1>7. Announced' = n
  BY <1>6
<1>8. Announced' \in Nat
  <2>1. Announced \in Nat
    BY AnnouncedIsNat, Typed DEF LeadsInv
  <2> QED
    BY <2>1, <1>7 DEF Tells
<1>9. /\ walk' \in WalkType /\ walk'.pc \in {"held", "fetching"} /\ walk'.page = w.page
  BY <1>1 DEF WalkType
<1>10. queue' \in Seq(0..Pages)
  <2>1. q \in Seq(0..Pages)
    BY Sizes DEF QueueReady
  <2> QED
    BY <1>1, <2>1
<1>11. WalkOK' /\ QueueOK' /\ CountOK'
  <2>1. QueueReady(q, Announced')
    BY <1>7
  <2>2. /\ job'["embedding"] = job["embedding"] /\ walk'.page = Announced' + 1
        /\ walk'.pc \notin {"idle", "throttled", "closing", "over"}
    BY <1>2, <1>7, <1>9, Sizes
  <2> QED
    BY <1>1, <1>2, <1>8, <1>9, <2>1, <2>2, Walked
<1>12. StreamsOK'
  BY <1>1, <1>2, <1>6, <1>9, <1>10, Typed DEF LeadsInv, LogStep, StreamsOK, LogsTyped,
     JobType, WalkType, EventType
<1> QED
  BY <1>6, <1>11, <1>12 DEF LeadsInv, LogStep

\* The queue is closed behind a walk whose job is over, or was dropped.
LEMMA CloseKeeps ==
    ASSUME LeadsInv, walk.pc \in {"idle", "closing"}, Over("ingest") \/ job["ingest"].gone,
           Close(walk, queue), UNCHANGED <<job, log, dropped, controls>>, UNCHANGED embedVars
    PROVE  LeadsInv' /\ LogStep
<1>1. emb' = emb /\ batch' = batch /\ consumer' = consumer /\ job' = job
  BY DEF embedVars
<1>2. LogStep /\ Announced' = Announced
  BY <1>1, LogsStay, Typed DEF LeadsInv, Over
<1>3. Announced \in Nat
  BY AnnouncedIsNat, Typed DEF LeadsInv
<1>4. walk \in WalkType /\ queue \in Seq(0..Pages)
  BY Typed DEF LeadsInv
<1>5. /\ walk' \in WalkType /\ walk'.pc \in {"closing", "over"}
      /\ queue' = queue \/ (queue' = Append(queue, Sentinel) /\ walk'.pc = "over" /\ ~Full(queue))
  BY <1>4 DEF Close, WalkType
<1>6. queue' \in Seq(0..Pages)
  BY <1>4, <1>5, Sizes
<1>7. WalkOK' /\ QueueOK' /\ CountOK'
  <2>1. QueueReady(queue, Announced')
    BY <1>2, ReadyQueue
  <2>2. Over("ingest")' \/ job'["ingest"].gone
    BY <1>1 DEF Over
  <2> QED
    BY <1>1, <1>2, <1>3, <1>5, <2>1, <2>2, Walked DEF Held
<1>8. StreamsOK'
  BY <1>1, <1>2, <1>5, <1>6 DEF LeadsInv, LogStep, StreamsOK, LogsTyped, WalkType, EventType
<1> QED
  BY <1>2, <1>7, <1>8 DEF LeadsInv, LogStep

\* A queue without the next page, whom it may pass by; and with it.
LEMMA ReadyMore ==
    ASSUME LeadsInv, walk.pc \in Held
    PROVE  /\ Announced = walk.page - 1 /\ Announced \in Nat /\ walk.page \in PageNumbers
           /\ Announced + 1 = walk.page
           /\ QueueReady(queue, Announced)
           /\ job["ingest"].cancelled \/ ~emb.live => QueueReady(queue, walk.page)
           /\ ~Full(queue) => QueueReady(Append(queue, walk.page), walk.page)
<1>1. Announced = walk.page - 1 /\ \A p \in Queued \cup Begun : p < walk.page
  BY DEF LeadsInv, WalkOK
<1>2. QueueReady(queue, Announced)
  BY ReadyQueue DEF Held
<1>3. Announced \in Nat
  BY AnnouncedIsNat, Typed DEF LeadsInv
<1>4. walk.page \in PageNumbers /\ walk.page \in Nat
  BY Sizes DEF LeadsInv, StreamsOK
<1> DEFINE p == walk.page
           q == Append(queue, p)
<1>5. /\ queue \in Seq(PageNumbers) /\ Len(queue) \in Nat /\ DOMAIN queue = 1..Len(queue)
      /\ \A i \in DOMAIN queue : queue[i] \in Nat /\ queue[i] < p
      /\ \A x \in Begun : x \in Nat /\ x < p
  <2>1. queue \in Seq(PageNumbers)
    BY <1>2 DEF QueueReady
  <2>2. \A i \in DOMAIN queue : queue[i] \in Queued
    BY DEF Queued
  <2>3. Begun \subseteq Nat
    BY Sizes DEF Begun
  <2>4. \A i \in DOMAIN queue : queue[i] \in Nat
    BY <2>1, Sizes
  <2> QED
    BY <1>1, <2>1, <2>2, <2>3, <2>4
<1>6. /\ q \in Seq(PageNumbers) /\ DOMAIN q = 1..(Len(queue) + 1) /\ q[Len(queue) + 1] = p
      /\ \A i \in 1..Len(queue) : q[i] = queue[i]
  BY <1>4, <1>5
<1>7. job["ingest"].cancelled \/ ~emb.live => QueueReady(queue, p)
  <2>1. \A i \in DOMAIN queue : queue[i] <= p
    BY <1>4, <1>5
  <2>2. \A x \in Begun : x <= p
    BY <1>4, <1>5
  <2> QED
    BY <1>2, <2>1, <2>2 DEF QueueReady
<1>8. batch[p].pc = "none"
  <2>1. p \notin Begun
    BY <1>4, <1>5
  <2> QED
    BY <1>4, <2>1 DEF Begun
<1>9. ~Full(queue) => QueueReady(q, p)
  <2> SUFFICES ASSUME ~Full(queue) PROVE QueueReady(q, p)
    OBVIOUS
  <2> HIDE DEF q
  <2>0. Len(q) <= QueuePages
    BY <1>5, <1>6, Sizes DEF Full
  <2>1. \A i \in DOMAIN q : batch[q[i]].pc = "none"
    BY <1>2, <1>5, <1>6, <1>8 DEF QueueReady
  <2>2. \A i, j \in DOMAIN q : q[i] = q[j] => i = j
    <3> SUFFICES ASSUME NEW i \in DOMAIN q, NEW j \in DOMAIN q, q[i] = q[j] PROVE i = j
      OBVIOUS
    <3>1. CASE i \in 1..Len(queue) /\ j \in 1..Len(queue)
      BY <1>2, <1>5, <1>6, <3>1 DEF QueueReady
    <3>2. CASE i \in 1..Len(queue) /\ j = Len(queue) + 1
      BY <1>4, <1>5, <1>6, <3>2
    <3>3. CASE i = Len(queue) + 1 /\ j \in 1..Len(queue)
      BY <1>4, <1>5, <1>6, <3>3
    <3> QED
      BY <1>5, <1>6, <3>1, <3>2, <3>3
  <2>3. \A i \in DOMAIN q : q[i] <= p
    BY <1>4, <1>5, <1>6
  <2>4. \A x \in Begun : x <= p
    BY <1>4, <1>5
  <2>5. emb.live /\ ~job["ingest"].cancelled
          => \A x \in 1..p : x \in Begun \/ \E i \in DOMAIN q : q[i] = x
    <3> SUFFICES ASSUME emb.live, ~job["ingest"].cancelled, NEW x \in 1..p
                 PROVE  x \in Begun \/ \E i \in DOMAIN q : q[i] = x
      OBVIOUS
    <3>1. CASE x = p
      <4>1. (Len(queue) + 1) \in DOMAIN q
        BY <1>5, <1>6
      <4> QED
        BY <1>6, <3>1, <4>1
    <3>2. CASE x # p
      <4>1. x \in 1..Announced
        BY <1>1, <1>3, <1>4, <3>2
      <4>2. x \in Begun \/ \E i \in DOMAIN queue : queue[i] = x
        BY <1>2, <4>1 DEF QueueReady
      <4>3. \A i \in DOMAIN queue : i \in DOMAIN q /\ q[i] = queue[i]
        BY <1>5, <1>6
      <4> QED
        BY <4>2, <4>3
    <3> QED
      BY <3>1, <3>2
  <2> QED
    BY <1>6, <2>0, <2>1, <2>2, <2>3, <2>4, <2>5 DEF QueueReady
<1>10. Announced + 1 = walk.page
  BY <1>1, <1>3, <1>4
<1> QED
  BY <1>1, <1>2, <1>3, <1>4, <1>7, <1>9, <1>10

LEMMA GoKeeps ==
    ASSUME LeadsInv, walk.pc \in Held, NEW w \in WalkType, NEW q, NEW extra \in Seq(EventType),
           w.page = walk.page, w.page = Pages => w.last, QueueReady(q, walk.page),
           NoEnd(extra), NoIds(extra), Go(w, q, extra), UNCHANGED embedVars, controls' = controls
    PROVE  LeadsInv' /\ LogStep
<1> DEFINE e == Event("ids", w.page)
           events == Append(extra, e)
           next == [w EXCEPT !.page = @ + 1]
<1>1. /\ Announced + 1 = walk.page /\ walk.page \in PageNumbers /\ Announced \in Nat
      /\ ~job["ingest"].gone
  BY ReadyMore DEF LeadsInv, WalkOK
<1>2. e \in EventType /\ e.type = "ids" /\ e.type \notin Ends
  BY <1>1, Notes DEF Ends
<1>3. events \in Seq(EventType) /\ NoEnd(events) /\ OneIds(events, walk.page)
  <2>1. e.page = walk.page
    BY DEF Event
  <2> HIDE DEF e
  <2> QED
    BY <1>2, <2>1, Appended
<1>4. Tells(events, walk.page)
  BY <1>1, <1>3 DEF Tells
<1>5. CASE job["ingest"].cancelled \/ w.last
  <2>1. EndWalk(w, q, events, "complete")
    BY <1>5 DEF Go
  <2>2. "complete" \in Ends
    BY DEF Ends
  <2> HIDE DEF events
  <2> QED
    BY <1>1, <1>3, <1>4, <2>1, <2>2, EndWalkKeeps
<1>6. CASE ~(job["ingest"].cancelled \/ w.last)
  <2>1. AskForPage(next, q, events)
    BY <1>6 DEF Go
  <2>2. next \in WalkType /\ next.page = walk.page + 1
    BY <1>1, <1>6, Sizes DEF WalkType
  <2> HIDE DEF events, next
  <2> QED
    BY <1>1, <1>3, <1>4, <2>1, <2>2, AskKeeps
<1> QED
  BY <1>5, <1>6

\* The walk waits, wakes or says that it waits.
LEMMA WaitKeeps ==
    ASSUME LeadsInv, walk.pc \in Held, SameWalk, walk' \in WalkType, UNCHANGED <<job, queue, controls>>,
           UNCHANGED embedVars, UNCHANGED <<log, dropped>>
    PROVE  LeadsInv' /\ LogStep
<1>1. job' = job /\ queue' = queue /\ emb' = emb /\ batch' = batch /\ consumer' = consumer
      /\ controls' = controls /\ log' = log /\ dropped' = dropped
  BY DEF embedVars
<1>2. LogStep /\ Announced' = Announced
  BY <1>1, LogsStay, Typed DEF LeadsInv, Over
<1>3. SameJobs /\ SameCounts /\ \A p \in PageNumbers : SameWork(batch[p], batch'[p])
  BY <1>1 DEF SameJobs, SameCounts, SameWork
<1>4. queue \in Seq(0..Pages)
  BY DEF LeadsInv, StreamsOK
<1>5. WalkOK' /\ QueueOK' /\ CountOK'
  BY <1>1, <1>2, <1>3, <1>4, Quiet DEF LeadsInv
<1>6. StreamsOK'
  BY <1>1 DEF LeadsInv, StreamsOK, WalkType
<1> QED
  BY <1>2, <1>5, <1>6 DEF LeadsInv, LogStep

LEMMA OfferKeeps ==
    ASSUME LeadsInv, walk.pc \in {"throttled", "fetching"}, NEW w \in WalkType,
           w.page = walk.page, w.page = Pages => w.last, Offer(w),
           UNCHANGED embedVars, controls' = controls
    PROVE  LeadsInv' /\ LogStep
<1>1. walk.pc \in Held
  BY DEF Held
<1>2. << >> \in Seq(EventType) /\ NoEnd(<< >>) /\ NoIds(<< >>)
  BY DEF NoEnd, NoIds
<1> DEFINE empty == << >>
<1>3. CASE job["ingest"].cancelled
  <2>1. Go(w, queue, empty) /\ QueueReady(queue, walk.page)
    BY <1>1, <1>3, ReadyMore DEF Offer
  <2> HIDE DEF empty
  <2> QED
    BY <1>1, <1>2, <2>1, GoKeeps DEF empty
<1>4. CASE ~job["ingest"].cancelled /\ ~emb.live
  <2> DEFINE then == [w EXCEPT !.detached = TRUE]
             told == IF w.detached THEN << >> ELSE <<Note("embedding_detached")>>
  <2>1. Go(then, queue, told) /\ QueueReady(queue, walk.page)
    BY <1>1, <1>4, ReadyMore DEF Offer
  <2>2. then \in WalkType /\ then.page = w.page /\ then.last = w.last
    BY DEF WalkType
  <2>3. told \in Seq(EventType) /\ NoEnd(told) /\ NoIds(told)
    <3>1. /\ Note("embedding_detached") \in EventType
          /\ Note("embedding_detached").type = "embedding_detached"
      BY Notes DEF Types
    <3> DEFINE e == Note("embedding_detached")
    <3>2. <<e>> \in Seq(EventType) /\ NoEnd(<<e>>) /\ NoIds(<<e>>)
      <4> HIDE DEF e
      <4> QED
        BY <3>1 DEF NoEnd, NoIds, Ends, e
    <3> QED
      BY <1>2, <3>2
  <2> HIDE DEF then, told
  <2> QED
    BY <1>1, <2>1, <2>2, <2>3, GoKeeps
<1>5. CASE ~job["ingest"].cancelled /\ emb.live /\ ~Full(queue)
  <2> DEFINE q == Append(queue, walk.page)
  <2>1. Go(w, q, empty) /\ QueueReady(q, walk.page)
    BY <1>1, <1>5, ReadyMore DEF Offer
  <2> HIDE DEF empty, q
  <2> QED
    BY <1>1, <1>2, <2>1, GoKeeps DEF empty
<1>6. CASE ~job["ingest"].cancelled /\ emb.live /\ Full(queue)
  <2>1. /\ walk' = [w EXCEPT !.pc = "throttled"]
        /\ UNCHANGED <<job, log, dropped, queue>>
    BY <1>6 DEF Offer
  <2>2. walk' \in WalkType /\ SameWalk
    BY <1>1, <2>1 DEF WalkType, SameWalk, Held
  <2> QED
    BY <1>1, <2>1, <2>2, WaitKeeps
<1> QED
  BY <1>3, <1>4, <1>5, <1>6

LEMMA WalkingKeeps ==
    ASSUME LeadsInv, Walking
    PROVE  LeadsInv' /\ LogStep
<1>1. controls' = controls /\ walk \in WalkType
  BY Typed DEF Walking, LeadsInv
<1>2. << >> \in Seq(EventType) /\ NoEnd(<< >>) /\ Tells(<< >>, Announced)
  BY DEF NoEnd, NoIds, Tells
<1> DEFINE empty == << >>
<1>3. "complete" \in Ends
  BY DEF Ends
<1>4. ASSUME walk.pc \in Held \cup {"idle"}
      PROVE  QueueReady(queue, Announced)
  BY <1>4, ReadyQueue DEF Held
<1>5. CASE StartWalk
  <2>0. walk.pc = "idle" /\ UNCHANGED embedVars
    BY <1>5 DEF StartWalk
  <2>1. CASE job["ingest"].gone
    BY <1>1, <1>5, <2>0, <2>1, CloseKeeps DEF StartWalk
  <2>2. CASE ~job["ingest"].gone /\ job["ingest"].cancelled
    <3>1. EndWalk(walk, queue, empty, "complete")
      BY <1>5, <2>2 DEF StartWalk
    <3> HIDE DEF empty
    <3> QED
      BY <1>1, <1>2, <1>3, <1>4, <2>0, <2>2, <3>1, EndWalkKeeps DEF empty
  <2>3. CASE ~job["ingest"].gone /\ ~job["ingest"].cancelled
    <3>1. AskForPage(walk, queue, empty)
      BY <1>5, <2>3 DEF StartWalk
    <3>2. walk.page = Announced + 1
      <4>1. Announced = walk.page - 1 /\ walk.page = 1
        BY <2>0 DEF LeadsInv, WalkOK
      <4> QED
        BY <4>1
    <3> HIDE DEF empty
    <3> QED
      BY <1>1, <1>2, <1>4, <2>0, <2>3, <3>1, <3>2, AskKeeps DEF empty
  <2> QED
    BY <2>1, <2>2, <2>3
<1>6. CASE WakeWalk
  <2>0. walk.pc = "woken" /\ UNCHANGED embedVars /\ walk.pc \in Held /\ ~job["ingest"].gone
    BY <1>6 DEF WakeWalk, Held, LeadsInv, WalkOK
  <2>1. CASE job["ingest"].cancelled
    <3>1. EndWalk(walk, queue, empty, "complete")
      BY <1>6, <2>1 DEF WakeWalk
    <3> HIDE DEF empty
    <3> QED
      BY <1>1, <1>2, <1>3, <1>4, <2>0, <3>1, EndWalkKeeps DEF empty
  <2>2. CASE ~job["ingest"].cancelled
    <3>1. walk' = [walk EXCEPT !.pc = "fetching"] /\ UNCHANGED <<job, log, dropped, queue>>
      BY <1>6, <2>2 DEF WakeWalk
    <3>2. walk' \in WalkType /\ SameWalk
      BY <1>1, <2>0, <3>1 DEF WalkType, SameWalk, Held
    <3> QED
      BY <1>1, <2>0, <3>1, <3>2, WaitKeeps
  <2> QED
    BY <2>1, <2>2
<1>7. CASE Poll
  <2>1. /\ walk.pc = "throttled" /\ Offer(walk) /\ UNCHANGED embedVars
        /\ walk.page = Pages => walk.last
    BY <1>7 DEF Poll, LeadsInv, WalkOK
  <2> QED
    BY <1>1, <2>1, OfferKeeps
<1>8. CASE CloseQueue
  <2>1. walk.pc = "closing" /\ Close(walk, queue) /\ UNCHANGED <<job, log, dropped>> /\ UNCHANGED embedVars
    BY <1>8 DEF CloseQueue, embedVars
  <2>2. Over("ingest") \/ job["ingest"].gone
    BY <2>1 DEF LeadsInv, WalkOK
  <2> QED
    BY <1>1, <2>1, <2>2, CloseKeeps
<1>9. ASSUME NEW last \in BOOLEAN, FetchPage(last)
      PROVE  LeadsInv' /\ LogStep
  <2>0. /\ walk.pc = "fetching" /\ UNCHANGED embedVars /\ walk.pc \in Held /\ ~job["ingest"].gone
        /\ walk.page = Pages => last
    BY <1>9 DEF FetchPage, Held, LeadsInv, WalkOK
  <2>1. CASE job["ingest"].cancelled
    <3>1. EndWalk(walk, queue, empty, "complete")
      BY <1>9, <2>1 DEF FetchPage
    <3> HIDE DEF empty
    <3> QED
      BY <1>1, <1>2, <1>3, <1>4, <2>0, <3>1, EndWalkKeeps DEF empty
  <2>2. CASE ~job["ingest"].cancelled
    <3> DEFINE w == [walk EXCEPT !.last = last]
    <3>1. Offer(w)
      BY <1>9, <2>2 DEF FetchPage
    <3>2. w \in WalkType /\ w.page = walk.page /\ w.last = last
      BY <1>1 DEF WalkType
    <3> HIDE DEF w
    <3> QED
      BY <1>1, <2>0, <3>1, <3>2, OfferKeeps
  <2> QED
    BY <2>1, <2>2
<1>10. ASSUME NEW type \in Ends, FetchNothing(type)
       PROVE  LeadsInv' /\ LogStep
  <2>0. /\ walk.pc = "fetching" /\ UNCHANGED embedVars /\ walk.pc \in Held /\ ~job["ingest"].gone
        /\ EndWalk(walk, queue, empty, type)
    BY <1>10 DEF FetchNothing, Held, LeadsInv, WalkOK
  <2> HIDE DEF empty
  <2> QED
    BY <1>1, <1>2, <1>4, <2>0, EndWalkKeeps DEF empty
<1> QED
  BY <1>5, <1>6, <1>7, <1>8, <1>9, <1>10 DEF Walking

-----------------------------------------------------------------------------
(***************************************************************************)
(* The embedding.                                                          *)
(***************************************************************************)
InWork == {"task", "held", "woken", "embedding"}

LEMMA EmbeddingSays ==
    ASSUME LeadsInv, emb.live,
           NEW type \in {"progress", "item_error", "complete", "paused", "resumed"},
           Publish("embedding", <<Note(type)>>), \A t \in Streams : Over(t) => Over(t)',
           type = "complete" => Over("embedding")'
    PROVE  LogStep /\ Announced' = Announced
<1>1. Note(type) \in EventType /\ Note(type).type = type
  BY Notes DEF Types, Ends, Lossy
<1>2. ~job["embedding"].gone /\ ~Over("embedding")
  BY DEF LeadsInv, QueueOK, Over, Ends
<1> DEFINE e == Note(type)
           events == <<e>>
<1>3. /\ events \in Seq(EventType) /\ EndsLast(events)
      /\ events[Len(events)].type = type /\ \A k \in DOMAIN events : events[k].type # "ids"
  <2> HIDE DEF e
  <2> QED
    BY <1>1 DEF EndsLast, e
<1>4. type \in Ends => type = "complete"
  BY DEF Ends
<1>5. Publish("embedding", events)
  OBVIOUS
<1> HIDE DEF events
<1> QED
  BY <1>2, <1>3, <1>4, <1>5, LogsGrow, Sizes DEF LeadsInv

\* One batch that was taken moves on.
LEMMA BatchMoved ==
    ASSUME LeadsInv, NEW p \in PageNumbers, NEW b \in BatchType, batch[p].pc # "none",
           b.pc # "none", batch' = [batch EXCEPT ![p] = b], UNCHANGED <<job, walk, queue, consumer>>,
           emb'.live = emb.live, emb'.accepting = emb.accepting, Announced' = Announced,
           batch[p].pc \in InWork
    PROVE  /\ WalkOK' /\ QueueOK' /\ batch' \in [PageNumbers -> BatchType]
           /\ consumer # "over" /\ emb.accepting
           /\ Busy' \subseteq Busy \cup {p} /\ p \in Busy
           /\ Started' = IF b.pc # "task" THEN Started \cup {p} ELSE Started \ {p}
           /\ Working' = IF b.pc \in InHand THEN Working \cup {p} ELSE Working \ {p}
           /\ \A l \in Leads : l \in Waiting' <=>
                 IF l[1] = p THEN b.pc \in InHand /\ b.chunk <= l[2] ELSE l \in Waiting
<1>1. batch \in [PageNumbers -> BatchType] /\ queue \in Seq(0..Pages)
  BY Typed DEF LeadsInv
<1>2. /\ batch' \in [PageNumbers -> BatchType] /\ batch'[p] = b
      /\ \A x \in PageNumbers : x # p => batch'[x] = batch[x]
  BY <1>1
<1>3. Begun' = Begun
  BY <1>2 DEF Begun
<1>4. p \in Busy /\ Busy' \subseteq Busy \cup {p}
  BY <1>2 DEF Busy, InWork
<1>5. consumer # "over" /\ emb.accepting
  BY <1>4 DEF LeadsInv, QueueOK, CountOK
<1>6. Started' = IF b.pc # "task" THEN Started \cup {p} ELSE Started \ {p}
  BY <1>2 DEF Started
<1>7. Working' = IF b.pc \in InHand THEN Working \cup {p} ELSE Working \ {p}
  BY <1>2 DEF Working, InHand
<1>8. \A l \in Leads : l[1] \in PageNumbers
  BY DEF Leads
<1>9. Leads' = Leads
  BY DEF Leads, PageNumbers
<1>10. \A l \in Leads : l \in Waiting' <=>
          IF l[1] = p THEN b.pc \in InHand /\ b.chunk <= l[2] ELSE l \in Waiting
  <2> TAKE l \in Leads
  <2>1. l \in Waiting' <=> l[1] \in Working' /\ batch'[l[1]].chunk <= l[2]
    BY <1>9 DEF Waiting
  <2>2. l \in Waiting <=> l[1] \in Working /\ batch[l[1]].chunk <= l[2]
    BY DEF Waiting
  <2>3. CASE l[1] = p
    BY <1>2, <1>7, <2>1, <2>3
  <2>4. CASE l[1] # p
    BY <1>2, <1>7, <1>8, <2>1, <2>2, <2>4
  <2> QED
    BY <2>3, <2>4
<1>11. Queued' = Queued /\ queue' = queue /\ walk' = walk /\ job' = job /\ consumer' = consumer
  BY DEF Queued
<1>12. WalkOK'
  BY <1>3, <1>11 DEF LeadsInv, WalkOK, Over
<1>13. \A i \in DOMAIN queue : queue[i] # Sentinel => batch'[queue[i]].pc = "none"
  <2> SUFFICES ASSUME NEW i \in DOMAIN queue, queue[i] # Sentinel
               PROVE  batch'[queue[i]].pc = "none"
    OBVIOUS
  <2>1. queue[i] \in PageNumbers
    BY <1>1, Sizes
  <2>2. batch[queue[i]].pc = "none"
    BY DEF LeadsInv, QueueOK
  <2> QED
    BY <1>2, <2>1, <2>2
<1>14. QueueOK'
  BY <1>3, <1>5, <1>11, <1>13 DEF LeadsInv, QueueOK
<1> QED
  BY <1>2, <1>4, <1>5, <1>6, <1>7, <1>10, <1>12, <1>14

LEMMA FiniteParts ==
    /\ IsFiniteSet(PageNumbers) /\ IsFiniteSet(Leads)
    /\ IsFiniteSet(Busy) /\ IsFiniteSet(Started) /\ IsFiniteSet(Working) /\ IsFiniteSet(Waiting)
    /\ Cardinality(Busy) \in Nat /\ Cardinality(Started) \in Nat
    /\ Cardinality(Working) \in Nat /\ Cardinality(Waiting) \in Nat
    /\ IsFiniteSet(0..(Chunks - 1)) /\ Cardinality(0..(Chunks - 1)) = Chunks
<1>1. IsFiniteSet(PageNumbers) /\ IsFiniteSet(0..(Chunks - 1)) /\ Cardinality(0..(Chunks - 1)) = Chunks
  BY FS_Interval, Sizes
<1>2. IsFiniteSet(Leads)
  BY <1>1, FS_Product DEF Leads
<1>3. IsFiniteSet(Busy)
  BY <1>1, FS_Subset DEF Busy
<1>4. IsFiniteSet(Started)
  BY <1>1, FS_Subset DEF Started
<1>5. IsFiniteSet(Working)
  BY <1>1, FS_Subset DEF Working
<1>6. IsFiniteSet(Waiting)
  BY <1>2, FS_Subset DEF Waiting
<1> QED
  BY <1>1, <1>2, <1>3, <1>4, <1>5, <1>6, FS_CardinalityType

LEMMA FinitePartsLater ==
    /\ IsFiniteSet(Busy') /\ IsFiniteSet(Started') /\ IsFiniteSet(Working') /\ IsFiniteSet(Waiting')
    /\ Cardinality(Busy') \in Nat /\ Cardinality(Started') \in Nat
    /\ Cardinality(Working') \in Nat /\ Cardinality(Waiting') \in Nat
<1>1. IsFiniteSet(PageNumbers) /\ IsFiniteSet(Leads)
  BY FiniteParts
<1>2. IsFiniteSet(Busy')
  <2>1. Busy' \in SUBSET PageNumbers
    BY DEF Busy, PageNumbers
  <2> QED
    BY <1>1, <2>1, FS_Subset
<1>3. IsFiniteSet(Started')
  <2>1. Started' \in SUBSET PageNumbers
    BY DEF Started, PageNumbers
  <2> QED
    BY <1>1, <2>1, FS_Subset
<1>4. IsFiniteSet(Working')
  <2>1. Working' \in SUBSET PageNumbers
    BY DEF Working, PageNumbers
  <2> QED
    BY <1>1, <2>1, FS_Subset
<1>5. IsFiniteSet(Waiting')
  <2>1. Waiting' \in SUBSET Leads
    BY DEF Waiting, Leads, PageNumbers
  <2> QED
    BY <1>1, <2>1, FS_Subset
<1> QED
  BY <1>2, <1>3, <1>4, <1>5, FS_CardinalityType

\* A batch whose embedding is gone lets go.
LEMMA DeadBatch ==
    ASSUME LeadsInv, NEW p \in PageNumbers, batch[p].pc \in InWork, ~emb.live, batch' = Done(p),
           UNCHANGED <<job, walk, queue, consumer, emb, log, dropped, controls>>
    PROVE  LeadsInv' /\ LogStep
<1>1. batch \in [PageNumbers -> BatchType] /\ emb' = emb /\ controls' = controls
  BY Typed DEF LeadsInv
<1> DEFINE b == [batch[p] EXCEPT !.pc = "over"]
<1>2. b \in BatchType /\ b.pc = "over" /\ batch' = [batch EXCEPT ![p] = b] /\ batch[p].pc # "none"
  BY <1>1 DEF Done, BatchType, InWork
<1>3. LogStep /\ Announced' = Announced
  BY LogsStay, Typed DEF LeadsInv, Over
<1> HIDE DEF b
<1>4. /\ WalkOK' /\ QueueOK' /\ batch' \in [PageNumbers -> BatchType]
      /\ consumer # "over" /\ emb.accepting
      /\ Busy' \subseteq Busy \cup {p} /\ p \in Busy
  BY <1>1, <1>2, <1>3, BatchMoved
<1>5. Cardinality(Busy') <= Cardinality(Busy)
  <2>1. Busy' \in SUBSET Busy
    BY <1>4
  <2> QED
    BY <2>1, FiniteParts, FS_Subset
<1>6. CountOK'
  <2>1. Cardinality(Busy') <= Concurrency
    BY <1>5, FiniteParts, FinitePartsLater, Sizes DEF LeadsInv, CountOK
  <2> QED
    BY <1>1, <1>4, <2>1 DEF LeadsInv, CountOK
<1>7. StreamsOK'
  BY <1>1, <1>3, <1>4 DEF LeadsInv, LogStep, StreamsOK, LogsTyped, BatchType, EventType
<1> QED
  BY <1>3, <1>4, <1>6, <1>7 DEF LeadsInv, LogStep

\* One batch of a living embedding moves on, and the counts with it.
LEMMA LiveBatch ==
    ASSUME LeadsInv, NEW p \in PageNumbers, NEW b \in BatchType, batch[p].pc \in InWork, emb.live,
           b.pc # "none", batch' = [batch EXCEPT ![p] = b],
           UNCHANGED <<job, walk, queue, consumer, controls>>,
           NEW type \in {"progress", "item_error"}, Publish("embedding", <<Note(type)>>),
           emb' \in EmbType, emb'.live, emb'.accepting = emb.accepting,
           emb'.total = Chunks * Cardinality(Started'),
           emb'.done + emb'.failed + Cardinality(Waiting') = emb'.total,
           emb'.inFlight = Cardinality(Working')
    PROVE  LeadsInv' /\ LogStep
<1>1. LogStep /\ Announced' = Announced
  BY EmbeddingSays DEF Over
<1>2. batch[p].pc # "none"
  BY DEF InWork
<1>3. /\ WalkOK' /\ QueueOK' /\ batch' \in [PageNumbers -> BatchType]
      /\ consumer # "over" /\ emb.accepting
      /\ Busy' \subseteq Busy \cup {p} /\ p \in Busy
  BY <1>1, <1>2, BatchMoved
<1>4. Cardinality(Busy') <= Cardinality(Busy)
  <2>1. Busy' \in SUBSET Busy
    BY <1>3
  <2> QED
    BY <2>1, FiniteParts, FS_Subset
<1>5. CountOK'
  <2>1. Cardinality(Busy') <= Concurrency
    BY <1>4, FiniteParts, FinitePartsLater, Sizes DEF LeadsInv, CountOK
  <2>2. emb'.done + emb'.failed <= emb'.total
    BY FinitePartsLater DEF EmbType
  <2> QED
    BY <1>3, <2>1, <2>2 DEF CountOK
<1>6. StreamsOK'
  BY <1>1, <1>3 DEF LeadsInv, LogStep, StreamsOK, LogsTyped, BatchType, EventType, EmbType
<1> QED
  BY <1>1, <1>3, <1>5, <1>6 DEF LeadsInv, LogStep

LEMMA OneMore ==
    ASSUME NEW a \in Nat, NEW b \in Nat
    PROVE  a * (b + 1) = a * b + a
OBVIOUS

LEMMA StartKeeps ==
    ASSUME LeadsInv, NEW p \in PageNumbers, StartBatch(p), controls' = controls
    PROVE  LeadsInv' /\ LogStep
<1>1. /\ batch[p].pc = "task" /\ batch[p].pc \in InWork /\ batch[p].pc # "none"
      /\ UNCHANGED <<job, walk, queue, consumer>>
      /\ batch \in [PageNumbers -> BatchType] /\ emb \in EmbType
  BY Typed DEF StartBatch, ingestVars, InWork, LeadsInv
<1>2. CASE ~emb.live
  BY <1>1, <1>2, DeadBatch DEF StartBatch
<1>3. CASE emb.live
  <2> DEFINE b == [pc |-> IF emb.paused THEN "held" ELSE "embedding", chunk |-> 0]
  <2>1. /\ emb' = [emb EXCEPT !.total = @ + Chunks, !.inFlight = @ + 1]
        /\ Publish("embedding", <<Note("progress")>>)
        /\ batch' = [batch EXCEPT ![p] = b]
    BY <1>3 DEF StartBatch, AtChunk
  <2>2. b \in BatchType /\ b.pc \in InHand /\ b.chunk = 0 /\ b.pc # "none" /\ b.pc # "task"
    BY Sizes DEF BatchType, InHand
  <2>3. LogStep /\ Announced' = Announced
    BY <1>1, <1>3, <2>1, EmbeddingSays DEF Over
  <2>4. emb'.live /\ emb'.accepting = emb.accepting /\ emb'.done = emb.done
        /\ emb'.failed = emb.failed /\ emb'.total = emb.total + Chunks
        /\ emb'.inFlight = emb.inFlight + 1
    BY <1>1, <1>3, <2>1 DEF EmbType
  <2> HIDE DEF b
  <2>5. /\ Started' = Started \cup {p} /\ Working' = Working \cup {p} /\ p \in Busy
        /\ \A l \in Leads : l \in Waiting' <=> IF l[1] = p THEN 0 <= l[2] ELSE l \in Waiting
    <3>1. /\ Started' = (IF b.pc # "task" THEN Started \cup {p} ELSE Started \ {p})
          /\ Working' = (IF b.pc \in InHand THEN Working \cup {p} ELSE Working \ {p})
          /\ p \in Busy
          /\ \A l \in Leads : l \in Waiting' <=>
                IF l[1] = p THEN b.pc \in InHand /\ b.chunk <= l[2] ELSE l \in Waiting
      BY <1>1, <1>3, <2>1, <2>2, <2>3, <2>4, BatchMoved
    <3> QED
      BY <2>2, <3>1
  <2>6. p \notin Started /\ p \notin Working
    BY <1>1 DEF Started, Working
  <2>7. /\ Cardinality(Started') = Cardinality(Started) + 1
        /\ Cardinality(Working') = Cardinality(Working) + 1
    BY <2>5, <2>6, FiniteParts, FS_AddElement
  <2> DEFINE new == {p} \X (0..(Chunks - 1))
  <2>8. Waiting' = Waiting \cup new /\ Waiting \cap new = {}
    <3>1. new \subseteq Leads /\ \A l \in new : l[1] = p /\ 0 <= l[2]
      BY Sizes DEF Leads
    <3>2. \A l \in Leads : l[1] = p => l \in new
      BY DEF Leads
    <3>3. Waiting \subseteq Leads /\ \A l \in Waiting : l[1] # p
      BY <2>6 DEF Waiting
    <3>4. Waiting' \subseteq Leads
      BY DEF Waiting, Leads, PageNumbers
    <3> HIDE DEF new
    <3> QED
      BY <2>5, <3>1, <3>2, <3>3, <3>4
  <2>9. IsFiniteSet(new) /\ Cardinality(new) = Chunks
    <3>1. IsFiniteSet({p}) /\ Cardinality({p}) = 1
      BY FS_Singleton
    <3>2. IsFiniteSet(new) /\ Cardinality(new) = 1 * Chunks
      BY ZenonT(60), <3>1, FiniteParts, FS_Product
    <3> QED
      BY <3>2, Sizes
  <2>10. Cardinality(Waiting') = Cardinality(Waiting) + Chunks
    <3> HIDE DEF new
    <3>1. Cardinality(Waiting \cup new)
             = Cardinality(Waiting) + Cardinality(new) - Cardinality(Waiting \cap new)
      BY <2>9, FiniteParts, FS_Union
    <3>2. Cardinality(Waiting \cap new) = 0
      BY <2>8, FS_EmptySet
    <3> QED
      BY <2>8, <2>9, <3>1, <3>2, FiniteParts, Sizes
  <2>11. Cardinality(Working') <= Concurrency
    <3>1. Working' \in SUBSET Busy
      BY <2>5 DEF Working, Busy
    <3>2. Cardinality(Working') <= Cardinality(Busy)
      BY <3>1, FiniteParts, FS_Subset
    <3> QED
      BY <3>2, FiniteParts, FinitePartsLater, Sizes DEF LeadsInv, CountOK
  <2>12. /\ emb.total = Chunks * Cardinality(Started)
         /\ emb.done + emb.failed + Cardinality(Waiting) = emb.total
         /\ emb.inFlight = Cardinality(Working)
    BY <1>3 DEF LeadsInv, CountOK
  <2>13. emb'.total = Chunks * Cardinality(Started')
    <3>1. Chunks * (Cardinality(Started) + 1) = Chunks * Cardinality(Started) + Chunks
      BY OneMore, FiniteParts, Sizes
    <3> QED
      BY <2>4, <2>7, <2>12, <3>1
  <2>14. emb'.done + emb'.failed + Cardinality(Waiting') = emb'.total
    <3>1. emb.done \in Nat /\ emb.failed \in Nat /\ emb.total \in Nat
      BY <1>1 DEF EmbType
    <3> QED
      BY SMTT(60), <2>4, <2>10, <2>12, <3>1, FiniteParts, Sizes
  <2>15. emb'.inFlight = Cardinality(Working')
    BY <2>4, <2>7, <2>12
  <2>16. emb' \in EmbType
    <3>1. emb'.inFlight \in 0..Concurrency
      BY <2>11, <2>15, FinitePartsLater, Sizes
    <3>2. emb' = [emb EXCEPT !.total = emb.total + Chunks, !.inFlight = emb'.inFlight]
      BY <1>1, <2>1, <2>4 DEF EmbType
    <3>3. emb.total + Chunks \in Nat
      BY <1>1, Sizes DEF EmbType
    <3> QED
      BY <1>1, <3>1, <3>2, <3>3 DEF EmbType
  <2> QED
    BY <1>1, <1>3, <2>1, <2>2, <2>4, <2>13, <2>14, <2>15, <2>16, LiveBatch
<1> QED
  BY <1>2, <1>3

LEMMA EmbeddedKeeps ==
    ASSUME LeadsInv, NEW p \in PageNumbers, NEW ok \in BOOLEAN, Embedded(p, ok), controls' = controls
    PROVE  LeadsInv' /\ LogStep
<1>1. /\ batch[p].pc = "embedding" /\ batch[p].pc \in InWork /\ batch[p].pc # "none"
      /\ UNCHANGED <<job, walk, queue, consumer>>
      /\ batch \in [PageNumbers -> BatchType] /\ emb \in EmbType /\ batch[p] \in BatchType
  BY Typed DEF Embedded, ingestVars, InWork, LeadsInv
<1>2. CASE ~emb.live
  BY <1>1, <1>2, DeadBatch DEF Embedded
<1>3. CASE emb.live
  <2> DEFINE c == batch[p].chunk
             more == c + 1 < Chunks
             b == IF more THEN [pc |-> IF emb.paused THEN "held" ELSE "embedding", chunk |-> c + 1]
                  ELSE [batch[p] EXCEPT !.pc = "over"]
             type == IF ok THEN "progress" ELSE "item_error"
             counted == Counted(emb, ok)
  <2>1. /\ emb' = [counted EXCEPT !.inFlight = IF more THEN @ ELSE @ - 1]
        /\ batch' = IF more THEN AtChunk(p, c + 1) ELSE Done(p)
        /\ Publish("embedding", <<Note(type)>>)
    BY <1>3 DEF Embedded
  <2>2. c \in 0..(Chunks - 1) /\ c \in Nat
    BY <1>1, Sizes DEF BatchType
  <2>3. batch' = [batch EXCEPT ![p] = b]
    BY <2>1 DEF AtChunk, Done
  <2>4. /\ b \in BatchType /\ b.pc # "none" /\ b.pc # "task"
        /\ b.pc \in InHand <=> more
        /\ more => b.chunk = c + 1
    BY <1>1, <2>2, Sizes DEF BatchType, InHand
  <2>5. /\ counted \in EmbType /\ counted.live /\ counted.accepting = emb.accepting
        /\ counted.total = emb.total /\ counted.inFlight = emb.inFlight
        /\ counted.done + counted.failed = emb.done + emb.failed + 1
    <3>1. CASE ok
      BY <1>1, <1>3, <3>1 DEF Counted, EmbType
    <3>2. CASE ~ok
      BY <1>1, <1>3, <3>2 DEF Counted, EmbType
    <3> QED
      BY <3>1, <3>2
  <2> HIDE DEF counted
  <2>6. /\ emb'.live /\ emb'.accepting = emb.accepting /\ emb'.total = emb.total
        /\ emb'.done + emb'.failed = emb.done + emb.failed + 1
        /\ emb'.inFlight = IF more THEN emb.inFlight ELSE emb.inFlight - 1
    BY <2>1, <2>5 DEF EmbType
  <2> HIDE DEF b, type, more
  <2>7. type \in {"progress", "item_error"} /\ type # "complete"
    BY DEF type
  <2>8. LogStep /\ Announced' = Announced
    BY <1>1, <1>3, <2>1, <2>7, EmbeddingSays DEF Over
  <2>9. /\ Started' = Started \cup {p}
        /\ Working' = IF more THEN Working \cup {p} ELSE Working \ {p}
        /\ p \in Busy
        /\ \A l \in Leads : l \in Waiting' <=>
              IF l[1] = p THEN b.pc \in InHand /\ b.chunk <= l[2] ELSE l \in Waiting
    BY <1>1, <1>3, <2>3, <2>4, <2>6, <2>8, BatchMoved
  <2>10. p \in Started /\ p \in Working
    BY <1>1 DEF Started, Working
  <2>11. /\ Started' = Started
         /\ Cardinality(Working') = IF more THEN Cardinality(Working) ELSE Cardinality(Working) - 1
    <3>1. Working \cup {p} = Working /\ Started \cup {p} = Started
      BY <2>10
    <3>2. Cardinality(Working \ {p}) = Cardinality(Working) - 1
      BY <2>10, FiniteParts, FS_RemoveElement
    <3> QED
      BY <2>9, <3>1, <3>2
  <2> DEFINE lead == <<p, c>>
  <2>12. Waiting' = Waiting \ {lead} /\ lead \in Waiting
    <3>1. lead \in Leads /\ lead \in Waiting /\ lead[1] = p /\ lead[2] = c
      BY <1>1, <2>2, <2>10 DEF Leads, Waiting
    <3>2. \A l \in Leads : l[1] = p => (l \in Waiting <=> c <= l[2])
      BY <2>10 DEF Waiting
    <3>3. \A l \in Leads : l[1] = p /\ l[2] = c => l = lead
      BY DEF Leads
    <3>4. \A l \in Leads : l[2] \in 0..(Chunks - 1)
      BY DEF Leads
    <3>5. Waiting \subseteq Leads /\ Waiting' \subseteq Leads
      BY DEF Waiting, Leads, PageNumbers
    <3> HIDE DEF lead, c
    <3>6. \A l \in Leads : l[1] = p => (l \in Waiting' <=> c + 1 <= l[2])
      <4>1. CASE more
        BY <2>4, <2>9, <4>1
      <4>2. CASE ~more
        <5>1. c + 1 >= Chunks
          BY <2>2, <4>2, Sizes DEF more
        <5> QED
          BY <2>2, <2>4, <2>9, <3>4, <4>2, <5>1, Sizes
      <4> QED
        BY <4>1, <4>2
    <3>7. \A l \in Leads : l \in Waiting' <=> l \in Waiting /\ l # lead
      <4> TAKE l \in Leads
      <4>1. CASE l[1] = p
        <5>1. l[2] \in Nat
          BY <3>4, Sizes
        <5>2. l = lead <=> l[2] = c
          BY <3>1, <3>3, <4>1
        <5>3. c + 1 <= l[2] <=> c <= l[2] /\ l[2] # c
          BY <2>2, <5>1
        <5> QED
          BY <3>2, <3>6, <4>1, <5>2, <5>3
      <4>2. CASE l[1] # p
        BY <2>9, <3>1, <4>2
      <4> QED
        BY <4>1, <4>2
    <3> QED
      BY <3>1, <3>5, <3>7
  <2>13. Cardinality(Waiting') = Cardinality(Waiting) - 1
    <3> HIDE DEF lead
    <3> QED
      BY <2>12, FiniteParts, FS_RemoveElement
  <2>14. /\ emb.total = Chunks * Cardinality(Started)
         /\ emb.done + emb.failed + Cardinality(Waiting) = emb.total
         /\ emb.inFlight = Cardinality(Working)
    BY <1>3 DEF LeadsInv, CountOK
  <2>15. emb'.total = Chunks * Cardinality(Started')
    BY <2>6, <2>11, <2>14
  <2>16. emb'.done + emb'.failed + Cardinality(Waiting') = emb'.total
    <3>1. emb.done \in Nat /\ emb.failed \in Nat /\ emb.total \in Nat
      BY <1>1 DEF EmbType
    <3> QED
      BY SMTT(60), <2>6, <2>13, <2>14, <3>1, FiniteParts, Sizes
  <2>17. emb'.inFlight = Cardinality(Working')
    BY <2>6, <2>11, <2>14
  <2>18. emb' \in EmbType
    <3>1. emb'.inFlight \in 0..Concurrency
      <4>1. emb'.inFlight \in Nat
        BY <2>17, FinitePartsLater
      <4>2. emb.inFlight \in 0..Concurrency
        BY <1>1 DEF EmbType
      <4> QED
        BY <2>6, <4>1, <4>2, Sizes
    <3>2. counted.inFlight = emb.inFlight
      BY <2>5
    <3>3. emb' = [counted EXCEPT !.inFlight = emb'.inFlight]
      BY <2>1, <2>5, <2>6 DEF EmbType
    <3> QED
      BY <2>5, <3>1, <3>3 DEF EmbType
  <2> QED
    BY <1>1, <1>3, <2>1, <2>3, <2>4, <2>6, <2>7, <2>15, <2>16, <2>17, <2>18, LiveBatch
<1> QED
  BY <1>2, <1>3

LEMMA ElementOf ==
    ASSUME NEW S, NEW q \in Seq(S), NEW i \in DOMAIN q
    PROVE  q[i] \in S
OBVIOUS

LEMMA TakeKeeps ==
    ASSUME LeadsInv, TakeBatch, controls' = controls
    PROVE  LeadsInv' /\ LogStep
<1>1. /\ consumer = "taking" /\ Cardinality(Busy) < Concurrency /\ queue # << >>
      /\ queue' = Tail(queue) /\ UNCHANGED <<job, log, dropped, emb, walk>>
      /\ batch \in [PageNumbers -> BatchType] /\ queue \in Seq(0..Pages)
  BY Typed DEF TakeBatch, SlotFree, LeadsInv
<1>2. emb' = emb /\ job' = job /\ walk' = walk
  BY <1>1
<1>3. LogStep /\ Announced' = Announced
  BY <1>1, LogsStay, Typed DEF LeadsInv, Over
<1>4. emb.accepting
  BY <1>1 DEF LeadsInv, CountOK
<1> DEFINE p == Head(queue)
<1>5. /\ Len(queue) \in Nat /\ Len(queue) >= 1 /\ p = queue[1] /\ 1 \in DOMAIN queue
      /\ DOMAIN queue = 1..Len(queue)
      /\ Len(queue') = Len(queue) - 1 /\ DOMAIN queue' = 1..(Len(queue) - 1)
      /\ \A i \in DOMAIN queue' : queue'[i] = queue[i + 1] /\ i + 1 \in DOMAIN queue
      /\ queue' \in Seq(0..Pages) /\ p \in 0..Pages
  <2>1. Len(queue) \in Nat /\ DOMAIN queue = 1..Len(queue) /\ Len(queue) # 0
    BY <1>1
  <2>2. Len(queue) >= 1 /\ 1 \in DOMAIN queue /\ p = queue[1] /\ p \in 0..Pages
    <3>1. Len(queue) >= 1 /\ 1 \in DOMAIN queue
      BY <2>1
    <3>2. p = queue[1]
      BY <1>1
    <3>3. queue[1] \in 0..Pages
      BY <1>1, <3>1, ElementOf
    <3> QED
      BY <3>1, <3>2, <3>3
  <2>3. queue' \in Seq(0..Pages) /\ Len(queue') = Len(queue) - 1
    BY <1>1
  <2>4. DOMAIN queue' = 1..(Len(queue) - 1)
    BY <2>3
  <2>5. \A i \in 1..(Len(queue) - 1) : queue'[i] = queue[i + 1]
    BY <1>1
  <2> QED
    BY <2>1, <2>2, <2>3, <2>4, <2>5
<1>6. /\ \A i, j \in DOMAIN queue : queue[i] = queue[j] => i = j
      /\ \A i \in DOMAIN queue : queue[i] = Sentinel => i = Len(queue) /\ walk.pc = "over"
      /\ \A i \in DOMAIN queue : queue[i] # Sentinel => batch[queue[i]].pc = "none"
  BY DEF LeadsInv, QueueOK
<1> HIDE DEF p
<1>6a. Len(queue') <= QueuePages
  <2>1. Len(queue) <= QueuePages
    BY DEF LeadsInv, QueueOK
  <2> QED
    BY <1>5, <2>1, Sizes
<1>7. Queued' = Queued \ {p} /\ p \in Queued
  <2>1. \A x \in Queued : x = p \/ x \in Queued'
    <3> SUFFICES ASSUME NEW i \in DOMAIN queue, queue[i] # p PROVE queue[i] \in Queued'
      BY DEF Queued
    <3>1. i - 1 \in DOMAIN queue' /\ queue'[i - 1] = queue[(i - 1) + 1] /\ (i - 1) + 1 = i
      BY <1>5
    <3> QED
      BY <3>1 DEF Queued
  <2>2. \A x \in Queued' : x \in Queued /\ x # p
    <3> SUFFICES ASSUME NEW i \in DOMAIN queue' PROVE queue'[i] \in Queued /\ queue'[i] # p
      BY DEF Queued
    <3>1. i + 1 # 1
      BY <1>5
    <3> QED
      BY <1>5, <1>6, <3>1 DEF Queued
  <2>3. p \in Queued
    BY <1>5 DEF Queued
  <2> QED
    BY <2>1, <2>2, <2>3
<1>8. CASE p = Sentinel
  <2>1. consumer' = "joining" /\ batch' = batch
    BY <1>8 DEF TakeBatch, p
  <2>2. Len(queue) = 1 /\ walk.pc = "over"
    BY <1>5, <1>6, <1>8
  <2>3. queue' = << >>
    BY <1>5, <2>2
  <2>4. /\ Begun' = Begun /\ Working' = Working /\ Started' = Started /\ Waiting' = Waiting
        /\ Busy' = Busy
    BY <2>1 DEF Begun, Working, Started, Waiting, Busy, Leads, PageNumbers
  <2>5. WalkOK'
    BY <1>2, <1>3, <2>2 DEF LeadsInv, WalkOK, Over, Held
  <2>6. QueueOK'
    <3>1. 1..Announced \subseteq Queued \cup Begun => 1..Announced' \subseteq (Queued \cup Begun)'
      BY <1>3, <1>7, <1>8, <2>4, Sizes
    <3>2. \A x \in (Queued \cup Begun)' : x \in Queued \cup Begun
      BY <1>7, <2>4
    <3> QED
      BY <1>2, <1>3, <1>6a, <2>1, <2>2, <2>3, <3>1, <3>2 DEF LeadsInv, QueueOK
  <2>7. CountOK'
    BY <1>2, <1>3, <1>4, <2>1, <2>4 DEF LeadsInv, CountOK
  <2>8. StreamsOK'
    BY <1>2, <1>3, <1>5, <2>1 DEF LeadsInv, LogStep, StreamsOK, LogsTyped, EventType
  <2> QED
    BY <1>3, <2>5, <2>6, <2>7, <2>8 DEF LeadsInv, LogStep
<1>9. CASE p # Sentinel
  <2>0. p \in PageNumbers /\ batch[p].pc = "none" /\ batch[p] \in BatchType
    BY <1>1, <1>5, <1>6, <1>9, Sizes
  <2> DEFINE b == [batch[p] EXCEPT !.pc = IF emb.live THEN "task" ELSE "over"]
  <2>1. consumer' = consumer /\ batch' = [batch EXCEPT ![p] = b]
    BY <1>9 DEF TakeBatch, p
  <2>2. /\ b \in BatchType /\ b.pc # "none" /\ b.pc \notin {"held", "woken", "embedding"}
        /\ emb.live => b.pc = "task"
    BY <2>0 DEF BatchType
  <2> HIDE DEF b
  <2>3. /\ batch' \in [PageNumbers -> BatchType] /\ batch'[p] = b
        /\ \A x \in PageNumbers : x # p => batch'[x] = batch[x]
    BY <1>1, <2>0, <2>1, <2>2
  <2>4. Begun' = Begun \cup {p} /\ p \notin Begun
    BY <2>0, <2>2, <2>3 DEF Begun
  <2>5. Working' = Working
    BY <2>0, <2>2, <2>3 DEF Working
  <2>6. emb.live => Started' = Started
    BY <2>0, <2>2, <2>3 DEF Started
  <2>7. Waiting' = Waiting
    <3>1. Leads' = Leads /\ \A l \in Leads : l[1] \in PageNumbers
      BY DEF Leads, PageNumbers
    <3>2. p \notin Working
      BY <2>0 DEF Working
    <3>3. \A l \in Leads : l[1] \in Working => batch'[l[1]].chunk = batch[l[1]].chunk
      BY <2>3, <3>1, <3>2
    <3> QED
      BY <2>5, <3>1, <3>3 DEF Waiting
  <2>8. Busy' \subseteq Busy \cup {p}
    BY <2>3 DEF Busy
  <2>9. Cardinality(Busy') <= Concurrency
    <3>1. /\ IsFiniteSet(Busy \cup {p})
          /\ Cardinality(Busy \cup {p}) <= Cardinality(Busy) + 1
      <4>1. /\ IsFiniteSet(Busy) /\ Cardinality(Busy) \in Nat
        BY FiniteParts
      <4>2. /\ IsFiniteSet(Busy \cup {p})
            /\ Cardinality(Busy \cup {p}) = IF p \in Busy THEN Cardinality(Busy)
                                           ELSE Cardinality(Busy) + 1
        BY <4>1, FS_AddElement
      <4> QED
        BY <4>1, <4>2
    <3>2. Busy' \in SUBSET (Busy \cup {p})
      BY <2>8
    <3>3. Cardinality(Busy') <= Cardinality(Busy \cup {p})
      BY <3>1, <3>2, FS_Subset
    <3>4. Cardinality(Busy \cup {p}) \in Nat
      BY <3>1, FS_CardinalityType
    <3> QED
      BY <1>1, <3>1, <3>3, <3>4, FiniteParts, FinitePartsLater, Sizes
  <2>10. (Queued \cup Begun)' = Queued \cup Begun
    BY <1>7, <2>4
  <2>11. WalkOK'
    BY <1>2, <1>3, <2>10 DEF LeadsInv, WalkOK, Over
  <2>12. QueueOK'
    <3>1. \A i \in DOMAIN queue' : queue'[i] = Sentinel => i = Len(queue') /\ walk'.pc = "over"
      BY <1>2, <1>5, <1>6
    <3>2. \A i \in DOMAIN queue' : queue'[i] # Sentinel => batch'[queue'[i]].pc = "none"
      <4> SUFFICES ASSUME NEW i \in DOMAIN queue', queue'[i] # Sentinel
                   PROVE  batch'[queue'[i]].pc = "none"
        OBVIOUS
      <4>1. queue'[i] = queue[i + 1] /\ i + 1 \in DOMAIN queue /\ i + 1 # 1
        BY <1>5
      <4>2. queue[i + 1] # p /\ batch[queue[i + 1]].pc = "none"
        BY <1>5, <1>6, <4>1
      <4>3. queue[i + 1] \in PageNumbers
        BY <1>1, <4>1, Sizes
      <4> QED
        BY <2>3, <4>1, <4>2, <4>3
    <3>3. \A i, j \in DOMAIN queue' : queue'[i] = queue'[j] => i = j
      <4> SUFFICES ASSUME NEW i \in DOMAIN queue', NEW j \in DOMAIN queue', queue'[i] = queue'[j]
                   PROVE  i = j
        OBVIOUS
      <4>1. i + 1 = j + 1
        BY <1>5, <1>6
      <4> QED
        BY <1>5, <4>1
    <3> QED
      BY <1>1, <1>2, <1>3, <1>6a, <2>1, <2>10, <3>1, <3>2, <3>3 DEF LeadsInv, QueueOK
  <2>13. CountOK'
    BY <1>2, <1>3, <1>4, <2>5, <2>6, <2>7, <2>9 DEF LeadsInv, CountOK
  <2>14. StreamsOK'
    BY <1>2, <1>3, <1>5, <2>1, <2>3 DEF LeadsInv, LogStep, StreamsOK, LogsTyped, EventType, BatchType
  <2> QED
    BY <1>3, <2>11, <2>12, <2>13, <2>14 DEF LeadsInv, LogStep
<1> QED
  BY <1>8, <1>9

LEMMA WakeKeeps ==
    ASSUME LeadsInv, NEW p \in PageNumbers, WakeBatch(p), controls' = controls
    PROVE  LeadsInv' /\ LogStep
<1>1. /\ batch[p].pc = "woken" /\ batch[p].pc \in InWork
      /\ UNCHANGED <<job, log, dropped, emb, walk, queue, consumer>>
      /\ batch \in [PageNumbers -> BatchType] /\ queue \in Seq(0..Pages)
      /\ batch' = IF emb.live THEN [batch EXCEPT ![p].pc = "embedding"] ELSE Done(p)
  BY Typed DEF WakeBatch, ingestVars, InWork, LeadsInv
<1>2. CASE ~emb.live
  BY <1>1, <1>2, DeadBatch
<1>3. CASE emb.live
  <2>1. batch' = [batch EXCEPT ![p].pc = "embedding"]
    BY <1>1, <1>3
  <2>2. /\ batch' \in [PageNumbers -> BatchType]
        /\ \A x \in PageNumbers : SameWork(batch[x], batch'[x])
    BY SMTT(60), <1>1, <2>1 DEF BatchType, SameWork, InHand
  <2>3. LogStep /\ Announced' = Announced
    BY <1>1, LogsStay, Typed DEF LeadsInv, Over
  <2>4. SameWalk /\ SameJobs /\ SameCounts
    BY <1>1 DEF SameWalk, SameJobs, SameCounts
  <2>5. WalkOK' /\ QueueOK' /\ CountOK'
    BY <1>1, <2>2, <2>3, <2>4, Quiet DEF LeadsInv
  <2>6. StreamsOK'
    BY <1>1, <2>2, <2>3 DEF LeadsInv, LogStep, StreamsOK, LogsTyped, EventType, BatchType
  <2> QED
    BY <2>3, <2>5, <2>6 DEF LeadsInv, LogStep
<1> QED
  BY <1>2, <1>3

\* The embedding is no longer live, and says so.
LEMMA EndKeeps ==
    ASSUME LeadsInv, emb.live, Publish("embedding", <<Note("complete")>>),
           job' = Finished("embedding", "complete"), emb' \in EmbType, ~emb'.live,
           emb'.done = emb.done, emb'.failed = emb.failed, emb'.total = emb.total,
           UNCHANGED <<walk, queue>>, controls' \in 0..MaxControls,
           batch' \in [PageNumbers -> BatchType],
           \A p \in PageNumbers : SameWork(batch[p], batch'[p]),
           consumer' = consumer \/ (consumer = "joining" /\ consumer' = "over" /\ Busy = {}),
           emb'.accepting \/ (consumer' = "over" /\ emb.done + emb.failed = emb.total
                                /\ (~job["ingest"].cancelled => emb.total = Chunks * Announced))
    PROVE  LeadsInv' /\ LogStep
<1>1. ~job["embedding"].gone
  BY DEF LeadsInv, QueueOK
<1>2. job' = [job EXCEPT !["embedding"].status = "complete"]
  BY <1>1 DEF Finished
<1>3. "complete" \in {"pending", "running", "complete", "error"} /\ "embedding" \in Streams
      /\ "ingest" \in Streams /\ "ingest" # "embedding"
  BY Sizes
<1>4. /\ job' \in [Streams -> JobType] /\ job'["embedding"].status = "complete"
      /\ \A t \in Streams : t # "embedding" => job'[t] = job[t]
  BY <1>2, <1>3, StatusSet DEF LeadsInv
<1>5. job'["ingest"] = job["ingest"]
  BY <1>3, <1>4
<1>6. /\ Over("embedding")' /\ (Over("ingest")' <=> Over("ingest"))
      /\ \A t \in Streams : Over(t) => Over(t)'
  BY <1>4, <1>5 DEF Over, Ends, Streams
<1>7. LogStep /\ Announced' = Announced
  <2>1. "complete" \in {"progress", "item_error", "complete", "paused", "resumed"}
    OBVIOUS
  <2> QED
    BY <1>6, <2>1, EmbeddingSays
<1>8. /\ Begun' = Begun /\ Working' = Working /\ Started' = Started /\ Waiting' = Waiting
      /\ Busy' = Busy
  BY SameBatches
<1>9. queue' = queue /\ walk' = walk /\ Queued' = Queued
  BY DEF Queued
<1>10. WalkOK'
  BY <1>5, <1>6, <1>7, <1>8, <1>9 DEF LeadsInv, WalkOK
<1>11. QueueOK'
  <2>1. \A i \in DOMAIN queue' : queue'[i] # Sentinel => batch'[queue'[i]].pc = "none"
    <3> SUFFICES ASSUME NEW i \in DOMAIN queue, queue[i] # Sentinel
                 PROVE  batch'[queue[i]].pc = "none"
      BY <1>9
    <3>1. queue \in Seq(0..Pages) /\ batch[queue[i]].pc = "none"
      BY DEF LeadsInv, StreamsOK, QueueOK
    <3>2. queue[i] \in PageNumbers
      BY <3>1, Sizes
    <3>3. SameWork(batch[queue[i]], batch'[queue[i]])
      BY <3>2
    <3> QED
      BY <3>1, <3>3 DEF SameWork, InHand
  <2>2. /\ consumer' # "taking" => walk'.pc = "over" /\ queue' = << >>
        /\ consumer' = "over" => Busy' = {}
    BY <1>8, <1>9 DEF LeadsInv, QueueOK
  <2>3. /\ emb'.live <=> job'["embedding"].status = "running"
        /\ emb'.live => ~job'["embedding"].gone /\ emb'.accepting
    BY <1>4
  <2>4. /\ \A i \in DOMAIN queue' : queue'[i] = Sentinel => i = Len(queue') /\ walk'.pc = "over"
        /\ \A i, j \in DOMAIN queue' : queue'[i] = queue'[j] => i = j
        /\ \A p \in (Queued \cup Begun)' : p <= Announced'
        /\ Len(queue') <= QueuePages
    BY <1>7, <1>8, <1>9 DEF LeadsInv, QueueOK
  <2> QED
    BY <2>1, <2>2, <2>3, <2>4 DEF QueueOK
<1>12. CountOK'
  BY <1>5, <1>7, <1>8 DEF LeadsInv, CountOK
<1>13. StreamsOK'
  BY <1>4, <1>7, <1>9 DEF LeadsInv, LogStep, StreamsOK, LogsTyped, EventType, BatchType, EmbType, JobType
<1> QED
  BY <1>7, <1>10, <1>11, <1>12, <1>13 DEF LeadsInv, LogStep

LEMMA JoinKeeps ==
    ASSUME LeadsInv, Join, controls' = controls
    PROVE  LeadsInv' /\ LogStep
<1>1. /\ consumer = "joining" /\ Busy = {} /\ consumer' = "over"
      /\ UNCHANGED <<walk, queue, batch>> /\ emb \in EmbType /\ controls' \in 0..MaxControls
      /\ batch \in [PageNumbers -> BatchType]
  BY Typed DEF Join, LeadsInv
<1>2. \A p \in PageNumbers : SameWork(batch[p], batch'[p])
  BY <1>1 DEF SameWork
<1>3. walk.pc = "over" /\ queue = << >> /\ emb.accepting
  BY <1>1 DEF LeadsInv, QueueOK, CountOK
<1>4. CASE emb.live
  <2> DEFINE e == [emb EXCEPT !.accepting = FALSE]
  <2>1. Settle(e)
    BY <1>4 DEF Join
  <2>2. Working = {} /\ Waiting = {}
    BY <1>1 DEF Busy, Working, Waiting
  <2>3. Cardinality(Working) = 0 /\ Cardinality(Waiting) = 0
    BY <2>2, FS_EmptySet
  <2>4. /\ emb.inFlight = 0 /\ emb.done + emb.failed = emb.total
        /\ emb.total = Chunks * Cardinality(Started)
    <3>1. /\ emb.inFlight = Cardinality(Working)
          /\ emb.done + emb.failed + Cardinality(Waiting) = emb.total
          /\ emb.total = Chunks * Cardinality(Started)
      BY <1>4 DEF LeadsInv, CountOK
    <3>2. emb.done + emb.failed \in Nat
      BY <1>1 DEF EmbType
    <3> QED
      BY <2>3, <3>1, <3>2
  <2>5. ~e.accepting /\ e.inFlight = 0
    BY <1>1, <2>4 DEF EmbType
  <2>6. /\ emb' = [e EXCEPT !.live = FALSE]
        /\ Publish("embedding", <<Note("complete")>>)
        /\ job' = Finished("embedding", "complete")
    BY <2>1, <2>5 DEF Settle
  <2>7. /\ emb' \in EmbType /\ ~emb'.live /\ emb'.done = emb.done /\ emb'.failed = emb.failed
        /\ emb'.total = emb.total
    BY <1>1, <2>6 DEF EmbType
  <2>8. ~job["ingest"].cancelled => Cardinality(Started) = Announced
    <3> SUFFICES ASSUME ~job["ingest"].cancelled PROVE Cardinality(Started) = Announced
      OBVIOUS
    <3>1. Started = Begun
      BY <1>1 DEF Started, Begun, Busy
    <3>2. Queued = {}
      BY <1>3 DEF Queued
    <3>3. Announced \in Nat
      BY AnnouncedIsNat, Typed DEF LeadsInv
    <3>4. Begun = 1..Announced
      <4>1. 1..Announced \subseteq Begun
        BY <1>4, <3>2 DEF LeadsInv, QueueOK
      <4>2. \A p \in Begun : p \in 1..Announced
        <5> TAKE p \in Begun
        <5>1. p \in Nat /\ p >= 1
          BY Sizes DEF Begun
        <5>2. p <= Announced
          BY DEF LeadsInv, QueueOK
        <5> QED
          BY <3>3, <5>1, <5>2
      <4> QED
        BY <4>1, <4>2
    <3> QED
      BY <3>1, <3>3, <3>4, FS_Interval
  <2> HIDE DEF e
  <2> QED
    BY <1>1, <1>2, <1>4, <2>4, <2>6, <2>7, <2>8, EndKeeps
<1>5. CASE ~emb.live
  <2>1. UNCHANGED <<emb, job, log, dropped>>
    BY <1>5 DEF Join
  <2>2. LogStep /\ Announced' = Announced
    BY <2>1, LogsStay, Typed DEF LeadsInv, Over
  <2>3. /\ Begun' = Begun /\ Working' = Working /\ Started' = Started /\ Waiting' = Waiting
        /\ Busy' = Busy
    BY <1>2, SameBatches
  <2>4. WalkOK'
    BY <1>1, <2>1, <2>2, <2>3 DEF LeadsInv, WalkOK, Over, Queued
  <2>5. QueueOK'
    BY <1>1, <1>3, <2>1, <2>2, <2>3 DEF LeadsInv, QueueOK, Queued
  <2>6. CountOK'
    BY <1>1, <1>3, <2>1, <2>2, <2>3 DEF LeadsInv, CountOK
  <2>7. StreamsOK'
    BY <1>1, <2>1, <2>2 DEF LeadsInv, LogStep, StreamsOK, LogsTyped, EventType
  <2> QED
    BY <2>2, <2>4, <2>5, <2>6, <2>7 DEF LeadsInv, LogStep
<1> QED
  BY <1>4, <1>5

LEMMA EmbeddingKeeps ==
    ASSUME LeadsInv, Embedding
    PROVE  LeadsInv' /\ LogStep
<1>1. controls' = controls
  BY DEF Embedding
<1> QED
  BY <1>1, TakeKeeps, JoinKeeps, StartKeeps, WakeKeeps, EmbeddedKeeps DEF Embedding

-----------------------------------------------------------------------------
(***************************************************************************)
(* Controls and timers.                                                    *)
(***************************************************************************)
\* Nothing moves but flags, readers and held chunks.
LEMMA FlagsKeep ==
    ASSUME LeadsInv, UNCHANGED <<log, dropped, queue, consumer>>, SameWalk, SameJobs, SameCounts,
           walk' \in WalkType, job' \in [Streams -> JobType], emb' \in EmbType,
           batch' \in [PageNumbers -> BatchType], controls' \in 0..MaxControls,
           \A p \in PageNumbers : SameWork(batch[p], batch'[p])
    PROVE  LeadsInv' /\ LogStep
<1>1. \A s \in Streams : Over(s) => Over(s)'
  BY DEF SameJobs, Over
<1>2. LogStep /\ Announced' = Announced
  BY <1>1, LogsStay, Typed DEF LeadsInv
<1>3. queue \in Seq(0..Pages) /\ queue' = queue /\ consumer' = consumer
  BY DEF LeadsInv, StreamsOK
<1>4. WalkOK' /\ QueueOK' /\ CountOK'
  BY <1>2, <1>3, Quiet DEF LeadsInv
<1>5. StreamsOK'
  BY <1>2, <1>3 DEF LeadsInv, LogStep, StreamsOK, LogsTyped, EventType, BatchType, EmbType, JobType, WalkType
<1> QED
  BY <1>2, <1>4, <1>5 DEF LeadsInv, LogStep

LEMMA IngestSays ==
    ASSUME LeadsInv, job["ingest"].status \notin Ends, ~job["ingest"].gone,
           NEW type \in {"throttled", "paused", "resumed"},
           Publish("ingest", <<Note(type)>>), \A t \in Streams : Over(t) => Over(t)'
    PROVE  LogStep /\ Announced' = Announced
<1>1. Note(type) \in EventType /\ Note(type).type = type
  BY Notes DEF Types, Ends, Lossy
<1>2. ~Over("ingest")
  BY DEF Over
<1> DEFINE e == Note(type)
           events == <<e>>
<1>3. /\ events \in Seq(EventType) /\ EndsLast(events)
      /\ events[Len(events)].type = type /\ \A k \in DOMAIN events : events[k].type = type
  <2> HIDE DEF e
  <2> QED
    BY <1>1 DEF EndsLast, e
<1>4. type \notin Ends /\ type # "ids"
  BY DEF Ends
<1>5. Publish("ingest", events)
  OBVIOUS
<1>6. Tells(events, Announced)
  BY <1>3, <1>4 DEF Tells, NoIds
<1> HIDE DEF events
<1> QED
  BY <1>2, <1>3, <1>4, <1>5, <1>6, LogsGrow, Sizes DEF LeadsInv

LEMMA WokenBatches ==
    ASSUME batch \in [PageNumbers -> BatchType]
    PROVE  /\ Woken(batch) \in [PageNumbers -> BatchType]
           /\ \A p \in PageNumbers : SameWork(batch[p], Woken(batch)[p])
<1> SUFFICES ASSUME NEW p \in PageNumbers
             PROVE  Woken(batch)[p] \in BatchType /\ SameWork(batch[p], Woken(batch)[p])
  BY DEF Woken
<1>1. batch[p] \in BatchType
  OBVIOUS
<1>2. Woken(batch)[p] = IF batch[p].pc = "held" THEN [batch[p] EXCEPT !.pc = "woken"] ELSE batch[p]
  BY DEF Woken
<1> QED
  BY <1>1, <1>2 DEF BatchType, SameWork, InHand

LEMMA WokenWalk ==
    ASSUME LeadsInv, walk.pc = "held", walk' = [walk EXCEPT !.pc = "woken"]
    PROVE  walk' \in WalkType /\ SameWalk
<1>1. walk \in WalkType
  BY Typed DEF LeadsInv
<1> QED
  BY <1>1 DEF WalkType, SameWalk, Held

LEMMA ControlKeeps ==
    ASSUME LeadsInv, NEW s \in Streams, NEW action \in Actions, StreamControl(s, action)
    PROVE  LeadsInv' /\ LogStep
<1>1. /\ controls' \in 0..MaxControls /\ job \in [Streams -> JobType] /\ emb \in EmbType
      /\ walk \in WalkType /\ batch \in [PageNumbers -> BatchType]
  BY Typed, Sizes DEF StreamControl, LeadsInv
<1>2. \A p \in PageNumbers : SameWork(batch[p], batch[p])
  BY DEF SameWork
<1>3. CASE ~Active(s)
  <2>1. UNCHANGED <<job, log, dropped, walk, queue, emb, batch, consumer>>
    BY <1>3 DEF StreamControl, ingestVars, embedVars
  <2>2. SameWalk /\ SameJobs /\ SameCounts
    BY <2>1 DEF SameWalk, SameJobs, SameCounts
  <2> QED
    BY <1>1, <1>2, <2>1, <2>2, FlagsKeep
<1>4. CASE Active(s) /\ action = "cancel" /\ s = "ingest"
  <2>1. /\ job' = [job EXCEPT !["ingest"].cancelled = TRUE]
        /\ walk' = IF walk.pc = "held" THEN [walk EXCEPT !.pc = "woken"] ELSE walk
        /\ UNCHANGED <<log, dropped, queue, emb, batch, consumer>>
    BY <1>4 DEF StreamControl, Cancel, CancelIngest, embedVars
  <2>2. job' \in [Streams -> JobType] /\ SameJobs
    BY <1>1, <2>1, Sizes DEF SameJobs, JobType
  <2>3. walk' \in WalkType /\ SameWalk
    BY <1>1, <2>1, WokenWalk DEF SameWalk
  <2>4. SameCounts
    BY <2>1 DEF SameCounts
  <2> QED
    BY <1>1, <1>2, <2>1, <2>2, <2>3, <2>4, FlagsKeep
<1>5. CASE Active(s) /\ action = "cancel" /\ s = "embedding"
  <2>1. /\ emb.live /\ Publish("embedding", <<Note("complete")>>)
        /\ job' = Finished("embedding", "complete")
        /\ emb' = [emb EXCEPT !.live = FALSE] /\ batch' = Woken(batch)
        /\ UNCHANGED <<walk, queue, consumer>>
    BY <1>5 DEF StreamControl, Cancel, CancelEmbedding, Active, ingestVars
  <2>2. /\ emb' \in EmbType /\ ~emb'.live /\ emb'.done = emb.done /\ emb'.failed = emb.failed
        /\ emb'.total = emb.total /\ emb'.accepting = emb.accepting
    BY <1>1, <2>1 DEF EmbType
  <2>3. emb.accepting
    BY <2>1 DEF LeadsInv, QueueOK
  <2>4. batch' \in [PageNumbers -> BatchType] /\ \A p \in PageNumbers : SameWork(batch[p], batch'[p])
    BY <1>1, <2>1, WokenBatches
  <2> QED
    BY <1>1, <2>1, <2>2, <2>3, <2>4, EndKeeps
<1>6. CASE Active(s) /\ action # "cancel"
  <2> DEFINE paused == action = "pause"
             type == IF paused THEN "paused" ELSE "resumed"
  <2>1. SetPaused(s, paused) /\ paused \in BOOLEAN
    BY <1>6 DEF StreamControl
  <2> HIDE DEF paused
  <2>2. Publish(s, <<Note(type)>>) /\ queue' = queue /\ consumer' = consumer
    BY <2>1 DEF SetPaused
  <2>3. type \in {"paused", "resumed"}
    OBVIOUS
  <2> HIDE DEF type
  <2>4. CASE s = "ingest"
    <3>1. /\ job' = [job EXCEPT !["ingest"].paused = paused]
          /\ walk' = IF ~paused /\ walk.pc = "held" THEN [walk EXCEPT !.pc = "woken"] ELSE walk
          /\ UNCHANGED <<emb, batch>>
      BY <2>1, <2>4 DEF SetPaused
    <3>2. job' \in [Streams -> JobType] /\ SameJobs
      BY <1>1, <2>1, <3>1, Sizes DEF SameJobs, JobType
    <3>3. walk' \in WalkType /\ SameWalk
      BY <1>1, <3>1, WokenWalk DEF SameWalk
    <3>4. SameCounts
      BY <3>1 DEF SameCounts
    <3>5. LogStep /\ Announced' = Announced
      <4>1. ~job["ingest"].gone /\ job["ingest"].status \notin Ends
        BY <1>6, <2>4 DEF Active, Over
      <4>2. \A t \in Streams : Over(t) => Over(t)'
        BY <3>2 DEF SameJobs, Over
      <4> QED
        BY <2>2, <2>3, <2>4, <4>1, <4>2, IngestSays
    <3>6. queue \in Seq(0..Pages)
      BY DEF LeadsInv, StreamsOK
    <3>7. WalkOK' /\ QueueOK' /\ CountOK'
      BY <1>2, <2>2, <3>1, <3>2, <3>3, <3>4, <3>5, <3>6, Quiet DEF LeadsInv
    <3>8. StreamsOK'
      BY <1>1, <2>2, <3>1, <3>2, <3>3, <3>5 DEF LeadsInv, LogStep, StreamsOK, LogsTyped, EventType, JobType, WalkType
    <3> QED
      BY <3>5, <3>7, <3>8 DEF LeadsInv, LogStep
  <2>5. CASE s = "embedding"
    <3>1. /\ emb' = [emb EXCEPT !.paused = paused]
          /\ batch' = IF paused THEN batch ELSE Woken(batch)
          /\ UNCHANGED <<job, walk>> /\ emb.live
      BY <1>6, <2>1, <2>5 DEF SetPaused, Active
    <3>2. emb' \in EmbType /\ SameCounts
      BY <1>1, <2>1, <3>1 DEF SameCounts, EmbType
    <3>3. batch' \in [PageNumbers -> BatchType] /\ \A p \in PageNumbers : SameWork(batch[p], batch'[p])
      BY <1>1, <1>2, <3>1, WokenBatches
    <3>4. SameWalk /\ SameJobs
      BY <3>1 DEF SameWalk, SameJobs
    <3>5. LogStep /\ Announced' = Announced
      <4>1. \A t \in Streams : Over(t) => Over(t)'
        BY <3>4 DEF SameJobs, Over
      <4>2. type \in {"progress", "item_error", "complete", "paused", "resumed"} /\ type # "complete"
        BY <2>3
      <4> QED
        BY <2>2, <2>5, <3>1, <4>1, <4>2, EmbeddingSays
    <3>6. queue \in Seq(0..Pages)
      BY DEF LeadsInv, StreamsOK
    <3>7. WalkOK' /\ QueueOK' /\ CountOK'
      BY <2>2, <3>2, <3>3, <3>4, <3>5, <3>6, Quiet DEF LeadsInv
    <3>8. StreamsOK'
      BY <1>1, <2>2, <3>1, <3>2, <3>3, <3>5 DEF LeadsInv, LogStep, StreamsOK, LogsTyped, EventType, EmbType, BatchType
    <3> QED
      BY <3>5, <3>7, <3>8 DEF LeadsInv, LogStep
  <2> QED
    BY <2>4, <2>5, Sizes
<1> QED
  BY <1>3, <1>4, <1>5, <1>6, Sizes

LEMMA TimersKeep ==
    ASSUME LeadsInv, Timers
    PROVE  LeadsInv' /\ LogStep
<1>1. /\ controls' = controls /\ job \in [Streams -> JobType] /\ emb \in EmbType
      /\ walk \in WalkType /\ batch \in [PageNumbers -> BatchType] /\ controls \in 0..MaxControls
  BY Typed DEF Timers, LeadsInv
<1>2. \A p \in PageNumbers : SameWork(batch[p], batch[p])
  BY DEF SameWork
<1>3. CASE Throttle
  <2>1. /\ walk.pc = "throttled" /\ Publish("ingest", <<Note("throttled")>>)
        /\ UNCHANGED <<job, walk, queue, emb, batch, consumer>>
    BY <1>3 DEF Throttle, ingestVars, embedVars
  <2>2. SameWalk /\ SameJobs /\ SameCounts
    BY <2>1 DEF SameWalk, SameJobs, SameCounts
  <2>3. LogStep /\ Announced' = Announced
    <3>1. ~job["ingest"].gone /\ job["ingest"].status \notin Ends
      BY <2>1 DEF LeadsInv, WalkOK, Held, Ends
    <3>2. \A t \in Streams : Over(t) => Over(t)'
      BY <2>1 DEF Over
    <3> QED
      BY <2>1, <3>1, <3>2, IngestSays
  <2>4. queue \in Seq(0..Pages)
    BY DEF LeadsInv, StreamsOK
  <2>5. WalkOK' /\ QueueOK' /\ CountOK'
    BY <1>2, <2>1, <2>2, <2>3, <2>4, Quiet DEF LeadsInv
  <2>6. StreamsOK'
    BY <1>1, <2>1, <2>3 DEF LeadsInv, LogStep, StreamsOK, LogsTyped, EventType
  <2> QED
    BY <2>3, <2>5, <2>6 DEF LeadsInv, LogStep
<1>4. ASSUME NEW s \in Streams, Expire(s)
      PROVE  LeadsInv' /\ LogStep
  <2>1. /\ job[s].status # "running" /\ job' = [job EXCEPT ![s].gone = TRUE]
        /\ UNCHANGED <<log, dropped, walk, queue, emb, batch, consumer>>
    BY <1>4 DEF Expire, Expirable, ingestVars, embedVars
  <2>2. job' \in [Streams -> JobType] /\ SameJobs
    BY ZenonT(60), <1>1, <2>1, Sizes DEF SameJobs, JobType
  <2>3. SameWalk /\ SameCounts
    BY <2>1 DEF SameWalk, SameCounts
  <2> QED
    BY <1>1, <1>2, <2>1, <2>2, <2>3, FlagsKeep
<1> QED
  BY <1>3, <1>4 DEF Timers

-----------------------------------------------------------------------------
(***************************************************************************)
(* The relay of search.                                                    *)
(***************************************************************************)
ShownType == Terminal \cup {"none", "queued", "running", "paused"}

RelayTyped ==
    /\ relay \in [pc : {"starting", "reading", "failed", "over"},
                  ingestDone : BOOLEAN, embeddingDone : BOOLEAN]
    /\ follows \subseteq Streams /\ shown \in [Streams -> ShownType]

LEMMA InvParts ==
    IngestInv <=> LeadsInv /\ RelayTyped /\ ReadOK /\ RepliesOK
BY DEF IngestInv, LeadsInv, TypeOK, RelayTyped, ShownType

\* A step of leads is none of the relay.
LEMMA LeadsStep ==
    ASSUME IngestInv, LeadsInv', LogStep, UNCHANGED <<relayVars, shown>>, RepliesOK'
    PROVE  IngestInv'
<1>1. UNCHANGED <<relay, pos, follows, rows, received, shown>>
  BY DEF relayVars
<1>2. ReadOK'
  <2>1. LogsTyped /\ ReadOK /\ \A s \in Streams : Grows(s)
    BY InvParts, Typed DEF LeadsInv, LogStep
  <2>2. Over("ingest") => Over("ingest")' /\ log'["ingest"] = log["ingest"]
    BY Sizes DEF LogStep
  <2> QED
    BY <1>1, <2>1, <2>2, ReadKept
<1>3. RelayTyped'
  BY <1>1, InvParts DEF RelayTyped
<1>4. IngestInv' <=> LeadsInv' /\ RelayTyped' /\ ReadOK' /\ RepliesOK'
  BY DEF IngestInv, LeadsInv, TypeOK, RelayTyped, ShownType
<1> QED
  BY <1>2, <1>3, <1>4

\* A step of the relay touches leads only by its readers.
LEMMA ReadersKeep ==
    ASSUME IngestInv, UNCHANGED <<log, dropped, ingestVars, embedVars, controls>>,
           job' = job \/ \E n \in [Streams -> 0..1] :
                            job' = [s \in Streams |-> [job[s] EXCEPT !.readers = n[s]]]
    PROVE  LeadsInv' /\ (Over("ingest") => Over("ingest")')
<1>1. LeadsInv /\ job \in [Streams -> JobType] /\ emb \in EmbType
      /\ walk \in WalkType /\ batch \in [PageNumbers -> BatchType] /\ controls \in 0..MaxControls
  BY InvParts, Typed DEF LeadsInv
<1>2. UNCHANGED <<walk, queue, emb, batch, consumer>>
  BY DEF ingestVars, embedVars
<1>3. job' \in [Streams -> JobType] /\ SameJobs
  <2>1. CASE job' = job
    BY <1>1, <2>1 DEF SameJobs
  <2>2. CASE job' # job
    <3>1. PICK n \in [Streams -> 0..1] : job' = [s \in Streams |-> [job[s] EXCEPT !.readers = n[s]]]
      BY <2>2
    <3>2. \A s \in Streams : /\ job'[s] = [job[s] EXCEPT !.readers = n[s]]
                             /\ job[s] \in JobType /\ n[s] \in 0..1
      BY <1>1, <3>1
    <3>3. \A s \in Streams : /\ job'[s] \in JobType /\ job'[s].status = job[s].status
                             /\ job'[s].gone = job[s].gone /\ job'[s].cancelled = job[s].cancelled
      BY <3>2 DEF JobType
    <3>4. job' \in [Streams -> JobType]
      BY <3>1, <3>3
    <3> QED
      BY <3>3, <3>4, Sizes DEF SameJobs
  <2> QED
    BY <2>1, <2>2
<1>4. SameWalk /\ SameCounts /\ \A p \in PageNumbers : SameWork(batch[p], batch'[p])
  BY <1>2 DEF SameWalk, SameCounts, SameWork
<1>5. Over("ingest") => Over("ingest")'
  BY <1>3, Sizes DEF SameJobs, Over
<1> QED
  BY <1>1, <1>2, <1>3, <1>4, <1>5, FlagsKeep

LEMMA ReadStays ==
    ASSUME ReadOK, UNCHANGED <<log, pos, received, rows>>, relay'.ingestDone => relay.ingestDone,
           Over("ingest") => Over("ingest")'
    PROVE  ReadOK'
BY DEF ReadOK

LEMMA SubscribeKeeps ==
    ASSUME IngestInv, Subscribe
    PROVE  IngestInv'
<1> DEFINE there == {s \in Streams : ~job[s].gone}
<1>1. /\ shown' = [s \in Streams |-> IF s \notin there THEN "failed"
                                     ELSE IF s = "ingest" THEN "running" ELSE "queued"]
      /\ UNCHANGED <<log, dropped, ingestVars, embedVars, pos, rows, replies, controls, received>>
  BY DEF Subscribe
<1>2. RelayTyped /\ ReadOK /\ RepliesOK /\ job \in [Streams -> JobType]
  BY InvParts, Typed DEF LeadsInv
<1>3. /\ RelayTyped' /\ relay'.ingestDone = relay.ingestDone
      /\ job' = job \/ \E n \in [Streams -> 0..1] :
                          job' = [s \in Streams |-> [job[s] EXCEPT !.readers = n[s]]]
  <2>1. shown' \in [Streams -> ShownType]
    BY <1>1 DEF ShownType, Terminal
  <2>2. CASE "ingest" \in there
    <3>1. /\ relay' = [relay EXCEPT !.pc = "reading", !.embeddingDone = "embedding" \notin there]
          /\ follows' = there
          /\ job' = [s \in Streams |-> [job[s] EXCEPT !.readers = IF s \in there THEN 1 ELSE 0]]
      BY <2>2 DEF Subscribe
    <3>2. job' = [s \in Streams |->
                    [job[s] EXCEPT !.readers = [t \in Streams |-> IF t \in there THEN 1 ELSE 0][s]]]
      BY <3>1
    <3>3. [t \in Streams |-> IF t \in there THEN 1 ELSE 0] \in [Streams -> 0..1]
      OBVIOUS
    <3>4. relay' \in [pc : {"starting", "reading", "failed", "over"},
                      ingestDone : BOOLEAN, embeddingDone : BOOLEAN]
          /\ relay'.ingestDone = relay.ingestDone /\ follows' \subseteq Streams
      BY <1>2, <3>1 DEF RelayTyped
    <3> QED
      BY <2>1, <3>2, <3>3, <3>4 DEF RelayTyped
  <2>3. CASE "ingest" \notin there
    <3>1. relay' = [relay EXCEPT !.pc = "failed"] /\ UNCHANGED <<follows, job>>
      BY <2>3 DEF Subscribe
    <3> QED
      BY <1>2, <2>1, <3>1 DEF RelayTyped
  <2> QED
    BY <2>2, <2>3
<1>4. LeadsInv'
  BY <1>1, <1>3, ReadersKeep
<1>5. Over("ingest") => Over("ingest")'
  BY <1>1, <1>3, ReadersKeep
<1>6. ReadOK' /\ RepliesOK'
  BY <1>1, <1>2, <1>3, <1>5, ReadStays DEF RepliesOK
<1>7. IngestInv' <=> LeadsInv' /\ RelayTyped' /\ ReadOK' /\ RepliesOK'
  BY DEF IngestInv, LeadsInv, TypeOK, RelayTyped, ShownType
<1> QED
  BY <1>3, <1>4, <1>6, <1>7

LEMMA ReleaseReaders ==
    ASSUME Release
    PROVE  /\ \E n \in [Streams -> 0..1] : job' = [s \in Streams |-> [job[s] EXCEPT !.readers = n[s]]]
           /\ follows' = {}
<1>1. [t \in Streams |-> 0] \in [Streams -> 0..1]
  OBVIOUS
<1>2. job' = [s \in Streams |-> [job[s] EXCEPT !.readers = [t \in Streams |-> 0][s]]]
  BY DEF Release
<1> QED
  BY <1>1, <1>2 DEF Release

LEMMA FailKeeps ==
    ASSUME IngestInv, RelayFails
    PROVE  IngestInv'
<1>1. /\ relay' = [relay EXCEPT !.pc = "failed"] /\ Release
      /\ UNCHANGED <<log, dropped, ingestVars, embedVars, pos, rows, shown, replies, controls, received>>
  BY DEF RelayFails
<1>2. RelayTyped /\ ReadOK /\ RepliesOK /\ job \in [Streams -> JobType]
  BY InvParts, Typed DEF LeadsInv
<1>3. LeadsInv'
  BY <1>1, ReleaseReaders, ReadersKeep
<1>4. Over("ingest") => Over("ingest")'
  BY <1>1, ReleaseReaders, ReadersKeep
<1>5. RelayTyped' /\ relay'.ingestDone = relay.ingestDone
  BY <1>1, <1>2, ReleaseReaders DEF RelayTyped
<1>6. ReadOK' /\ RepliesOK'
  BY <1>1, <1>2, <1>4, <1>5, ReadStays DEF RepliesOK
<1>7. IngestInv' <=> LeadsInv' /\ RelayTyped' /\ ReadOK' /\ RepliesOK'
  BY DEF IngestInv, LeadsInv, TypeOK, RelayTyped, ShownType
<1> QED
  BY <1>3, <1>5, <1>6, <1>7

LEMMA RepublishKeeps ==
    ASSUME IngestInv, NEW reply \in replies, Republish(reply)
    PROVE  IngestInv'
<1>1. /\ replies' = replies \ {reply} /\ shown' = [shown EXCEPT ![reply.stream] = reply.status]
      /\ UNCHANGED <<job, log, dropped, emb, walk, queue, batch, consumer, controls,
                     relay, pos, follows, rows, received>>
  BY DEF Republish, streamVars, relayVars
<1>2. LeadsInv /\ RelayTyped /\ ReadOK /\ RepliesOK
  BY InvParts
<1>3. UNCHANGED <<log, dropped, ingestVars, embedVars, controls>> /\ job' = job
  BY <1>1 DEF ingestVars, embedVars
<1>4. LeadsInv'
  BY <1>3, ReadersKeep
<1>5. reply.stream \in Streams /\ reply.status \in ShownType
  BY <1>2 DEF RepliesOK, ShownType
<1>6. RelayTyped'
  BY <1>1, <1>2, <1>5 DEF RelayTyped
<1>7. ReadOK' /\ RepliesOK'
  BY <1>1, <1>2, ReadStays DEF RepliesOK, Over
<1>8. IngestInv' <=> LeadsInv' /\ RelayTyped' /\ ReadOK' /\ RepliesOK'
  BY DEF IngestInv, LeadsInv, TypeOK, RelayTyped, ShownType
<1> QED
  BY <1>4, <1>6, <1>7, <1>8

LEMMA AnswerTyped ==
    ASSUME RepliesOK, NEW s \in Streams, Answered(s)
    PROVE  RepliesOK'
<1> DEFINE label == Label(s, job', emb')
<1>1. label \in {"running", "paused", "canceled", "complete", "error"}
  BY DEF Label, Ends
<1> HIDE DEF label
<1>2. Status(label) \in ShownType
  BY <1>1 DEF Status, ShownType, Terminal
<1>3. replies' = replies \cup {[stream |-> s, status |-> Status(label)]}
  BY DEF Answered, label
<1> QED
  BY <1>2, <1>3 DEF RepliesOK, ShownType

LEMMA PageAppended ==
    ASSUME NEW got \in Seq(EventType), NEW e \in EventType, NEW pages,
           pages = [i \in 1..Len(got) |-> got[i].page], NEW now, now = Append(got, e)
    PROVE  Append(pages, e.page) = [i \in 1..Len(now) |-> now[i].page]
<1>1. \A i \in 1..Len(got) : got[i].page \in 0..Pages
  <2>1. \A i \in 1..Len(got) : got[i] \in EventType
    OBVIOUS
  <2> QED
    BY <2>1 DEF EventType
<1>2. e.page \in 0..Pages
  BY DEF EventType
<1>3. pages \in Seq(0..Pages) /\ Len(pages) = Len(got) /\ Len(got) \in Nat
  BY <1>1
<1>4. /\ Len(now) = Len(got) + 1 /\ now[Len(got) + 1] = e
      /\ \A i \in 1..Len(got) : now[i] = got[i]
  OBVIOUS
<1> DEFINE l == Append(pages, e.page)
           x == e.page
<1>5. /\ l \in Seq(0..Pages) /\ Len(l) = Len(got) + 1 /\ l[Len(got) + 1] = x
      /\ \A i \in 1..Len(got) : l[i] = pages[i]
  <2> HIDE DEF x
  <2> QED
    BY <1>2, <1>3 DEF x
<1>6. l = [i \in 1..(Len(got) + 1) |-> l[i]]
  <2> HIDE DEF l
  <2> QED
    BY <1>3, <1>5
<1>7. \A i \in 1..(Len(got) + 1) : l[i] = now[i].page
  <2> HIDE DEF l
  <2> QED
    BY <1>3, <1>4, <1>5
<1> HIDE DEF l
<1>8. l = [i \in 1..Len(now) |-> now[i].page]
  BY <1>3, <1>4, <1>6, <1>7
<1> QED
  BY <1>8 DEF l

\* What was skipped before the next event that is kept was trimmed, so lossy.
LEMMA NextEvent ==
    ASSUME IngestInv, NEW s \in Streams, {i \in Kept(s) : i > pos[s]} # {}
    PROVE  LET m == Min({i \in Kept(s) : i > pos[s]}) IN
           /\ m \in 1..Len(log[s]) /\ pos[s] < m /\ log[s][m] \in EventType
           /\ \A types : types \cap Lossy = {} =>
                 Taken(log[s], types)[m] = IF log[s][m].type \in types
                                           THEN Append(Taken(log[s], types)[pos[s]], log[s][m])
                                           ELSE Taken(log[s], types)[pos[s]]
<1> DEFINE new == {i \in Kept(s) : i > pos[s]}
           m == Min(new)
           l == log[s]
           p == pos[s]
<1>1. l \in Seq(EventType) /\ dropped[s] \subseteq 1..Len(l) /\ p \in 0..Len(l) /\ Len(l) \in Nat
  <2>1. LeadsInv /\ ReadOK
    BY InvParts
  <2> QED
    BY <2>1, Typed DEF LeadsInv, LogsTyped, ReadOK
<1>2. \A i \in dropped[s] : l[i].type \in Lossy
  BY InvParts DEF LeadsInv, LogOK
<1>3. new \subseteq 1..Len(l) /\ new \in SUBSET Nat
  BY <1>1 DEF Kept
<1>4. m \in new /\ \A i \in new : m <= i
  <2>1. new # {}
    OBVIOUS
  <2> HIDE DEF new
  <2> QED
    BY <1>3, <2>1, LeastOfNaturals
<1>5. m \in 1..Len(l) /\ p < m
  BY <1>3, <1>4
<1>6. \A k \in (p + 1)..(m - 1) : l[k].type \in Lossy
  <2> SUFFICES ASSUME NEW k \in (p + 1)..(m - 1) PROVE k \in dropped[s]
    BY <1>2
  <2>1. k \in 1..Len(l) /\ k > p /\ k < m
    BY <1>1, <1>5
  <2>2. k \notin new
    <3> HIDE DEF new, m
    <3> QED
      BY <1>1, <1>4, <1>5, <2>1
  <2> QED
    BY <2>1, <2>2 DEF Kept
<1> HIDE DEF new, m, l, p
<1>7. \A types : types \cap Lossy = {} =>
          Taken(l, types)[m] = IF l[m].type \in types
                               THEN Append(Taken(l, types)[p], l[m]) ELSE Taken(l, types)[p]
  <2> TAKE types
  <2> HAVE types \cap Lossy = {}
  <2>1. \A k \in (p + 1)..(m - 1) : l[k].type \notin types
    BY <1>6
  <2>2. (m - 1) \in p..Len(l) /\ p \in 0..Len(l)
    BY <1>1, <1>5
  <2>3. Taken(l, types)[m - 1] = Taken(l, types)[p]
    BY <1>1, <2>1, <2>2, TakenOver
  <2>4. \A n \in 1..Len(l) : Taken(l, types)[n] =
            IF l[n].type \in types THEN Append(Taken(l, types)[n - 1], l[n])
            ELSE Taken(l, types)[n - 1]
    BY <1>1, TakenDef
  <2> QED
    BY <1>5, <2>3, <2>4
<1>8. l[m] \in EventType
  BY <1>1, <1>5, ElementOf
<1>9. /\ m \in 1..Len(l) /\ p < m /\ l[m] \in EventType
      /\ \A types : types \cap Lossy = {} =>
            Taken(l, types)[m] = IF l[m].type \in types
                                 THEN Append(Taken(l, types)[p], l[m]) ELSE Taken(l, types)[p]
  BY <1>5, <1>7, <1>8
<1> QED
  BY <1>9 DEF l, m, p, new

LEMMA ReceiveKeeps ==
    ASSUME IngestInv, NEW s \in Streams, Receive(s)
    PROVE  /\ IngestInv' /\ log' = log
           /\ \A t \in Streams : t # s => received'[t] = received[t]
           /\ \/ received'[s] = received[s]
              \/ \E e \in EventType : received'[s] = Append(received[s], e)
<1> DEFINE new == {i \in Kept(s) : i > pos[s]}
           m == Min(new)
           e == log[s][m]
           r == Ended(s, e)
<1>1. /\ new # {} /\ pos' = [pos EXCEPT ![s] = m]
      /\ received' = [received EXCEPT ![s] = IF e.type \in Lossy THEN @ ELSE Append(@, e)]
      /\ rows' = Persisted(e) /\ shown' = [shown EXCEPT ![s] = Told(s, e)]
      /\ UNCHANGED <<log, dropped, ingestVars, embedVars, replies, controls>>
  BY DEF Receive
<1>2. LeadsInv /\ RelayTyped /\ ReadOK /\ RepliesOK /\ job \in [Streams -> JobType] /\ LogsTyped
  BY InvParts, Typed DEF LeadsInv
<1>3. /\ m \in 1..Len(log[s]) /\ pos[s] < m /\ e \in EventType
      /\ \A types : types \cap Lossy = {} =>
            Taken(log[s], types)[m] = IF e.type \in types
                                      THEN Append(Taken(log[s], types)[pos[s]], e)
                                      ELSE Taken(log[s], types)[pos[s]]
  BY <1>1, NextEvent
<1> HIDE DEF m, new
<1>4. /\ pos'[s] = m /\ \A t \in Streams : t # s => pos'[t] = pos[t]
      /\ received'[s] = IF e.type \in Lossy THEN received[s] ELSE Append(received[s], e)
      /\ \A t \in Streams : t # s => received'[t] = received[t]
      /\ DOMAIN pos' = Streams /\ DOMAIN received' = Streams
  BY <1>1, <1>2 DEF ReadOK
<1>5. log' = log /\ replies' = replies
  BY <1>1
<1>6. received'[s] = Taken(log[s], LosslessTypes)[m]
  <2>1. received[s] = Taken(log[s], LosslessTypes)[pos[s]]
    BY <1>2 DEF ReadOK
  <2>2. LosslessTypes \cap Lossy = {}
    BY Notes
  <2>3. e.type \in LosslessTypes <=> e.type \notin Lossy
    BY <1>3 DEF EventType, LosslessTypes
  <2> HIDE DEF e
  <2> QED
    BY <1>3, <1>4, <2>1, <2>2, <2>3
<1>7. \A t \in Streams : pos'[t] \in 0..Len(log[t]) /\ received'[t] = Taken(log[t], LosslessTypes)[pos'[t]]
  <2> TAKE t \in Streams
  <2>1. CASE t = s
    BY <1>3, <1>4, <1>6, <2>1
  <2>2. CASE t # s
    BY <1>2, <1>4, <2>2 DEF ReadOK
  <2> QED
    BY <2>1, <2>2
<1> DEFINE ids == {"ids"}
           got == Taken(log["ingest"], ids)[pos["ingest"]]
           now == Taken(log["ingest"], ids)[pos'["ingest"]]
<1>8. rows' = [i \in 1..Len(now) |-> now[i].page]
  <2>1. rows = [i \in 1..Len(got) |-> got[i].page]
    BY <1>2 DEF ReadOK
  <2>2. got \in Seq(EventType)
    <3>1. log["ingest"] \in Seq(EventType) /\ pos["ingest"] \in 0..Len(log["ingest"])
      BY <1>2, Sizes DEF LogsTyped, ReadOK
    <3> QED
      BY <3>1, TakenEvents
  <2>3. CASE s = "ingest"
    <3>1. ids \cap Lossy = {}
      BY DEF Lossy
    <3>2. now = IF e.type = "ids" THEN Append(got, e) ELSE got
      <4>1. pos'["ingest"] = m
        BY <1>4, <2>3
      <4>2. Taken(log[s], ids)[m] = IF e.type \in ids THEN Append(Taken(log[s], ids)[pos[s]], e)
                                    ELSE Taken(log[s], ids)[pos[s]]
        BY <1>3, <3>1
      <4> QED
        BY <2>3, <4>1, <4>2
    <3>3. rows' = IF e.type = "ids" THEN Append(rows, e.page) ELSE rows
      BY <1>1 DEF Persisted
    <3> HIDE DEF now, got, e
    <3>4. CASE e.type = "ids"
      <4>1. now = Append(got, e) /\ rows' = Append(rows, e.page)
        BY <3>2, <3>3, <3>4
      <4> QED
        BY <1>3, <2>1, <2>2, <4>1, PageAppended
    <3>5. CASE e.type # "ids"
      BY <2>1, <3>2, <3>3, <3>5
    <3> QED
      BY <3>4, <3>5
  <2>4. CASE s # "ingest"
    <3>1. s = "embedding"
      BY <2>4, Sizes
    <3>2. e.type # "ids"
      <4>1. \A i \in DOMAIN log["embedding"] : log["embedding"][i].type # "ids"
        BY <1>2 DEF LeadsInv, LogOK
      <4>2. m \in DOMAIN log["embedding"]
        BY <1>2, <1>3, <3>1 DEF LogsTyped
      <4> QED
        BY <3>1, <4>1, <4>2
    <3>3. rows' = rows
      BY <1>1, <3>2 DEF Persisted
    <3>4. now = got
      BY <1>4, <2>4, Sizes
    <3> HIDE DEF now, got
    <3> QED
      BY <2>1, <3>3, <3>4
  <2> QED
    BY <2>3, <2>4
<1>9. /\ relay' \in [pc : {"starting", "reading", "failed", "over"},
                     ingestDone : BOOLEAN, embeddingDone : BOOLEAN]
      /\ follows' \subseteq Streams
      /\ relay'.ingestDone => relay.ingestDone \/ (s = "ingest" /\ e.type \in Ends)
      /\ job' = job \/ \E n \in [Streams -> 0..1] :
                          job' = [t \in Streams |-> [job[t] EXCEPT !.readers = n[t]]]
  <2>1. /\ r \in [pc : {"starting", "reading", "failed", "over"},
                  ingestDone : BOOLEAN, embeddingDone : BOOLEAN]
        /\ r.ingestDone => relay.ingestDone \/ (s = "ingest" /\ e.type \in Ends)
    BY <1>2 DEF Ended, RelayTyped
  <2>2. CASE s = "ingest" /\ e.type = "error"
    <3>1. relay' = [relay EXCEPT !.pc = "failed"] /\ Release
      BY <2>2 DEF Receive, e, m, new
    <3> QED
      BY <1>2, <3>1, ReleaseReaders DEF RelayTyped
  <2>3. CASE ~(s = "ingest" /\ e.type = "error") /\ r.ingestDone /\ r.embeddingDone
    <3>1. relay' = [r EXCEPT !.pc = "over"] /\ Release
      BY <2>3 DEF Receive, e, m, new, r
    <3> HIDE DEF r, e
    <3> QED
      BY <2>1, <3>1, ReleaseReaders
  <2>4. CASE ~(s = "ingest" /\ e.type = "error") /\ ~(r.ingestDone /\ r.embeddingDone)
    <3>1. relay' = r /\ job' = job
          /\ follows' = IF e.type \in Ends THEN follows \ {s} ELSE follows
      BY <2>4 DEF Receive, e, m, new, r
    <3> HIDE DEF r, e
    <3> QED
      BY <1>2, <2>1, <3>1 DEF RelayTyped
  <2> QED
    BY <2>2, <2>3, <2>4
<1>10. Told(s, e) \in ShownType
  BY <1>2 DEF Told, RelayTyped, ShownType, Terminal
<1>11. RelayTyped'
  BY <1>1, <1>2, <1>9, <1>10 DEF RelayTyped
<1>12. LeadsInv' /\ (Over("ingest") => Over("ingest")')
  BY <1>1, <1>9, ReadersKeep
<1>13. relay'.ingestDone => pos'["ingest"] = Len(log["ingest"]) /\ Over("ingest")'
  <2>1. CASE relay.ingestDone
    <3>1. pos["ingest"] = Len(log["ingest"]) /\ Over("ingest")
      BY <1>2, <2>1 DEF ReadOK
    <3>2. s # "ingest"
      <4> SUFFICES ASSUME s = "ingest" PROVE FALSE
        OBVIOUS
      <4>1. Len(log["ingest"]) \in Nat
        BY <1>2, Sizes DEF LogsTyped
      <4> QED
        BY <1>3, <3>1, <4>1
    <3> QED
      BY <1>4, <1>12, <3>1, <3>2, Sizes
  <2>2. CASE s = "ingest" /\ e.type \in Ends
    <3>1. m \in DOMAIN log["ingest"]
      BY <1>2, <1>3, <2>2 DEF LogsTyped
    <3>2. m = Len(log["ingest"]) /\ Over("ingest")
      BY <1>2, <2>2, <3>1, Sizes DEF LeadsInv, LogOK, HasEnd
    <3> QED
      BY <1>4, <1>12, <2>2, <3>2
  <2> QED
    BY <1>9, <2>1, <2>2
<1>14. ReadOK'
  <2>1. \A t \in Streams : pos'[t] \in 0..Len(log'[t])
                           /\ received'[t] = Taken(log'[t], LosslessTypes)[pos'[t]]
    BY <1>5, <1>7
  <2>2. LET g == Taken(log'["ingest"], {"ids"})[pos'["ingest"]]
        IN  rows' = [i \in 1..Len(g) |-> g[i].page]
    BY <1>5, <1>8
  <2> HIDE DEF now, got, e, r
  <2> QED
    BY <1>4, <1>5, <1>13, <2>1, <2>2 DEF ReadOK
<1>15. RepliesOK'
  BY <1>2, <1>5 DEF RepliesOK
<1>16. IngestInv' <=> LeadsInv' /\ RelayTyped' /\ ReadOK' /\ RepliesOK'
  BY DEF IngestInv, LeadsInv, TypeOK, RelayTyped, ShownType
<1> QED
  BY <1>3, <1>4, <1>5, <1>11, <1>12, <1>14, <1>15, <1>16

-----------------------------------------------------------------------------
(***************************************************************************)
(* The invariant, and that no lead is lost.                                *)
(***************************************************************************)
LEMMA LeadsInit_Inv == Init => LeadsInv
<1> SUFFICES ASSUME Init PROVE LeadsInv
  OBVIOUS
<1>1. /\ job = [s \in Streams |->
                  [status |-> IF s = "ingest" THEN "pending" ELSE "running",
                   cancelled |-> FALSE, paused |-> FALSE, readers |-> 0, gone |-> FALSE]]
      /\ log = [s \in Streams |-> << >>] /\ dropped = [s \in Streams |-> {}]
      /\ emb = [live |-> TRUE, accepting |-> TRUE, paused |-> FALSE, total |-> 0,
                done |-> 0, failed |-> 0, inFlight |-> 0]
      /\ walk = [pc |-> "idle", page |-> 1, last |-> FALSE, detached |-> FALSE]
      /\ queue = << >> /\ batch = [p \in PageNumbers |-> [pc |-> "none", chunk |-> 0]]
      /\ consumer = "taking" /\ controls = 0
  BY DEF Init
<1>3. /\ job["ingest"].status = "pending" /\ job["embedding"].status = "running"
      /\ ~job["embedding"].gone /\ log["ingest"] = << >> /\ log["embedding"] = << >>
      /\ \A s \in Streams : log[s] = << >>
  BY <1>1, Sizes
<1> DEFINE empty == << >>
<1>4. \A types : Selected(empty, types) = << >>
  <2>1. empty \in Seq(EventType) /\ Len(empty) = 0
    OBVIOUS
  <2> HIDE DEF empty
  <2>2. \A types : /\ Selected(empty, types) = Taken(empty, types)[Len(empty)]
                   /\ Taken(empty, types)[0] = << >>
    BY <2>1, TakenDef
  <2> QED
    BY <2>1, <2>2
<1>5. Announced = 0
  BY <1>3, <1>4 DEF Announced, StoredPages
<1>6. Queued = {} /\ Begun = {} /\ Busy = {} /\ Started = {} /\ Working = {} /\ Waiting = {}
  BY <1>1 DEF Queued, Begun, Busy, Started, Working, Waiting
<1>7. StreamsOK
  <2>1. job \in [Streams -> JobType]
    BY <1>1 DEF JobType
  <2>2. LogsTyped
    BY <1>1 DEF LogsTyped
  <2>3. emb \in EmbType /\ walk \in WalkType /\ queue \in Seq(0..Pages) /\ controls \in 0..MaxControls
    BY <1>1, Sizes DEF EmbType, WalkType
  <2>4. batch \in [PageNumbers -> BatchType]
    BY <1>1, Sizes DEF BatchType
  <2> QED
    BY <1>1, <2>1, <2>2, <2>3, <2>4, Typed
<1>8. LogOK
  BY <1>1, <1>3 DEF LogOK, HasEnd
<1>9. WalkOK
  BY <1>1, <1>3, <1>5, <1>6 DEF WalkOK, Held
<1>10. QueueOK
  BY <1>1, <1>3, <1>5, <1>6, Sizes DEF QueueOK
<1>11. CountOK
  <2>1. Cardinality({}) = 0
    BY FS_EmptySet
  <2>2. /\ Cardinality(Busy) = 0 /\ Cardinality(Started) = 0 /\ Cardinality(Working) = 0
        /\ Cardinality(Waiting) = 0
    BY <1>6, <2>1
  <2> QED
    BY <1>1, <2>2, Sizes DEF CountOK
<1> QED
  BY <1>7, <1>8, <1>9, <1>10, <1>11 DEF LeadsInv

LEMMA SearchInit_Inv == SearchInit => IngestInv
<1> SUFFICES ASSUME SearchInit PROVE IngestInv
  OBVIOUS
<1>1. LeadsInv /\ log = [s \in Streams |-> << >>]
  BY LeadsInit_Inv DEF SearchInit, Init
<1>2. /\ relay = [pc |-> "starting", ingestDone |-> FALSE, embeddingDone |-> FALSE]
      /\ pos = [s \in Streams |-> 0] /\ follows = {} /\ rows = << >>
      /\ shown = [s \in Streams |-> "none"] /\ replies = {} /\ received = [s \in Streams |-> << >>]
  BY DEF SearchInit
<1>3. \A s \in Streams : log[s] = << >>
  BY <1>1
<1> DEFINE empty == << >>
<1>4. \A types : Taken(empty, types)[0] = << >>
  <2>1. empty \in Seq(EventType)
    OBVIOUS
  <2> HIDE DEF empty
  <2> QED
    BY <2>1, TakenDef
<1>12. RelayTyped /\ RepliesOK
  BY <1>2 DEF RelayTyped, RepliesOK, ShownType
<1>13. ReadOK
  <2> DEFINE none == Taken(log["ingest"], {"ids"})[pos["ingest"]]
  <2>1. none = << >>
    BY <1>2, <1>3, <1>4, Sizes
  <2>2. \A s \in Streams : pos[s] \in 0..Len(log[s]) /\ received[s] = Taken(log[s], LosslessTypes)[pos[s]]
    BY <1>2, <1>3, <1>4
  <2>3. rows = [i \in 1..Len(none) |-> none[i].page]
    <3> HIDE DEF none
    <3> QED
      BY <1>2, <2>1
  <2> QED
    BY <1>2, <2>2, <2>3 DEF ReadOK
<1> QED
  BY <1>1, <1>12, <1>13, InvParts

LEMMA QuietReplies ==
    ASSUME IngestInv, UNCHANGED replies
    PROVE  RepliesOK'
BY InvParts DEF RepliesOK

\* Every step either is one of leads, or leaves the logs as they are.
LEMMA NextKeeps ==
    ASSUME IngestInv, [Next]_vars
    PROVE  /\ IngestInv'
           /\ \/ LogStep /\ received' = received
              \/ /\ log' = log
                 /\ \/ received' = received
                    \/ \E s \in Streams : Receive(s)
<1>1. LeadsInv /\ ReadOK /\ RepliesOK
  BY InvParts
<1>2. CASE WalkStep
  <2>1. LeadsInv' /\ LogStep /\ UNCHANGED <<relayVars, shown, replies>>
    BY <1>1, <1>2, WalkingKeeps DEF WalkStep, Quietly
  <2> QED
    BY <2>1, LeadsStep, QuietReplies DEF relayVars
<1>3. CASE EmbeddingStep
  <2>1. LeadsInv' /\ LogStep /\ UNCHANGED <<relayVars, shown, replies>>
    BY <1>1, <1>3, EmbeddingKeeps DEF EmbeddingStep, Quietly
  <2> QED
    BY <2>1, LeadsStep, QuietReplies DEF relayVars
<1>4. CASE Timers /\ Quietly
  <2>1. LeadsInv' /\ LogStep /\ UNCHANGED <<relayVars, shown, replies>>
    BY <1>1, <1>4, TimersKeep DEF Quietly
  <2> QED
    BY <2>1, LeadsStep, QuietReplies DEF relayVars
<1>5. CASE Subscribe
  BY <1>5, SubscribeKeeps DEF Subscribe
<1>6. CASE RelayFails
  BY <1>6, FailKeeps DEF RelayFails
<1>7. ASSUME NEW s \in Streams, Receive(s)
      PROVE  IngestInv' /\ log' = log
  BY <1>7, ReceiveKeeps
<1>8. ASSUME NEW s \in Streams, NEW a \in Actions, Control(s, a)
      PROVE  IngestInv' /\ LogStep /\ received' = received
  <2>1. /\ StreamControl(s, a) /\ UNCHANGED <<relayVars, shown>>
        /\ Answered(s) \/ UNCHANGED replies
    BY <1>8 DEF Control
  <2>2. LeadsInv' /\ LogStep
    BY <1>1, <2>1, ControlKeeps
  <2>3. RepliesOK'
    BY <1>1, <2>1, AnswerTyped, QuietReplies
  <2> QED
    BY <2>1, <2>2, <2>3, LeadsStep DEF relayVars
<1>9. ASSUME NEW reply \in replies, Republish(reply)
      PROVE  IngestInv' /\ log' = log /\ received' = received
  BY <1>9, RepublishKeeps DEF Republish, streamVars, relayVars
<1>10. CASE UNCHANGED vars
  <2>1. /\ UNCHANGED <<job, log, dropped, emb, walk, queue, batch, consumer, controls>>
        /\ UNCHANGED <<relay, pos, follows, rows, received, shown, replies>>
    BY <1>10 DEF vars, streamVars, relayVars
  <2>2. LeadsInv'
    BY <2>1, ReadersKeep DEF ingestVars, embedVars
  <2>3. ReadOK' /\ RepliesOK'
    BY <1>1, <2>1, ReadStays DEF RepliesOK, Over
  <2>4. RelayTyped'
    BY <2>1, InvParts DEF RelayTyped
  <2>5. IngestInv' <=> LeadsInv' /\ RelayTyped' /\ ReadOK' /\ RepliesOK'
    BY DEF IngestInv, LeadsInv, TypeOK, RelayTyped, ShownType
  <2> QED
    BY <2>1, <2>2, <2>3, <2>4, <2>5
<1> QED
  BY <1>2, <1>3, <1>4, <1>5, <1>6, <1>7, <1>8, <1>9, <1>10 DEF Next

LEMMA InvMeansNoLeadIsLost == IngestInv => NoLeadIsLost
<1> SUFFICES ASSUME IngestInv PROVE NoLeadIsLost
  OBVIOUS
<1>1. LeadsInv /\ ReadOK
  BY InvParts
<1>2. SearchHasWhatLeadsStored
  <2> SUFFICES ASSUME relay.ingestDone
               PROVE  rows = [i \in 1..Len(StoredPages) |-> StoredPages[i].page]
    BY DEF SearchHasWhatLeadsStored
  <2>1. log["ingest"] \in Seq(EventType)
    BY <1>1, Typed, Sizes DEF LeadsInv, LogsTyped
  <2>2. Taken(log["ingest"], {"ids"})[Len(log["ingest"])] = StoredPages
    BY <2>1, TakenDef DEF StoredPages
  <2>3. pos["ingest"] = Len(log["ingest"])
    BY <1>1 DEF ReadOK
  <2> DEFINE got == Taken(log["ingest"], {"ids"})[pos["ingest"]]
  <2>4. rows = [i \in 1..Len(got) |-> got[i].page]
    BY <1>1 DEF ReadOK
  <2>5. got = StoredPages
    BY <2>2, <2>3
  <2> HIDE DEF got
  <2> QED
    BY <2>4, <2>5
<1>3. EveryLeadIsAccountedFor
  BY <1>1 DEF LeadsInv, CountOK, EveryLeadIsAccountedFor, Announced
<1> QED
  BY <1>2, <1>3 DEF NoLeadIsLost, IngestInv

(***************************************************************************)
(* For every number of pages, queue and batch size, and any pauses,        *)
(* cancels, expiries and breaks of the connection: the relay that has seen *)
(* the ingest end has saved each announced page once and in order, and the *)
(* embedding accounts for every lead.                                      *)
(***************************************************************************)
THEOREM NoLeadIsLostHolds == Spec => []NoLeadIsLost
<1>1. SearchInit => IngestInv
  BY SearchInit_Inv
<1>2. IngestInv /\ [Next]_vars => IngestInv'
  BY NextKeeps
<1>3. IngestInv => NoLeadIsLost
  BY InvMeansNoLeadIsLost
<1> QED
  BY <1>1, <1>2, <1>3, PTL DEF Spec

-----------------------------------------------------------------------------
(***************************************************************************)
(* The streams of leads by themselves, whoever reads them.  A page that    *)
(* was announced and is not embedded is in the queue or with one of the    *)
(* batches; one more waits with the walk.                                  *)
(***************************************************************************)
LEMMA QueuedPages ==
    ASSUME queue \in Seq(0..Pages)
    PROVE  IsFiniteSet(Queued) /\ Cardinality(Queued) <= Len(queue) /\ Cardinality(Queued) \in Nat
<1> DEFINE places == DOMAIN queue
<1>1. places = 1..Len(queue) /\ Len(queue) \in Nat
  OBVIOUS
<1>2. IsFiniteSet(places) /\ Cardinality(places) = Len(queue)
  BY <1>1, FS_Interval
<1>3. queue \in Surjection(places, Queued)
  BY DEF Queued, Surjection
<1> HIDE DEF places
<1>4. IsFiniteSet(Queued) /\ Cardinality(Queued) <= Cardinality(places)
  BY <1>2, <1>3, FS_Surjection
<1> QED
  BY <1>2, <1>4, FS_CardinalityType

LEMMA InvMeansStreamsHold == LeadsInv => StreamsHold
<1> SUFFICES ASSUME LeadsInv PROVE StreamsHold
  OBVIOUS
<1>1. LiveStreamIsKept
  BY DEF LeadsInv, WalkOK, QueueOK, Held, LiveStreamIsKept
<1>2. EveryLeadIsAccountedFor
  BY DEF LeadsInv, CountOK, EveryLeadIsAccountedFor, Announced
<1>3. WalkStaysClose
  <2> SUFFICES ASSUME emb.live, ~job["ingest"].cancelled
               PROVE  Cardinality(Unembedded) <= QueuePages + Concurrency + 1
    BY DEF WalkStaysClose
  <2> DEFINE ahead == Queued \cup Busy
  <2>1. Unembedded \subseteq ahead \cup {walk.page}
    <3> SUFFICES ASSUME NEW p \in Unembedded, p # walk.page PROVE p \in ahead
      OBVIOUS
    <3>1. /\ p \in PageNumbers /\ batch[p].pc # "over" /\ batch[p] \in BatchType
          /\ Event("ids", p) \in ToSet(log["ingest"])
      BY Typed DEF Unembedded, LeadsInv
    <3>2. PICK i \in DOMAIN log["ingest"] : log["ingest"][i] = Event("ids", p)
      BY <3>1 DEF ToSet
    <3>3. p <= Announced
      <4>1. log["ingest"][i].type = "ids" /\ log["ingest"][i].page = p
        BY <3>2 DEF Event
      <4> QED
        BY <4>1 DEF LeadsInv, LogOK
    <3>4. p \in 1..Announced
      BY <3>1, <3>3, AnnouncedIsNat, Typed, Sizes DEF LeadsInv
    <3>5. p \in Queued \/ p \in Begun
      BY <3>4 DEF LeadsInv, QueueOK
    <3>6. p \in Begun => p \in Busy
      BY <3>1 DEF Begun, Busy, BatchType
    <3> QED
      BY <3>5, <3>6
  <2>2. /\ IsFiniteSet(Queued) /\ Cardinality(Queued) \in Nat
        /\ Cardinality(Queued) <= QueuePages
    <3>1. queue \in Seq(0..Pages) /\ Len(queue) <= QueuePages
      BY DEF LeadsInv, StreamsOK, QueueOK
    <3>2. IsFiniteSet(Queued) /\ Cardinality(Queued) <= Len(queue) /\ Cardinality(Queued) \in Nat
      BY <3>1, QueuedPages
    <3> QED
      BY <3>1, <3>2, Sizes
  <2>3. IsFiniteSet(Busy) /\ Cardinality(Busy) \in Nat /\ Cardinality(Busy) <= Concurrency
    BY FiniteParts DEF LeadsInv, CountOK
  <2>4. /\ IsFiniteSet(ahead)
        /\ Cardinality(ahead) = Cardinality(Queued) + Cardinality(Busy) - Cardinality(Queued \cap Busy)
    BY <2>2, <2>3, FS_Union
  <2>5. Cardinality(Queued \cap Busy) \in Nat
    <3>1. IsFiniteSet(Queued \cap Busy)
      BY <2>2, FS_Intersection
    <3> QED
      BY <3>1, FS_CardinalityType
  <2>6. Cardinality(ahead) \in Nat /\ Cardinality(ahead) <= QueuePages + Concurrency
    <3>1. Cardinality(ahead) \in Nat
      BY <2>4, FS_CardinalityType
    <3> QED
      BY <2>2, <2>3, <2>4, <2>5, <3>1, Sizes
  <2> HIDE DEF ahead
  <2>7. /\ IsFiniteSet(ahead \cup {walk.page})
        /\ Cardinality(ahead \cup {walk.page}) <= Cardinality(ahead) + 1
    <3>1. /\ IsFiniteSet(ahead \cup {walk.page})
          /\ Cardinality(ahead \cup {walk.page}) = IF walk.page \in ahead THEN Cardinality(ahead)
                                                   ELSE Cardinality(ahead) + 1
      BY <2>4, FS_AddElement
    <3> QED
      BY <2>6, <3>1
  <2>8. /\ IsFiniteSet(Unembedded)
        /\ Cardinality(Unembedded) <= Cardinality(ahead \cup {walk.page})
    BY <2>1, <2>7, FS_Subset
  <2>9. Cardinality(Unembedded) \in Nat /\ Cardinality(ahead \cup {walk.page}) \in Nat
    <3>1. IsFiniteSet(Unembedded) /\ IsFiniteSet(ahead \cup {walk.page})
      BY <2>7, <2>8
    <3> QED
      BY <3>1, FS_CardinalityType
  <2> QED
    BY <2>6, <2>7, <2>8, <2>9, Sizes
<1> QED
  BY <1>1, <1>2, <1>3 DEF StreamsHold, LeadsInv

LEMMA LeadsNextKeeps ==
    ASSUME LeadsInv, [LeadsNext]_streamVars
    PROVE  LeadsInv'
<1>1. CASE Walking
  BY <1>1, WalkingKeeps
<1>2. CASE Embedding
  BY <1>2, EmbeddingKeeps
<1>3. CASE Timers
  BY <1>3, TimersKeep
<1>4. ASSUME NEW s \in Streams, NEW a \in Actions, StreamControl(s, a)
      PROVE  LeadsInv'
  BY <1>4, ControlKeeps
<1>5. CASE UNCHANGED streamVars
  <2>1. UNCHANGED <<job, log, dropped, emb, walk, queue, batch, consumer, controls>>
    BY <1>5 DEF streamVars
  <2>2. /\ SameWalk /\ SameJobs /\ SameCounts
        /\ \A p \in PageNumbers : SameWork(batch[p], batch'[p])
    BY <2>1 DEF SameWalk, SameJobs, SameCounts, SameWork
  <2>3. /\ walk \in WalkType /\ job \in [Streams -> JobType] /\ emb \in EmbType
        /\ batch \in [PageNumbers -> BatchType] /\ controls \in 0..MaxControls
    BY Typed DEF LeadsInv
  <2> QED
    BY <2>1, <2>2, <2>3, FlagsKeep
<1> QED
  BY <1>1, <1>2, <1>3, <1>4, <1>5 DEF LeadsNext

(***************************************************************************)
(* For every number of pages, queue, batch size and number of batches, and *)
(* whatever is paused, cancelled or expires: the walk is ahead of its      *)
(* embedding by no more than the queue, the batches and one page; a stream *)
(* that works is kept; and the embedding accounts for every lead.          *)
(***************************************************************************)
THEOREM StreamsHoldAlways == LeadsSpec => []StreamsHold
<1>1. LeadsSpec => Init /\ [][LeadsNext]_streamVars
  BY PTL DEF LeadsSpec
<1>2. Init => LeadsInv
  BY LeadsInit_Inv
<1>3. LeadsInv /\ [LeadsNext]_streamVars => LeadsInv'
  BY LeadsNextKeeps
<1>4. LeadsInv => StreamsHold
  BY InvMeansStreamsHold
<1> QED
  BY <1>1, <1>2, <1>3, <1>4, PTL

-----------------------------------------------------------------------------
(***************************************************************************)
(* Each stream is a lossless stream to the relay.                          *)
(***************************************************************************)
EndNotes == {Note(t) : t \in Ends}

\* The lossless events of a log hold an end only in their last place.
LEMMA EndIsLast ==
    ASSUME NEW l \in Seq(EventType), EndsLast(l)
    PROVE  LET all == Selected(l, LosslessTypes) IN
           /\ all \in Seq(EventType)
           /\ \A i \in 1..(Len(all) - 1) : all[i].type \notin Ends
           /\ \A i \in 1..Len(all) : all[i].type \in Ends => \E k \in DOMAIN l : l[k].type \in Ends
<1> DEFINE t == Taken(l, LosslessTypes)
           n == Len(l)
           all == Selected(l, LosslessTypes)
<1>1. n \in Nat /\ all = t[n] /\ t[0] = << >> /\ DOMAIN l = 1..n
  BY TakenDef
<1>2. \A m \in 0..n : /\ t[m] \in Seq(EventType)
                      /\ \A k \in 1..Len(t[m]) : \E i \in 1..m : t[m][k] = l[i]
  <2>1. \A m \in 0..Len(l) :
           /\ t[m] \in Seq(EventType)
           /\ \A k \in 1..Len(t[m]) :
                 \E i \in 1..m : t[m][k] = l[i] /\ l[i].type \in LosslessTypes
    BY TakenEvents
  <2> HIDE DEF t
  <2> QED
    BY <2>1
<1>3. \A m \in 1..n : t[m] = IF l[m].type \in LosslessTypes THEN Append(t[m - 1], l[m]) ELSE t[m - 1]
  BY TakenDef
<1>4. all \in Seq(EventType)
  BY <1>1, <1>2
<1>5. \A i \in 1..Len(all) : all[i].type \in Ends => \E k \in DOMAIN l : l[k].type \in Ends
  <2> HIDE DEF t, n, all
  <2> QED
    BY <1>1, <1>2
<1>6. \A i \in 1..(Len(all) - 1) : all[i].type \notin Ends
  <2> SUFFICES ASSUME NEW i \in 1..(Len(all) - 1) PROVE all[i].type \notin Ends
    OBVIOUS
  <2>1. n >= 1
    BY <1>1, <1>4
  <2> DEFINE old == t[n - 1]
  <2>2. /\ old \in Seq(EventType)
        /\ \A k \in 1..Len(old) : \E j \in 1..(n - 1) : old[k] = l[j]
    <3>1. (n - 1) \in 0..n
      BY <1>1, <2>1
    <3> HIDE DEF t, n, all
    <3> QED
      BY <1>2, <3>1
  <2>3. \A j \in 1..(n - 1) : l[j].type \notin Ends
    BY <1>1, <2>1 DEF EndsLast, n
  <2>4. all = Append(old, l[n]) \/ all = old
    <3>1. n \in 1..n
      BY <1>1, <2>1
    <3>2. all = t[n]
      BY <1>1
    <3> HIDE DEF t, n, all
    <3> QED
      BY <1>3, <3>1, <3>2
  <2>5. l[n] \in EventType
    BY <1>1, <2>1, ElementOf
  <2> HIDE DEF t, n, all, old
  <2>6. i \in 1..Len(old) /\ all[i] = old[i]
    BY <1>4, <2>2, <2>4, <2>5
  <2> QED
    BY <2>2, <2>3, <2>6
<1> QED
  BY <1>4, <1>5, <1>6

LEMMA EndsAreNotes ==
    ASSUME NEW e \in EndNotes
    PROVE  e.type \in Ends
BY Notes DEF EndNotes, Ends, Types, Note, Event

LEMMA LosslessStep ==
    ASSUME IngestInv, [Next]_vars, NEW s \in Streams
    PROVE  LET sent == Lossless(s)
               got == received[s]
           IN  \/ sent' = sent /\ received'[s] = got
               \/ /\ ~(Len(sent) > 0 /\ sent[Len(sent)] \in EndNotes) /\ received'[s] = got
                  /\ Len(sent') > Len(sent) /\ SubSeq(sent', 1, Len(sent)) = sent
                  /\ \A i \in (Len(sent) + 1)..(Len(sent') - 1) : sent'[i] \notin EndNotes
               \/ /\ Len(got) < Len(sent) /\ sent' = sent
                  /\ received'[s] = Append(got, sent[Len(got) + 1])
<1> DEFINE old == log[s]
           new == log'[s]
           sent == Selected(old, LosslessTypes)
           then == Selected(new, LosslessTypes)
           got == received[s]
<1>0. LogsTyped /\ LogOK /\ ReadOK
  BY InvParts, Typed DEF LeadsInv
<1>1. old \in Seq(EventType) /\ EndsLast(old)
  BY <1>0 DEF LogsTyped, LogOK, EndsLast
<1>2. /\ sent \in Seq(EventType)
      /\ \A i \in 1..Len(sent) : sent[i].type \in Ends => HasEnd(s)
  <2>1. /\ Selected(old, LosslessTypes) \in Seq(EventType)
        /\ \A i \in 1..Len(sent) : sent[i].type \in Ends => \E k \in DOMAIN old : old[k].type \in Ends
    <3> HIDE DEF old
    <3> QED
      BY <1>1, EndIsLast
  <2> QED
    BY <2>1 DEF HasEnd
<1>3. Lossless(s) = sent /\ Lossless(s)' = then
  BY DEF Lossless, LosslessTypes
<1>4. CASE LogStep /\ received' = received
  <2>1. CASE new = old
    BY <1>3, <1>4, <2>1
  <2>2. CASE new # old
    <3>1. ~HasEnd(s) /\ Grows(s)
      BY <1>0, <1>4, <2>2 DEF LogStep, LogOK
    <3>2. new \in Seq(EventType) /\ EndsLast(new)
      BY <1>4 DEF LogStep, LogsTyped, LogOK, EndsLast
    <3>3. /\ Len(old) <= Len(new) /\ \A i \in 1..Len(old) : new[i] = old[i]
          /\ Len(old) \in Nat /\ Len(new) \in Nat
      BY <1>1, <3>1, <3>2 DEF Grows
    <3> DEFINE t == Taken(new, LosslessTypes)
    <3>4. then = t[Len(new)] /\ sent = t[Len(old)]
      <4> HIDE DEF old, new
      <4>1. then = t[Len(new)]
        BY <3>2, TakenDef
      <4>2. sent = Taken(old, LosslessTypes)[Len(old)]
        BY <1>1, TakenDef
      <4>3. Len(old) \in 0..Len(old)
        BY <3>3
      <4>4. t[Len(old)] = Taken(old, LosslessTypes)[Len(old)]
        BY <1>1, <3>2, <3>3, <4>3, TakenKept
      <4> QED
        BY <4>1, <4>2, <4>4
    <3>5. /\ then \in Seq(EventType)
          /\ \A i \in 1..(Len(then) - 1) : then[i].type \notin Ends
      <4> HIDE DEF new
      <4> QED
        BY <3>2, EndIsLast
    <3>6. /\ Len(sent) <= Len(then)
          /\ \A k \in 1..Len(sent) : then[k] = sent[k]
      <4>1. Len(old) \in 0..Len(new) /\ Len(new) \in Len(old)..Len(new)
        BY <3>3
      <4> HIDE DEF old, new
      <4>2. \A j \in Len(old)..Len(new) :
              /\ Len(t[Len(old)]) <= Len(t[j])
              /\ \A k \in 1..Len(t[Len(old)]) : t[j][k] = t[Len(old)][k]
        BY ZenonT(60), <3>2, <4>1, TakenGrows
      <4> HIDE DEF t, then, sent
      <4> QED
        BY <3>4, <4>1, <4>2
    <3>7. ~(Len(sent) > 0 /\ sent[Len(sent)] \in EndNotes)
      <4> SUFFICES ASSUME Len(sent) > 0, sent[Len(sent)] \in EndNotes PROVE FALSE
        OBVIOUS
      <4>1. sent[Len(sent)].type \in Ends
        BY EndsAreNotes
      <4>2. Len(sent) \in 1..Len(sent)
        BY <1>2
      <4> HIDE DEF sent
      <4> QED
        BY <1>2, <3>1, <4>1, <4>2
    <3>8. \A i \in (Len(sent) + 1)..(Len(then) - 1) : then[i] \notin EndNotes
      <4> HIDE DEF sent, then
      <4> SUFFICES ASSUME NEW i \in (Len(sent) + 1)..(Len(then) - 1), then[i] \in EndNotes PROVE FALSE
        OBVIOUS
      <4>1. i \in 1..(Len(then) - 1)
        BY <1>2, <3>5
      <4> QED
        BY <3>5, <4>1, EndsAreNotes
    <3> HIDE DEF sent, then, t, old, new
    <3>9. CASE Len(sent) = Len(then)
      <4>1. then = sent
        BY <1>2, <3>5, <3>6, <3>9
      <4> QED
        BY <1>3, <1>4, <4>1
    <3>10. CASE Len(sent) # Len(then)
      <4>1. Len(then) > Len(sent)
        BY <1>2, <3>5, <3>6, <3>10
      <4>2. SubSeq(then, 1, Len(sent)) = sent
        <5>1. /\ Len(SubSeq(then, 1, Len(sent))) = Len(sent)
              /\ SubSeq(then, 1, Len(sent)) \in Seq(EventType)
              /\ \A i \in 1..Len(sent) : SubSeq(then, 1, Len(sent))[i] = then[i]
          BY <1>2, <3>5, <4>1
        <5> QED
          BY <1>2, <3>6, <5>1
      <4> QED
        BY <1>3, <1>4, <3>7, <3>8, <4>1, <4>2
    <3> QED
      BY <3>9, <3>10
  <2> QED
    BY <2>1, <2>2
<1>5. CASE log' = log /\ received' = received
  BY <1>3, <1>5
<1>6. ASSUME NEW r \in Streams, Receive(r)
      PROVE  \/ then = sent /\ received'[s] = got
             \/ /\ Len(got) < Len(sent) /\ then = sent
                /\ received'[s] = Append(got, sent[Len(got) + 1])
  <2>1. /\ IngestInv' /\ log' = log
        /\ \A t \in Streams : t # r => received'[t] = received[t]
        /\ \/ received'[r] = received[r]
           \/ \E e \in EventType : received'[r] = Append(received[r], e)
    BY <1>6, ReceiveKeeps
  <2>2. then = sent
    BY <2>1
  <2>3. CASE received'[s] = received[s]
    BY <2>2, <2>3
  <2>4. CASE received'[s] # received[s]
    <3>1. PICK e \in EventType : received'[s] = Append(got, e)
      BY <2>1, <2>4
    <3> DEFINE t == Taken(old, LosslessTypes)
               now == received'[s]
    <3>2. /\ pos[s] \in 0..Len(old) /\ got = t[pos[s]]
          /\ pos'[s] \in 0..Len(old) /\ now = t[pos'[s]]
      <4>1. ReadOK'
        BY <2>1 DEF IngestInv
      <4> QED
        BY <1>0, <2>1, <4>1 DEF ReadOK
    <3> DEFINE q == pos'[s]
    <3>3. /\ got \in Seq(EventType) /\ now \in Seq(EventType)
          /\ sent = t[Len(old)] /\ Len(old) \in Nat
      <4> HIDE DEF old, q
      <4>1. \A n \in 0..Len(old) : t[n] \in Seq(EventType)
        BY <1>1, TakenEvents
      <4>2. sent = t[Len(old)]
        BY <1>1, TakenDef
      <4> QED
        BY <1>1, <3>2, <4>1, <4>2
    <3>4. /\ Len(now) <= Len(sent)
          /\ \A k \in 1..Len(now) : sent[k] = now[k]
      <4>1. Len(old) \in q..Len(old) /\ q \in 0..Len(old)
        BY <3>2, <3>3
      <4> HIDE DEF old, q
      <4>2. \A j \in q..Len(old) :
              /\ Len(t[q]) <= Len(t[j])
              /\ \A k \in 1..Len(t[q]) : t[j][k] = t[q][k]
        BY SMTT(60), <1>1, <4>1, TakenGrows
      <4>3. now = t[q] /\ sent = t[Len(old)]
        BY <3>2, <3>3 DEF q
      <4> HIDE DEF t, sent, now
      <4> QED
        BY <4>1, <4>2, <4>3
    <3> HIDE DEF t, now, sent, old, q
    <3>5. Len(now) = Len(got) + 1 /\ now[Len(got) + 1] = e /\ Len(got) \in Nat
      BY <3>1, <3>3 DEF now
    <3>6. sent[Len(got) + 1] = e /\ Len(got) < Len(sent)
      BY <1>2, <3>3, <3>4, <3>5
    <3> QED
      BY <2>2, <3>1, <3>6
  <2> QED
    BY <2>3, <2>4
<1>7. \/ LogStep /\ received' = received
      \/ /\ log' = log
         /\ \/ received' = received
            \/ \E r \in Streams : Receive(r)
  BY NextKeeps
<1> HIDE DEF sent, then, old, new
<1>8. (\E r \in Streams : Receive(r)) =>
          \/ then = sent /\ received'[s] = got
          \/ /\ Len(got) < Len(sent) /\ then = sent
             /\ received'[s] = Append(got, sent[Len(got) + 1])
  BY <1>6
<1>9. CASE \E r \in Streams : Receive(r)
  BY <1>3, <1>8, <1>9
<1> QED
  BY <1>4, <1>5, <1>7, <1>9

LEMMA LosslessInit ==
    ASSUME SearchInit, NEW s \in Streams
    PROVE  Lossless(s) = << >> /\ received[s] = << >>
<1> DEFINE empty == << >>
<1>1. log[s] = empty /\ received[s] = << >>
  BY DEF SearchInit, Init
<1>2. empty \in Seq(EventType) /\ Len(empty) = 0
  OBVIOUS
<1> HIDE DEF empty
<1>3. /\ Selected(empty, LosslessTypes) = Taken(empty, LosslessTypes)[Len(empty)]
      /\ Taken(empty, LosslessTypes)[0] = << >>
  BY <1>2, TakenDef
<1>4. Selected(empty, LosslessTypes) = << >>
  BY <1>2, <1>3
<1> QED
  BY <1>1, <1>4 DEF Lossless, LosslessTypes

(***************************************************************************)
(* The walk, the embedding, their cancels and the trimming of their logs   *)
(* implement two lossless streams: the relay gets every event that matters *)
(* once and in order, and nothing is published behind an end.              *)
(***************************************************************************)
THEOREM StreamsAreLosslessHolds == Spec => StreamsAreLossless
<1>1. SearchInit => IngestInv
  BY SearchInit_Inv
<1>2. IngestInv /\ [Next]_vars => IngestInv'
  BY NextKeeps
<1>3. SearchInit => Ingest!Init /\ Vectors!Init
  BY LosslessInit, Sizes DEF Ingest!Init, Vectors!Init
<1>4. IngestInv /\ [Next]_vars => [Ingest!Next]_<<Lossless("ingest"), received["ingest"]>>
  <2> SUFFICES ASSUME IngestInv, [Next]_vars
               PROVE  [Ingest!Next]_<<Lossless("ingest"), received["ingest"]>>
    OBVIOUS
  <2> DEFINE sent == Lossless("ingest")
             got == received["ingest"]
  <2>1. \/ sent' = sent /\ got' = got
        \/ /\ ~(Len(sent) > 0 /\ sent[Len(sent)] \in EndNotes) /\ got' = got
           /\ Len(sent') > Len(sent) /\ SubSeq(sent', 1, Len(sent)) = sent
           /\ \A i \in (Len(sent) + 1)..(Len(sent') - 1) : sent'[i] \notin EndNotes
        \/ /\ Len(got) < Len(sent) /\ sent' = sent
           /\ got' = Append(got, sent[Len(got) + 1])
    BY LosslessStep, Sizes
  <2> QED
    BY <2>1 DEF Ingest!Next, Ingest!Publish, Ingest!Receive, Ingest!Ended, EndNotes
<1>5. IngestInv /\ [Next]_vars => [Vectors!Next]_<<Lossless("embedding"), received["embedding"]>>
  <2> SUFFICES ASSUME IngestInv, [Next]_vars
               PROVE  [Vectors!Next]_<<Lossless("embedding"), received["embedding"]>>
    OBVIOUS
  <2> DEFINE sent == Lossless("embedding")
             got == received["embedding"]
  <2>1. \/ sent' = sent /\ got' = got
        \/ /\ ~(Len(sent) > 0 /\ sent[Len(sent)] \in EndNotes) /\ got' = got
           /\ Len(sent') > Len(sent) /\ SubSeq(sent', 1, Len(sent)) = sent
           /\ \A i \in (Len(sent) + 1)..(Len(sent') - 1) : sent'[i] \notin EndNotes
        \/ /\ Len(got) < Len(sent) /\ sent' = sent
           /\ got' = Append(got, sent[Len(got) + 1])
    BY LosslessStep, Sizes
  <2> QED
    BY <2>1 DEF Vectors!Next, Vectors!Publish, Vectors!Receive, Vectors!Ended, EndNotes
<1> QED
  BY <1>1, <1>2, <1>3, <1>4, <1>5, PTL DEF Spec, StreamsAreLossless, IngestIsLossless,
     VectorsAreLossless, Ingest!Spec, Vectors!Spec

=================================================================================
