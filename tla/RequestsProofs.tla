---------------------------- MODULE RequestsProofs ----------------------------
(***************************************************************************)
(* Theorems about the requests to search, for every set of requests,       *)
(* companies, readers and people, and every size of page, fan-out and      *)
(* limit.                                                                  *)
(***************************************************************************)
EXTENDS MCSearchRequests, FiniteSetTheorems, WellFoundedInduction, TLAPS

-----------------------------------------------------------------------------
(***************************************************************************)
(* A batch of enrichments.  The people before the runner's are started,    *)
(* those behind it are not.  What a watcher knows of its streams and what  *)
(* leads runs agree until the watcher is over.                             *)
(***************************************************************************)
RunnerType == [pc : {"calling", "answering", "waiting", "gathering", "stopping", "over"}, at : Batch]
WatcherType == [pc : {"none", "reading", "over"}, ended : SUBSET StreamKinds, event : BOOLEAN]

Counting == {"ingest_complete", "embedding_progress"}
KindOfNote(type) == IF type = "ingest_complete" THEN "ingest" ELSE "embedding"
NoteType == [type : Counting \cup {"error", "complete"}, done : Nat, last : BOOLEAN]

BatchTyped ==
    /\ runner \in RunnerType /\ watcher \in [Batch -> WatcherType]
    /\ streams \in [Batch -> SUBSET StreamKinds]
    /\ active \subseteq Batch \X StreamKinds /\ asked \subseteq Batch \X StreamKinds
    /\ finished \in [StreamKinds -> Nat] /\ notes \in Seq(NoteType)
    /\ client \in {"reading", "served", "left", "gone"}

\* Whose streams are started, watched and through.
PersonOK(p) ==
    /\ p > runner.at => watcher[p].pc = "none" /\ streams[p] = {}
    /\ p < runner.at => watcher[p].pc # "none" /\ watcher[p].event
    /\ watcher[p].pc = "none" => watcher[p].ended = {} /\ ~watcher[p].event
    /\ watcher[p].pc = "reading" =>
          /\ streams[p] = StreamKinds \ watcher[p].ended /\ watcher[p].ended # StreamKinds
          /\ watcher[p].event <=> "ingest" \in watcher[p].ended
    /\ watcher[p].pc # "none" => {p} \X streams[p] \subseteq active
    /\ "ingest" \in watcher[p].ended => "ingest" \notin streams[p]
    /\ watcher[p].pc = "over" => watcher[p].event

RunnerOK ==
    /\ runner.pc = "calling" => watcher[runner.at].pc = "none" /\ streams[runner.at] = {}
    /\ runner.pc = "answering" => watcher[runner.at].pc = "none" /\ "ingest" \in streams[runner.at]
    /\ runner.pc \in {"waiting", "gathering"} => watcher[runner.at].pc # "none"
    /\ runner.pc = "gathering" => runner.at = People
    /\ runner.pc = "over" => \A p \in Batch : watcher[p].pc # "reading"
    /\ client = "served" => /\ runner.pc = "over"
                            /\ \A p \in Batch : watcher[p].pc # "none" => {p} \X streams[p] \subseteq asked

\* Who is counted: for an embedding also whose ingest failed.
CountedOf(k) ==
    {p \in Batch : \/ k \in watcher[p].ended
                   \/ /\ k = "embedding" /\ watcher[p].pc = "over"
                      /\ "ingest" \notin streams[p] \cup watcher[p].ended}
FinishedOK == \A k \in StreamKinds : finished[k] = Cardinality(CountedOf(k))

NotesOK ==
    /\ \A i \in DOMAIN notes :
          /\ notes[i].type \in Counting =>
                /\ notes[i].done <= finished[KindOfNote(notes[i].type)]
                /\ notes[i].last => notes[i].done >= People
          /\ notes[i].type = "error" => ~notes[i].last
          /\ notes[i].type = "complete" => runner.pc = "over" /\ i = Len(notes)
    /\ \A i, j \in DOMAIN notes :
          i < j /\ notes[i].type = notes[j].type /\ notes[i].type \in Counting
            => notes[i].done < notes[j].done

\* Without an error a watcher is over only with both of its streams.
DoneOK ==
    client \in {"reading", "served"} /\ Notes("error") = {} =>
        /\ runner.pc # "stopping"
        /\ \A p \in Batch : watcher[p].pc = "over" => watcher[p].ended = StreamKinds
        /\ runner.pc = "over" => \A p \in Batch : watcher[p].pc = "over"

BatchInv ==
    BatchTyped /\ (\A p \in Batch : PersonOK(p)) /\ RunnerOK /\ FinishedOK /\ NotesOK /\ DoneOK

LEMMA BatchSizes ==
    /\ People \in Nat /\ People >= 1 /\ Batch = 1..People
    /\ StreamKinds = {"ingest", "embedding"}
    /\ "ingest" \in StreamKinds /\ "embedding" \in StreamKinds
BY BatchAssumption DEF Batch, StreamKinds

\* What is counted is a number of people.
LEMMA CountedIsFinite ==
    /\ \A k : IsFiniteSet(CountedOf(k)) /\ Cardinality(CountedOf(k)) \in 0..People
    /\ \A k : IsFiniteSet(CountedOf(k)') /\ Cardinality(CountedOf(k)') \in 0..People
<1>1. IsFiniteSet(Batch) /\ Cardinality(Batch) = People
  BY BatchSizes, FS_Interval
<1>2. \A S \in SUBSET Batch : IsFiniteSet(S) /\ Cardinality(S) <= People /\ Cardinality(S) \in Nat
  <2> TAKE S \in SUBSET Batch
  <2>1. IsFiniteSet(S) /\ Cardinality(S) <= Cardinality(Batch)
    BY <1>1, FS_Subset
  <2>2. Cardinality(S) \in Nat
    BY <2>1, FS_CardinalityType
  <2> QED
    BY <1>1, <2>1, <2>2
<1>3. \A k : CountedOf(k) \in SUBSET Batch /\ CountedOf(k)' \in SUBSET Batch
  BY DEF CountedOf, Batch
<1> QED
  BY <1>2, <1>3, BatchSizes

\* One more person is counted.
LEMMA OneMoreCounted ==
    ASSUME NEW k, NEW p \in Batch, CountedOf(k)' = CountedOf(k) \cup {p}, p \notin CountedOf(k)
    PROVE  Cardinality(CountedOf(k)') = Cardinality(CountedOf(k)) + 1
<1>1. IsFiniteSet(CountedOf(k))
  BY CountedIsFinite
<1> QED
  BY <1>1, FS_AddElement

LEMMA BatchInit_Inv == BatchInit => BatchInv
<1> SUFFICES ASSUME BatchInit PROVE BatchInv
  OBVIOUS
<1>1. BatchTyped
  BY BatchSizes DEF BatchInit, BatchTyped, RunnerType, WatcherType
<1>2. \A p \in Batch : PersonOK(p)
  BY BatchSizes DEF BatchInit, PersonOK
<1>3. RunnerOK
  BY BatchSizes DEF BatchInit, RunnerOK
<1>4. FinishedOK
  <2>1. \A k : CountedOf(k) = {}
    BY DEF BatchInit, CountedOf
  <2> QED
    BY <2>1, FS_EmptySet DEF BatchInit, FinishedOK
<1>5. NotesOK
  BY DEF BatchInit, NotesOK
<1>6. DoneOK
  BY DEF BatchInit, DoneOK
<1> QED
  BY <1>1, <1>2, <1>3, <1>4, <1>5, <1>6 DEF BatchInv

(***************************************************************************)
(* A line that is queued: an error, the end, or a count that has just gone *)
(* up.                                                                     *)
(***************************************************************************)
LEMMA NoteAppended ==
    ASSUME BatchTyped, NotesOK, NEW n \in NoteType, notes' = Append(notes, n),
           runner.pc # "over", finished' \in [StreamKinds -> Nat],
           \A k \in StreamKinds : finished[k] <= finished'[k],
           n.type \in Counting => /\ n.done = finished'[KindOfNote(n.type)]
                                  /\ n.done > finished[KindOfNote(n.type)]
                                  /\ n.last => n.done >= People,
           n.type = "error" => ~n.last,
           n.type = "complete" => runner'.pc = "over"
    PROVE  NotesOK' /\ notes' \in Seq(NoteType)
<1>1. /\ Len(notes) \in Nat /\ DOMAIN notes = 1..Len(notes) /\ notes' \in Seq(NoteType)
      /\ Len(notes') = Len(notes) + 1 /\ DOMAIN notes' = 1..(Len(notes) + 1)
      /\ notes'[Len(notes) + 1] = n
      /\ \A i \in 1..Len(notes) : notes'[i] = notes[i] /\ notes[i] \in NoteType
  BY DEF BatchTyped
<1>2. \A type : KindOfNote(type) \in StreamKinds
  BY BatchSizes DEF KindOfNote
<1>3. \A k \in StreamKinds : finished[k] \in Nat /\ finished'[k] \in Nat
  BY DEF BatchTyped
<1>4. \A i \in DOMAIN notes' :
        /\ notes'[i].type \in Counting =>
              /\ notes'[i].done <= finished'[KindOfNote(notes'[i].type)]
              /\ notes'[i].last => notes'[i].done >= People
        /\ notes'[i].type = "error" => ~notes'[i].last
        /\ notes'[i].type = "complete" => runner'.pc = "over" /\ i = Len(notes')
  <2> TAKE i \in DOMAIN notes'
  <2>1. CASE i \in 1..Len(notes)
    <3>1. notes'[i] = notes[i] /\ notes[i] \in NoteType /\ notes[i].type # "complete"
      BY <1>1, <2>1 DEF NotesOK
    <3>2. notes[i].type \in Counting => notes[i].done <= finished[KindOfNote(notes[i].type)]
      BY <1>1, <2>1 DEF NotesOK
    <3>3. notes[i].done \in Nat
      BY <3>1 DEF NoteType
    <3>4. LET k == KindOfNote(notes[i].type) IN
          finished[k] <= finished'[k] /\ finished[k] \in Nat /\ finished'[k] \in Nat
      BY <1>2, <1>3
    <3>5. notes[i].type \in Counting => notes[i].done <= finished'[KindOfNote(notes[i].type)]
      BY <3>2, <3>3, <3>4
    <3> QED
      BY <1>1, <2>1, <3>1, <3>5 DEF NotesOK
  <2>2. CASE i = Len(notes) + 1
    <3>1. KindOfNote(n.type) \in StreamKinds /\ n.done \in Nat
      BY <1>2 DEF NoteType
    <3> QED
      BY <1>1, <1>3, <2>2, <3>1
  <2> QED
    BY <1>1, <2>1, <2>2
<1>5. \A i, j \in DOMAIN notes' :
        i < j /\ notes'[i].type = notes'[j].type /\ notes'[i].type \in Counting
          => notes'[i].done < notes'[j].done
  <2> SUFFICES ASSUME NEW i \in DOMAIN notes', NEW j \in DOMAIN notes', i < j,
                      notes'[i].type = notes'[j].type, notes'[i].type \in Counting
               PROVE  notes'[i].done < notes'[j].done
    OBVIOUS
  <2>1. i \in 1..Len(notes) /\ notes'[i] = notes[i]
    BY <1>1
  <2>2. CASE j \in 1..Len(notes)
    BY <1>1, <2>1, <2>2 DEF NotesOK
  <2>3. CASE j = Len(notes) + 1
    <3>1. n.type = notes[i].type /\ notes'[j] = n
      BY <1>1, <2>1, <2>3
    <3>2. notes[i].done <= finished[KindOfNote(n.type)] /\ n.done > finished[KindOfNote(n.type)]
      BY <1>1, <2>1, <3>1 DEF NotesOK
    <3>3. notes[i].done \in Nat /\ n.done \in Nat /\ finished[KindOfNote(n.type)] \in Nat
      BY <1>1, <1>2, <1>3, <2>1 DEF NoteType
    <3> QED
      BY <2>1, <3>1, <3>2, <3>3
  <2> QED
    BY <1>1, <2>2, <2>3
<1> QED
  BY <1>1, <1>4, <1>5 DEF NotesOK

\* The lines are told, and the end was not: the runner may go on.
LEMMA NotesStay ==
    ASSUME BatchTyped, NotesOK, UNCHANGED notes, runner.pc = "over" => runner'.pc = "over",
           finished' \in [StreamKinds -> Nat], \A k \in StreamKinds : finished[k] <= finished'[k]
    PROVE  NotesOK'
<1>1. \A type : KindOfNote(type) \in StreamKinds
  BY BatchSizes DEF KindOfNote
<1>2. \A k \in StreamKinds : finished[k] \in Nat /\ finished'[k] \in Nat
  BY DEF BatchTyped
<1>3. \A i \in DOMAIN notes : notes[i].done \in Nat
  <2>1. \A i \in DOMAIN notes : notes[i] \in NoteType
    BY DEF BatchTyped
  <2> QED
    BY <2>1 DEF NoteType
<1>4. \A i \in DOMAIN notes : notes[i].type \in Counting
          => notes[i].done <= finished'[KindOfNote(notes[i].type)]
  <2> SUFFICES ASSUME NEW i \in DOMAIN notes, notes[i].type \in Counting
               PROVE  notes[i].done <= finished'[KindOfNote(notes[i].type)]
    OBVIOUS
  <2>1. notes[i].done <= finished[KindOfNote(notes[i].type)]
    BY DEF NotesOK
  <2>2. LET k == KindOfNote(notes[i].type) IN
        finished[k] <= finished'[k] /\ finished[k] \in Nat /\ finished'[k] \in Nat
    BY <1>1, <1>2
  <2> QED
    BY <1>3, <2>1, <2>2
<1> QED
  BY <1>4 DEF NotesOK

\* The runner takes a step with the person it is at, and counts nobody.
LEMMA RunnerMoved ==
    ASSUME BatchInv, UNCHANGED <<watcher, active, asked, client, finished>>,
           runner' \in RunnerType, streams' \in [Batch -> SUBSET StreamKinds],
           \A p \in Batch : watcher[p].pc # "none" => streams'[p] = streams[p]
    PROVE  /\ FinishedOK'
           /\ notes' = notes => BatchTyped'
           /\ \A p \in Batch :
                 /\ p <= runner'.at \/ streams'[p] = {}
                 /\ p > runner'.at => watcher[p].pc = "none"
                 /\ p < runner'.at => watcher[p].pc # "none" /\ watcher[p].event
                 => PersonOK(p)'
<1>1. watcher' = watcher /\ active' = active /\ finished' = finished
  OBVIOUS
<1>2. \A k : CountedOf(k)' = CountedOf(k)
  BY <1>1 DEF CountedOf
<1>3. FinishedOK'
  BY <1>1, <1>2 DEF BatchInv, FinishedOK
<1>4. notes' = notes => BatchTyped'
  BY <1>1 DEF BatchInv, BatchTyped
<1>5. ASSUME NEW p \in Batch, p <= runner'.at \/ streams'[p] = {},
             p > runner'.at => watcher[p].pc = "none",
             p < runner'.at => watcher[p].pc # "none" /\ watcher[p].event
      PROVE  PersonOK(p)'
  <2>1. p \in Nat /\ runner'.at \in Nat /\ PersonOK(p) /\ watcher[p] \in WatcherType
    BY BatchSizes DEF BatchInv, BatchTyped, RunnerType
  <2>2. watcher[p].pc # "none" => streams'[p] = streams[p]
    OBVIOUS
  <2>3. watcher[p].pc = "none" => watcher[p].ended = {} /\ ~watcher[p].event
    BY <2>1 DEF PersonOK
  <2> QED
    BY <1>1, <1>5, <2>1, <2>2, <2>3 DEF PersonOK
<1> QED
  BY <1>3, <1>4, <1>5

LEMMA LeadsStartsKeeps ==
    ASSUME BatchInv, NEW kinds \in SUBSET StreamKinds, LeadsStarts(kinds)
    PROVE  BatchInv'
<1> DEFINE at == runner.at
<1>1. /\ runner.pc = "calling" /\ "ingest" \in kinds
      /\ streams' = [streams EXCEPT ![at] = kinds]
      /\ runner' = [runner EXCEPT !.pc = "answering"]
      /\ UNCHANGED <<watcher, active, finished, notes, client, asked>>
  BY DEF LeadsStarts
<1>2. runner \in RunnerType /\ at \in Batch /\ watcher[at].pc = "none"
  BY <1>1 DEF BatchInv, BatchTyped, RunnerType, RunnerOK
<1>3. runner' \in RunnerType /\ runner'.pc = "answering" /\ runner'.at = at
  BY <1>1, <1>2 DEF RunnerType
<1>4. /\ streams' \in [Batch -> SUBSET StreamKinds] /\ streams'[at] = kinds
      /\ \A p \in Batch : p # at => streams'[p] = streams[p]
  BY <1>1, <1>2 DEF BatchInv, BatchTyped
<1>5. \A p \in Batch : watcher[p].pc # "none" => streams'[p] = streams[p]
  BY <1>2, <1>4
<1>6. \A p \in Batch : PersonOK(p)'
  <2> TAKE p \in Batch
  <2>1. p \in Nat /\ at \in Nat /\ PersonOK(p)
    BY <1>2, BatchSizes DEF BatchInv
  <2>2. p <= at \/ streams'[p] = {}
    BY <1>4, <2>1 DEF PersonOK
  <2>3. (p > at => watcher[p].pc = "none") /\ (p < at => watcher[p].pc # "none" /\ watcher[p].event)
    BY <2>1 DEF PersonOK
  <2> QED
    BY <1>1, <1>3, <1>4, <1>5, <2>2, <2>3, RunnerMoved
<1>7. FinishedOK' /\ BatchTyped'
  BY <1>1, <1>3, <1>4, <1>5, RunnerMoved
<1>8. RunnerOK'
  BY <1>1, <1>2, <1>3, <1>4 DEF BatchInv, RunnerOK
<1>9. NotesOK' /\ DoneOK'
  BY <1>1, <1>3 DEF BatchInv, NotesOK, DoneOK, Notes
<1> QED
  BY <1>6, <1>7, <1>8, <1>9 DEF BatchInv

LEMMA WatchKeeps ==
    ASSUME BatchInv, Watch
    PROVE  BatchInv'
<1> DEFINE p == runner.at
           kinds == streams[p]
           w == [pc |-> "reading", ended |-> StreamKinds \ kinds, event |-> FALSE]
<1>1. /\ runner.pc = "answering"
      /\ active' = active \cup ({p} \X kinds)
      /\ watcher' = [watcher EXCEPT ![p] = w]
      /\ finished' = [finished EXCEPT !["embedding"] = @ + (IF "embedding" \in kinds THEN 0 ELSE 1)]
      /\ runner' = [runner EXCEPT !.pc = "waiting"]
      /\ UNCHANGED <<streams, notes, client, asked>>
  BY DEF Watch
<1>2. /\ runner \in RunnerType /\ p \in Batch /\ watcher[p].pc = "none" /\ "ingest" \in kinds
      /\ kinds \in SUBSET StreamKinds /\ watcher[p].ended = {}
  <2>1. runner \in RunnerType /\ p \in Batch /\ watcher[p].pc = "none" /\ "ingest" \in kinds
    BY <1>1 DEF BatchInv, BatchTyped, RunnerType, RunnerOK
  <2> QED
    BY <2>1 DEF BatchInv, BatchTyped, PersonOK
<1>3. runner' \in RunnerType /\ runner'.pc = "waiting" /\ runner'.at = p
  BY <1>1, <1>2 DEF RunnerType
<1>4. /\ w \in WatcherType /\ w.pc = "reading" /\ w.ended = StreamKinds \ kinds /\ ~w.event
      /\ "ingest" \notin w.ended
  BY <1>2 DEF WatcherType
<1> HIDE DEF w
<1>5. /\ watcher' \in [Batch -> WatcherType] /\ watcher'[p] = w
      /\ \A q \in Batch : q # p => watcher'[q] = watcher[q]
  BY <1>1, <1>2, <1>4 DEF BatchInv, BatchTyped
<1>6. /\ finished' \in [StreamKinds -> Nat]
      /\ finished'["ingest"] = finished["ingest"]
      /\ finished'["embedding"] = finished["embedding"] + (IF "embedding" \in kinds THEN 0 ELSE 1)
  BY <1>1, BatchSizes DEF BatchInv, BatchTyped
<1>7. active' \subseteq Batch \X StreamKinds
  BY <1>1, <1>2 DEF BatchInv, BatchTyped
<1>8. BatchTyped'
  BY <1>1, <1>3, <1>5, <1>6, <1>7 DEF BatchInv, BatchTyped
<1>9. \A q \in Batch : PersonOK(q)'
  <2> TAKE q \in Batch
  <2>1. q \in Nat /\ p \in Nat /\ PersonOK(q)
    BY <1>2, BatchSizes DEF BatchInv
  <2>2. CASE q = p
    BY <1>1, <1>2, <1>3, <1>4, <1>5, <2>1, <2>2, BatchSizes DEF PersonOK
  <2>3. CASE q # p
    BY <1>1, <1>3, <1>5, <2>1, <2>3 DEF PersonOK
  <2> QED
    BY <2>2, <2>3
<1>10. RunnerOK'
  BY <1>1, <1>2, <1>3, <1>4, <1>5 DEF BatchInv, RunnerOK
<1>11. FinishedOK'
  <2>1. CountedOf("ingest")' = CountedOf("ingest")
    BY <1>2, <1>4, <1>5 DEF CountedOf
  <2>2. "embedding" \in kinds => CountedOf("embedding")' = CountedOf("embedding")
    BY <1>1, <1>2, <1>4, <1>5 DEF CountedOf
  <2>3. "embedding" \notin kinds => /\ CountedOf("embedding")' = CountedOf("embedding") \cup {p}
                                    /\ p \notin CountedOf("embedding")
    BY <1>1, <1>2, <1>4, <1>5, BatchSizes DEF CountedOf
  <2>4. "embedding" \notin kinds =>
            Cardinality(CountedOf("embedding")') = Cardinality(CountedOf("embedding")) + 1
    BY <1>2, <2>3, OneMoreCounted
  <2>5. /\ finished["ingest"] = Cardinality(CountedOf("ingest"))
        /\ finished["embedding"] = Cardinality(CountedOf("embedding"))
    BY BatchSizes DEF BatchInv, FinishedOK
  <2>6. Cardinality(CountedOf("embedding")) \in Nat
    BY CountedIsFinite
  <2> QED
    BY <1>6, <2>1, <2>2, <2>4, <2>5, <2>6, BatchSizes DEF FinishedOK
<1>12. NotesOK'
  <2>1. \A k \in StreamKinds : finished[k] <= finished'[k]
    <3>1. \A k \in StreamKinds : finished[k] \in Nat
      BY DEF BatchInv, BatchTyped
    <3> QED
      BY <1>6, <3>1, BatchSizes
  <2> QED
    BY <1>1, <1>6, <2>1, NotesStay DEF BatchInv
<1>13. DoneOK'
  BY <1>1, <1>3, <1>4, <1>5 DEF BatchInv, DoneOK, Notes
<1> QED
  BY <1>8, <1>9, <1>10, <1>11, <1>12, <1>13 DEF BatchInv

LEMMA GoOnKeeps ==
    ASSUME BatchInv, GoOn
    PROVE  BatchInv'
<1> DEFINE at == runner.at
<1>1. /\ runner.pc = "waiting" /\ watcher[at].event
      /\ runner' = IF at < People THEN [pc |-> "calling", at |-> at + 1]
                   ELSE [runner EXCEPT !.pc = "gathering"]
      /\ UNCHANGED <<streams, watcher, active, finished, notes, client, asked>>
  BY DEF GoOn
<1>2. runner \in RunnerType /\ at \in Batch /\ watcher[at].pc # "none" /\ at \in Nat /\ at <= People
  <2>1. runner \in RunnerType /\ at \in Batch /\ watcher[at].pc # "none"
    BY <1>1 DEF BatchInv, BatchTyped, RunnerType, RunnerOK
  <2> QED
    BY <2>1, BatchSizes
<1>3. \/ /\ at < People /\ runner'.pc = "calling" /\ runner'.at = at + 1
      \/ /\ at = People /\ runner'.pc = "gathering" /\ runner'.at = at
  BY <1>1, <1>2, BatchSizes DEF RunnerType
<1>4. runner' \in RunnerType
  BY <1>1, <1>2, BatchSizes DEF RunnerType
<1>5. streams' \in [Batch -> SUBSET StreamKinds] /\ streams' = streams
  BY <1>1 DEF BatchInv, BatchTyped
<1>6. \A p \in Batch : PersonOK(p)'
  <2> TAKE p \in Batch
  <2>1. p \in Nat /\ PersonOK(p) /\ runner'.at \in Nat /\ runner'.at >= at
    BY <1>2, <1>3, BatchSizes DEF BatchInv
  <2>2. p <= runner'.at \/ streams'[p] = {}
    BY <1>2, <1>5, <2>1 DEF PersonOK
  <2>3. p > runner'.at => watcher[p].pc = "none"
    BY <1>2, <2>1 DEF PersonOK
  <2>4. p < runner'.at => watcher[p].pc # "none" /\ watcher[p].event
    <3> SUFFICES ASSUME p < runner'.at PROVE watcher[p].pc # "none" /\ watcher[p].event
      OBVIOUS
    <3>1. p < at \/ p = at
      BY <1>2, <1>3, <2>1
    <3> QED
      BY <1>1, <1>2, <2>1, <3>1 DEF PersonOK
  <2> QED
    BY <1>1, <1>4, <1>5, <2>2, <2>3, <2>4, RunnerMoved
<1>7. FinishedOK' /\ BatchTyped'
  BY <1>1, <1>4, <1>5, RunnerMoved
<1>8. RunnerOK'
  <2>1. at < People => watcher[at + 1].pc = "none" /\ streams[at + 1] = {}
    <3> SUFFICES ASSUME at < People PROVE watcher[at + 1].pc = "none" /\ streams[at + 1] = {}
      OBVIOUS
    <3>1. at + 1 \in Batch /\ at + 1 > at
      BY <1>2, BatchSizes
    <3> QED
      BY <3>1 DEF BatchInv, PersonOK
  <2> QED
    BY <1>1, <1>2, <1>3, <2>1 DEF BatchInv, RunnerOK
<1>9. NotesOK' /\ DoneOK'
  BY <1>1, <1>3 DEF BatchInv, NotesOK, DoneOK, Notes
<1> QED
  BY <1>6, <1>7, <1>8, <1>9 DEF BatchInv

\* The line that is appended.
LEMMA Appended ==
    ASSUME NEW T, NEW s \in Seq(T), NEW n \in T, NEW t, t = Append(s, n)
    PROVE  /\ t \in Seq(T) /\ Len(s) \in Nat /\ Len(t) = Len(s) + 1
           /\ t[Len(s) + 1] = n
OBVIOUS

\* An error is told.
LEMMA ErrorTold ==
    ASSUME BatchTyped, notes' = Append(notes, Note("error", 0, FALSE))
    PROVE  /\ Note("error", 0, FALSE) \in NoteType
           /\ Note("error", 0, FALSE).type = "error" /\ ~Note("error", 0, FALSE).last
           /\ Notes("error")' # {}
<1>1. PICK n : n = Note("error", 0, FALSE)
  OBVIOUS
<1>2. n \in NoteType /\ n.type = "error" /\ ~n.last
  BY <1>1 DEF Note, NoteType
<1>3. notes \in Seq(NoteType) /\ notes' = Append(notes, n)
  BY <1>1 DEF BatchTyped
<1>4. /\ notes' \in Seq(NoteType) /\ Len(notes) \in Nat /\ Len(notes') = Len(notes) + 1
      /\ notes'[Len(notes) + 1] = n
  <2>1. PICK s, t : s = notes /\ t = notes'
    OBVIOUS
  <2>2. s \in Seq(NoteType) /\ t = Append(s, n) /\ n \in NoteType
    BY <1>2, <1>3, <2>1
  <2>3. t \in Seq(NoteType) /\ Len(s) \in Nat /\ Len(t) = Len(s) + 1 /\ t[Len(s) + 1] = n
    BY <2>2, Appended
  <2> QED
    BY <2>1, <2>3
<1>5. Len(notes) + 1 \in DOMAIN notes'
  BY <1>4
<1>6. Len(notes) + 1 \in Notes("error")'
  BY <1>2, <1>4, <1>5 DEF Notes
<1> QED
  BY <1>1, <1>2, <1>6

LEMMA StartFailsKeeps ==
    ASSUME BatchInv, StartFails
    PROVE  BatchInv'
<1> DEFINE n == Note("error", 0, FALSE)
<1>1. /\ runner.pc \in {"calling", "answering"}
      /\ runner' = [runner EXCEPT !.pc = "stopping"]
      /\ notes' = Append(notes, n)
      /\ UNCHANGED <<streams, watcher, active, finished, client, asked>>
  BY DEF StartFails
<1>2. runner \in RunnerType /\ streams \in [Batch -> SUBSET StreamKinds] /\ finished \in [StreamKinds -> Nat]
  BY DEF BatchInv, BatchTyped
<1>3. runner' \in RunnerType /\ runner'.pc = "stopping" /\ runner'.at = runner.at
  BY <1>1, <1>2 DEF RunnerType
<1>4. n \in NoteType /\ n.type = "error" /\ ~n.last /\ Notes("error")' # {}
  BY <1>1, ErrorTold DEF BatchInv
<1> HIDE DEF n
<1>5. \A p \in Batch : PersonOK(p)'
  BY <1>1, <1>3 DEF BatchInv, PersonOK
<1>6. FinishedOK'
  BY <1>1, <1>2, <1>3, RunnerMoved
<1>7. NotesOK' /\ notes' \in Seq(NoteType)
  <2>1. n.type \notin Counting /\ n.type # "complete"
    BY <1>4 DEF Counting
  <2>2. finished' = finished /\ \A k \in StreamKinds : finished[k] <= finished'[k]
    BY <1>1, <1>2
  <2> QED
    BY <1>1, <1>2, <1>4, <2>1, <2>2, NoteAppended DEF BatchInv
<1>8. BatchTyped'
  BY <1>1, <1>3, <1>7 DEF BatchInv, BatchTyped
<1>9. RunnerOK'
  BY <1>1, <1>3 DEF BatchInv, RunnerOK
<1>10. DoneOK'
  BY <1>4 DEF DoneOK
<1> QED
  BY <1>5, <1>6, <1>7, <1>8, <1>9, <1>10 DEF BatchInv

(***************************************************************************)
(* A watcher that reads takes a step: what it and leads know of the        *)
(* person's streams changes together.                                      *)
(***************************************************************************)
LEMMA WatcherStepKeeps ==
    ASSUME BatchInv, NEW p \in Batch, watcher[p].pc = "reading",
           NEW w \in WatcherType, watcher' = [watcher EXCEPT ![p] = w],
           NEW S \in SUBSET StreamKinds, streams' = [streams EXCEPT ![p] = S],
           w.pc \in {"reading", "over"}, watcher[p].event => w.event,
           w.pc = "reading" => /\ S = StreamKinds \ w.ended /\ w.ended # StreamKinds
                               /\ w.event <=> "ingest" \in w.ended,
           w.pc = "over" => w.event,
           "ingest" \in w.ended => "ingest" \notin S,
           {p} \X S \subseteq active', active' \subseteq active,
           \A q \in Batch : q # p => \A k \in StreamKinds : <<q, k>> \in active => <<q, k>> \in active',
           UNCHANGED <<runner, client, asked>>,
           finished' \in [StreamKinds -> Nat], notes' \in Seq(NoteType)
    PROVE  /\ BatchTyped' /\ (\A q \in Batch : PersonOK(q)') /\ RunnerOK'
           /\ watcher'[p] = w /\ streams'[p] = S
           /\ \A q \in Batch : q # p => watcher'[q] = watcher[q] /\ streams'[q] = streams[q]
           /\ runner.pc # "over" /\ client # "served"
<1>1. /\ watcher' \in [Batch -> WatcherType] /\ watcher'[p] = w
      /\ \A q \in Batch : q # p => watcher'[q] = watcher[q]
  BY DEF BatchInv, BatchTyped
<1>2. /\ streams' \in [Batch -> SUBSET StreamKinds] /\ streams'[p] = S
      /\ \A q \in Batch : q # p => streams'[q] = streams[q]
  BY DEF BatchInv, BatchTyped
<1>3. BatchTyped'
  BY <1>1, <1>2 DEF BatchInv, BatchTyped
<1>4. runner.at \in Batch /\ runner' = runner
  BY DEF BatchInv, BatchTyped, RunnerType
<1>5. /\ runner.pc # "over" /\ client # "served"
      /\ runner.pc \in {"calling", "answering"} => runner.at # p
  BY DEF BatchInv, RunnerOK
<1>6. \A q \in Batch : PersonOK(q)'
  <2> TAKE q \in Batch
  <2>1. PersonOK(q)
    BY DEF BatchInv
  <2>2. CASE q = p
    <3>1. watcher'[q] = w /\ streams'[q] = S /\ w.pc # "none"
      BY <1>1, <1>2, <2>2
    <3>2. ~(q > runner.at) /\ (q < runner.at => w.event)
      BY <2>1, <2>2 DEF PersonOK
    <3> QED
      BY <1>4, <2>2, <3>1, <3>2 DEF PersonOK
  <2>3. CASE q # p
    <3>1. watcher'[q] = watcher[q] /\ streams'[q] = streams[q] /\ streams[q] \in SUBSET StreamKinds
      BY <1>1, <1>2, <2>3 DEF BatchInv, BatchTyped
    <3>2. {q} \X streams[q] \subseteq active => {q} \X streams[q] \subseteq active'
      BY <2>3, <3>1
    <3> QED
      BY <1>4, <2>1, <3>1, <3>2 DEF PersonOK
  <2> QED
    BY <2>2, <2>3
<1>7. RunnerOK'
  <2>1. runner.pc \in {"calling", "answering"} =>
            watcher'[runner.at] = watcher[runner.at] /\ streams'[runner.at] = streams[runner.at]
    BY <1>1, <1>2, <1>4, <1>5
  <2>2. watcher[runner.at].pc # "none" => watcher'[runner.at].pc # "none"
    BY <1>1, <1>4
  <2> QED
    BY <1>4, <1>5, <2>1, <2>2 DEF BatchInv, RunnerOK
<1> QED
  BY <1>1, <1>2, <1>3, <1>5, <1>6, <1>7

\* One person is counted for one kind, or nobody for any.
LEMMA FinishedKeeps ==
    ASSUME BatchInv, NEW p \in Batch, finished' \in [StreamKinds -> Nat],
           \A k \in StreamKinds :
              \/ finished'[k] = finished[k] /\ CountedOf(k)' = CountedOf(k)
              \/ /\ finished'[k] = finished[k] + 1
                 /\ CountedOf(k)' = CountedOf(k) \cup {p} /\ p \notin CountedOf(k)
    PROVE  FinishedOK' /\ \A k \in StreamKinds : finished[k] <= finished'[k]
<1>1. ASSUME NEW k \in StreamKinds
      PROVE  finished'[k] = Cardinality(CountedOf(k)') /\ finished[k] <= finished'[k]
  <2>1. finished[k] = Cardinality(CountedOf(k)) /\ finished[k] \in Nat
    BY <1>1 DEF BatchInv, FinishedOK, BatchTyped
  <2>2. CASE CountedOf(k)' = CountedOf(k) /\ finished'[k] = finished[k]
    BY <2>1, <2>2
  <2>3. CASE /\ finished'[k] = finished[k] + 1
             /\ CountedOf(k)' = CountedOf(k) \cup {p} /\ p \notin CountedOf(k)
    <3>1. Cardinality(CountedOf(k)') = Cardinality(CountedOf(k)) + 1
      BY <2>3, OneMoreCounted
    <3> QED
      BY <2>1, <2>3, <3>1
  <2> QED
    BY <2>2, <2>3
<1> QED
  BY <1>1 DEF FinishedOK

\* A watcher's line is a count: the runner and the client did not move.
LEMMA CountTold ==
    ASSUME BatchInv, NEW n \in NoteType, notes' = Append(notes, n), n.type \in Counting,
           UNCHANGED <<runner, client>>, runner.pc # "over", NEW p \in Batch,
           \A q \in Batch : q # p => watcher'[q] = watcher[q],
           watcher'[p].pc = "over" => watcher'[p].ended = StreamKinds
    PROVE  DoneOK'
<1>1. Notes("error")' = {} => Notes("error") = {}
  <2> SUFFICES ASSUME NEW i \in Notes("error") PROVE i \in Notes("error")'
    OBVIOUS
  <2>1. notes \in Seq(NoteType) /\ i \in 1..Len(notes) /\ notes[i].type = "error"
    BY DEF Notes, BatchInv, BatchTyped
  <2>2. notes'[i] = notes[i] /\ Len(notes') = Len(notes) + 1 /\ notes' \in Seq(NoteType)
    BY <2>1
  <2>3. i \in DOMAIN notes'
    BY <2>1, <2>2
  <2> QED
    BY <2>1, <2>2, <2>3 DEF Notes
<1>2. client' = client /\ runner' = runner
  OBVIOUS
<1> QED
  BY <1>1, <1>2 DEF BatchInv, DoneOK

LEMMA WatcherRecord ==
    ASSUME NEW r \in WatcherType, NEW d \in SUBSET StreamKinds, NEW x \in BOOLEAN,
           NEW y \in {"none", "reading", "over"}
    PROVE  [[[r EXCEPT !.ended = d] EXCEPT !.event = x] EXCEPT !.pc = y]
               = [pc |-> y, ended |-> d, event |-> x]
<1>1. PICK r1 : r1 = [r EXCEPT !.ended = d]
  OBVIOUS
<1>2. r1 \in WatcherType /\ r1 = [pc |-> r.pc, ended |-> d, event |-> r.event]
  BY <1>1 DEF WatcherType
<1>3. PICK r2 : r2 = [r1 EXCEPT !.event = x]
  OBVIOUS
<1>4. r2 \in WatcherType /\ r2 = [pc |-> r1.pc, ended |-> r1.ended, event |-> x]
  BY <1>2, <1>3 DEF WatcherType
<1>5. [r2 EXCEPT !.pc = y] = [pc |-> y, ended |-> r2.ended, event |-> r2.event]
  BY <1>4 DEF WatcherType
<1>6. r2.ended = d /\ r2.event = x
  BY <1>2, <1>4
<1> QED
  BY <1>1, <1>3, <1>5, <1>6

LEMMA IngestCompletedKeeps ==
    ASSUME BatchInv, NEW p \in Batch, IngestCompleted(p)
    PROVE  BatchInv'
<1> DEFINE was == watcher[p]
           m == finished["ingest"] + 1
           n == Note("ingest_complete", m, m >= People)
           S == streams[p] \ {"ingest"}
           e == was.ended \cup {"ingest"}
           w == [pc |-> IF e = StreamKinds THEN "over" ELSE was.pc, ended |-> e, event |-> TRUE]
<1>1. /\ was.pc = "reading" /\ "ingest" \notin was.ended
      /\ streams' = [streams EXCEPT ![p] = S]
      /\ finished' = [finished EXCEPT !["ingest"] = m]
      /\ active' = active \ {<<p, "ingest">>}
      /\ notes' = Append(notes, n)
      /\ UNCHANGED <<runner, client, asked>>
  BY DEF IngestCompleted, Stops
<1>2. was \in WatcherType /\ streams[p] \in SUBSET StreamKinds /\ PersonOK(p) /\ watcher \in [Batch -> WatcherType]
  BY DEF BatchInv, BatchTyped
<1>3. watcher' = [watcher EXCEPT ![p] = w]
  <2>1. watcher' = [watcher EXCEPT ![p].ended = @ \cup {"ingest"},
                                   ![p].event = @ \/ "ingest" = "ingest",
                                   ![p].pc = IF e = StreamKinds THEN "over" ELSE @]
    BY DEF IngestCompleted, Ended
  <2>2. [[[was EXCEPT !.ended = e] EXCEPT !.event = was.event \/ "ingest" = "ingest"]
            EXCEPT !.pc = IF e = StreamKinds THEN "over" ELSE was.pc] = w
    <3>1. (was.event \/ "ingest" = "ingest") = TRUE
      BY <1>2
    <3>2. /\ e \in SUBSET StreamKinds /\ TRUE \in BOOLEAN /\ was.event \in BOOLEAN
          /\ (IF e = StreamKinds THEN "over" ELSE was.pc) \in {"none", "reading", "over"}
      BY <1>2, BatchSizes DEF WatcherType
    <3> HIDE DEF was, e
    <3> QED
      BY ZenonT(60), <1>2, <3>1, <3>2, WatcherRecord
  <2> QED
    BY <1>2, <2>1, <2>2
<1>4. /\ w \in WatcherType /\ w.ended = e /\ w.event /\ e \in SUBSET StreamKinds
      /\ w.pc = IF e = StreamKinds THEN "over" ELSE "reading"
  BY <1>1, <1>2, BatchSizes DEF WatcherType
<1> HIDE DEF w
<1>5. streams[p] = StreamKinds \ was.ended /\ S \in SUBSET StreamKinds /\ S = StreamKinds \ e
  BY <1>1, <1>2 DEF PersonOK
<1>6. /\ finished' \in [StreamKinds -> Nat] /\ finished'["ingest"] = m
      /\ finished'["embedding"] = finished["embedding"]
      /\ m \in Nat /\ m > finished["ingest"]
  BY <1>1, BatchSizes DEF BatchInv, BatchTyped
<1>7. n \in NoteType /\ n.type = "ingest_complete" /\ n.done = m /\ n.last = (m >= People)
  BY <1>6, BatchSizes DEF Note, NoteType, Counting
<1> HIDE DEF n
<1>8. notes' \in Seq(NoteType)
  BY <1>1, <1>7 DEF BatchInv, BatchTyped
<1>9. /\ {p} \X S \subseteq active' /\ active' \subseteq active
      /\ \A q \in Batch : q # p => \A k \in StreamKinds : <<q, k>> \in active => <<q, k>> \in active'
  BY <1>1, <1>2 DEF PersonOK
<1>10. /\ BatchTyped' /\ (\A q \in Batch : PersonOK(q)') /\ RunnerOK'
       /\ watcher'[p] = w /\ streams'[p] = S
       /\ \A q \in Batch : q # p => watcher'[q] = watcher[q] /\ streams'[q] = streams[q]
       /\ runner.pc # "over" /\ client # "served"
  <2>1. /\ w.pc \in {"reading", "over"} /\ (watcher[p].event => w.event)
        /\ w.pc = "reading" => /\ S = StreamKinds \ w.ended /\ w.ended # StreamKinds
                               /\ w.event <=> "ingest" \in w.ended
        /\ w.pc = "over" => w.event
        /\ "ingest" \in w.ended => "ingest" \notin S
    BY <1>4, <1>5
  <2>2. watcher[p].pc = "reading" /\ S \in SUBSET StreamKinds
    BY <1>1, <1>5
  <2> HIDE DEF S, e, was, m
  <2> QED
    BY <1>1, <1>3, <1>4, <1>6, <1>8, <1>9, <2>1, <2>2, WatcherStepKeeps
<1>11. FinishedOK' /\ \A k \in StreamKinds : finished[k] <= finished'[k]
  <2>1. CountedOf("ingest")' = CountedOf("ingest") \cup {p} /\ p \notin CountedOf("ingest")
    BY <1>1, <1>4, <1>10 DEF CountedOf
  <2>2. CountedOf("embedding")' = CountedOf("embedding")
    BY <1>1, <1>4, <1>10 DEF CountedOf
  <2> QED
    BY <1>6, <2>1, <2>2, BatchSizes, FinishedKeeps
<1>12. NotesOK'
  <2>1. /\ n.type \in Counting /\ n.type # "error" /\ n.type # "complete"
        /\ n.done = finished'[KindOfNote(n.type)] /\ n.done > finished[KindOfNote(n.type)]
        /\ n.last => n.done >= People
    BY <1>6, <1>7 DEF Counting, KindOfNote
  <2> QED
    BY <1>1, <1>6, <1>7, <1>10, <1>11, <2>1, NoteAppended DEF BatchInv
<1>13. DoneOK'
  <2>1. n.type \in Counting
    BY <1>7 DEF Counting
  <2>2. watcher'[p].pc = "over" => watcher'[p].ended = StreamKinds
    BY <1>4, <1>10
  <2> QED
    BY <1>1, <1>7, <1>10, <2>1, <2>2, CountTold
<1> QED
  BY <1>10, <1>11, <1>12, <1>13 DEF BatchInv

LEMMA EmbeddingEndedKeeps ==
    ASSUME BatchInv, NEW p \in Batch, NEW ok \in BOOLEAN, EmbeddingEnded(p, ok)
    PROVE  BatchInv'
<1> DEFINE was == watcher[p]
           m == finished["embedding"] + 1
           n == Note("embedding_progress", m, ok /\ m >= People)
           S == streams[p] \ {"embedding"}
           e == was.ended \cup {"embedding"}
           w == [pc |-> IF e = StreamKinds THEN "over" ELSE was.pc, ended |-> e, event |-> was.event]
<1>1. /\ was.pc = "reading" /\ "embedding" \notin was.ended
      /\ streams' = [streams EXCEPT ![p] = S]
      /\ finished' = [finished EXCEPT !["embedding"] = m]
      /\ active' = active \ {<<p, "embedding">>}
      /\ notes' = Append(notes, n)
      /\ UNCHANGED <<runner, client, asked>>
  BY DEF EmbeddingEnded, Stops
<1>2. was \in WatcherType /\ streams[p] \in SUBSET StreamKinds /\ PersonOK(p) /\ watcher \in [Batch -> WatcherType]
  BY DEF BatchInv, BatchTyped
<1>3. watcher' = [watcher EXCEPT ![p] = w]
  <2>1. watcher' = [watcher EXCEPT ![p].ended = @ \cup {"embedding"},
                                   ![p].event = @ \/ "embedding" = "ingest",
                                   ![p].pc = IF e = StreamKinds THEN "over" ELSE @]
    BY DEF EmbeddingEnded, Ended
  <2>2. [[[was EXCEPT !.ended = e] EXCEPT !.event = was.event \/ "embedding" = "ingest"]
            EXCEPT !.pc = IF e = StreamKinds THEN "over" ELSE was.pc] = w
    <3>1. /\ e \in SUBSET StreamKinds /\ TRUE \in BOOLEAN /\ FALSE \in BOOLEAN
          /\ (IF e = StreamKinds THEN "over" ELSE was.pc) \in {"none", "reading", "over"}
      BY <1>2, BatchSizes DEF WatcherType
    <3>2. CASE was.event = TRUE
      <4>1. (was.event \/ "embedding" = "ingest") = TRUE
        BY <3>2
      <4> HIDE DEF was, e
      <4>2. [[[was EXCEPT !.ended = e] EXCEPT !.event = TRUE]
                EXCEPT !.pc = IF e = StreamKinds THEN "over" ELSE was.pc]
            = [pc |-> IF e = StreamKinds THEN "over" ELSE was.pc, ended |-> e, event |-> TRUE]
        BY ZenonT(120), <1>2, <3>1, WatcherRecord
      <4> QED
        BY <3>2, <4>1, <4>2
    <3>3. CASE was.event = FALSE
      <4>1. (was.event \/ "embedding" = "ingest") = FALSE
        BY <3>3
      <4> HIDE DEF was, e
      <4> QED
        BY ZenonT(60), <1>2, <3>1, <3>3, <4>1, WatcherRecord
    <3>4. was.event = TRUE \/ was.event = FALSE
      BY <1>2 DEF WatcherType
    <3> QED
      BY <3>2, <3>3, <3>4
  <2> QED
    BY <1>2, <2>1, <2>2
<1>4. /\ w \in WatcherType /\ w.ended = e /\ w.event = was.event /\ e \in SUBSET StreamKinds
      /\ w.pc = IF e = StreamKinds THEN "over" ELSE "reading"
  BY <1>1, <1>2, BatchSizes DEF WatcherType
<1> HIDE DEF w
<1>5. /\ streams[p] = StreamKinds \ was.ended /\ S \in SUBSET StreamKinds /\ S = StreamKinds \ e
      /\ was.event <=> "ingest" \in was.ended
  BY <1>1, <1>2 DEF PersonOK
<1>6. /\ finished' \in [StreamKinds -> Nat] /\ finished'["embedding"] = m
      /\ finished'["ingest"] = finished["ingest"]
      /\ m \in Nat /\ m > finished["embedding"]
  BY <1>1, BatchSizes DEF BatchInv, BatchTyped
<1>7. n \in NoteType /\ n.type = "embedding_progress" /\ n.done = m /\ n.last = (ok /\ m >= People)
  BY <1>6, BatchSizes DEF Note, NoteType, Counting
<1> HIDE DEF n
<1>8. notes' \in Seq(NoteType)
  BY <1>1, <1>7 DEF BatchInv, BatchTyped
<1>9. /\ {p} \X S \subseteq active' /\ active' \subseteq active
      /\ \A q \in Batch : q # p => \A k \in StreamKinds : <<q, k>> \in active => <<q, k>> \in active'
  BY <1>1, <1>2 DEF PersonOK
<1>10. w.pc = "over" => w.event
  <2> SUFFICES ASSUME e = StreamKinds PROVE FALSE \/ was.event
    BY <1>4
  <2>1. "ingest" \in was.ended
    BY BatchSizes
  <2> QED
    BY <1>1, <1>2, <1>5, <2>1 DEF PersonOK
<1>11. /\ BatchTyped' /\ (\A q \in Batch : PersonOK(q)') /\ RunnerOK'
       /\ watcher'[p] = w /\ streams'[p] = S
       /\ \A q \in Batch : q # p => watcher'[q] = watcher[q] /\ streams'[q] = streams[q]
       /\ runner.pc # "over" /\ client # "served"
  <2>1. /\ w.pc \in {"reading", "over"} /\ (watcher[p].event => w.event)
        /\ w.pc = "reading" => /\ S = StreamKinds \ w.ended /\ w.ended # StreamKinds
                               /\ w.event <=> "ingest" \in w.ended
        /\ "ingest" \in w.ended => "ingest" \notin S
    BY <1>4, <1>5
  <2>2. watcher[p].pc = "reading" /\ S \in SUBSET StreamKinds
    BY <1>1, <1>5
  <2> HIDE DEF S, e, was, m
  <2> QED
    BY <1>1, <1>3, <1>4, <1>6, <1>8, <1>9, <1>10, <2>1, <2>2, WatcherStepKeeps
<1>12. FinishedOK' /\ \A k \in StreamKinds : finished[k] <= finished'[k]
  <2>1. /\ CountedOf("embedding")' = CountedOf("embedding") \cup {p}
        /\ p \notin CountedOf("embedding")
    BY <1>1, <1>4, <1>11 DEF CountedOf
  <2>2. CountedOf("ingest")' = CountedOf("ingest")
    BY <1>1, <1>4, <1>11 DEF CountedOf
  <2> QED
    BY <1>6, <2>1, <2>2, BatchSizes, FinishedKeeps
<1>13. NotesOK'
  <2>1. /\ n.type \in Counting /\ n.type # "error" /\ n.type # "complete"
        /\ n.done = finished'[KindOfNote(n.type)] /\ n.done > finished[KindOfNote(n.type)]
        /\ n.last => n.done >= People
    BY <1>6, <1>7 DEF Counting, KindOfNote
  <2> QED
    BY <1>1, <1>6, <1>7, <1>11, <1>12, <2>1, NoteAppended DEF BatchInv
<1>14. DoneOK'
  <2>1. n.type \in Counting
    BY <1>7 DEF Counting
  <2>2. watcher'[p].pc = "over" => watcher'[p].ended = StreamKinds
    BY <1>4, <1>11
  <2> QED
    BY <1>1, <1>7, <1>11, <2>1, <2>2, CountTold
<1> QED
  BY <1>11, <1>12, <1>13, <1>14 DEF BatchInv

LEMMA EventRecord ==
    ASSUME NEW r \in WatcherType, NEW x \in BOOLEAN
    PROVE  [r EXCEPT !.event = x] = [pc |-> r.pc, ended |-> r.ended, event |-> x]
BY DEF WatcherType

LEMMA OverRecord ==
    ASSUME NEW r \in WatcherType
    PROVE  /\ [[r EXCEPT !.pc = "over"] EXCEPT !.event = TRUE]
                  = [pc |-> "over", ended |-> r.ended, event |-> TRUE]
           /\ [pc |-> "over", ended |-> r.ended, event |-> TRUE] \in WatcherType
<1>1. PICK r1 : r1 = [r EXCEPT !.pc = "over"]
  OBVIOUS
<1>2. r1 \in WatcherType /\ r1 = [pc |-> "over", ended |-> r.ended, event |-> r.event]
  BY <1>1 DEF WatcherType
<1>3. [r1 EXCEPT !.event = TRUE] = [pc |-> r1.pc, ended |-> r1.ended, event |-> TRUE]
  BY <1>2, EventRecord
<1> QED
  BY <1>1, <1>2, <1>3 DEF WatcherType

\* A watcher that ends with an error, of its ingest or of its connection.
LEMMA WatcherFails ==
    ASSUME BatchInv, NEW p \in Batch, watcher[p].pc = "reading", NEW S \in SUBSET streams[p],
           S = streams[p] \/ ("ingest" \notin watcher[p].ended /\ S = streams[p] \ {"ingest"}),
           streams' = [streams EXCEPT ![p] = S],
           watcher' = [watcher EXCEPT ![p].pc = "over", ![p].event = TRUE],
           finished' = [finished EXCEPT !["embedding"] = @ +
               (IF "ingest" \in S \cup watcher[p].ended \/ "embedding" \in watcher[p].ended THEN 0 ELSE 1)],
           notes' = Append(notes, Note("error", 0, FALSE)),
           UNCHANGED <<runner, active, client, asked>>
    PROVE  BatchInv'
<1> DEFINE was == watcher[p]
           n == Note("error", 0, FALSE)
           w == [pc |-> "over", ended |-> was.ended, event |-> TRUE]
<1>1. was \in WatcherType /\ streams[p] \in SUBSET StreamKinds /\ PersonOK(p) /\ watcher \in [Batch -> WatcherType]
  BY DEF BatchInv, BatchTyped
<1>2. watcher' = [watcher EXCEPT ![p] = w] /\ w \in WatcherType
  BY <1>1, OverRecord
<1>3. w.pc = "over" /\ w.ended = was.ended /\ w.event
  OBVIOUS
<1> HIDE DEF w
<1>4. streams[p] = StreamKinds \ was.ended /\ S \in SUBSET StreamKinds
  BY <1>1 DEF PersonOK
<1>5. n \in NoteType /\ n.type = "error" /\ ~n.last /\ Notes("error")' # {}
  BY ErrorTold DEF BatchInv
<1> HIDE DEF n
<1>6. notes' = Append(notes, n) /\ notes' \in Seq(NoteType)
  <2>1. PICK s, t : s = notes /\ t = notes'
    OBVIOUS
  <2>2. s \in Seq(NoteType) /\ t = Append(s, n) /\ n \in NoteType
    BY <1>5, <2>1 DEF BatchInv, BatchTyped, n
  <2>3. t \in Seq(NoteType)
    BY <2>2, Appended
  <2> QED
    BY <2>1, <2>2, <2>3
<1>7. /\ finished' \in [StreamKinds -> Nat] /\ finished'["ingest"] = finished["ingest"]
      /\ finished'["embedding"] = finished["embedding"] +
             (IF "ingest" \in S \cup was.ended \/ "embedding" \in was.ended THEN 0 ELSE 1)
  BY BatchSizes DEF BatchInv, BatchTyped
<1>8. /\ BatchTyped' /\ (\A q \in Batch : PersonOK(q)') /\ RunnerOK'
      /\ watcher'[p] = w /\ streams'[p] = S
      /\ \A q \in Batch : q # p => watcher'[q] = watcher[q] /\ streams'[q] = streams[q]
      /\ runner.pc # "over" /\ client # "served"
  <2>1. /\ w.pc \in {"reading", "over"} /\ (watcher[p].event => w.event)
        /\ w.pc = "reading" => /\ S = StreamKinds \ w.ended /\ w.ended # StreamKinds
                               /\ w.event <=> "ingest" \in w.ended
        /\ w.pc = "over" => w.event
        /\ "ingest" \in w.ended => "ingest" \notin S
    BY <1>3, <1>4
  <2>2. /\ {p} \X S \subseteq active' /\ active' \subseteq active
        /\ \A q \in Batch : q # p => \A k \in StreamKinds : <<q, k>> \in active => <<q, k>> \in active'
    BY <1>1 DEF PersonOK
  <2> HIDE DEF was
  <2> QED
    BY <1>2, <1>4, <1>6, <1>7, <2>1, <2>2, WatcherStepKeeps
<1>9. FinishedOK' /\ \A k \in StreamKinds : finished[k] <= finished'[k]
  <2>1. CountedOf("ingest")' = CountedOf("ingest")
    BY <1>3, <1>8 DEF CountedOf
  <2>2. "ingest" \in S \cup was.ended \/ "embedding" \in was.ended =>
            CountedOf("embedding")' = CountedOf("embedding")
    BY ZenonT(60), <1>3, <1>4, <1>8 DEF CountedOf
  <2>3. ~("ingest" \in S \cup was.ended \/ "embedding" \in was.ended) =>
            CountedOf("embedding")' = CountedOf("embedding") \cup {p} /\ p \notin CountedOf("embedding")
    BY ZenonT(60), <1>3, <1>4, <1>8 DEF CountedOf
  <2>4. finished["embedding"] \in Nat
    BY BatchSizes DEF BatchInv, BatchTyped
  <2>5. \/ finished'["embedding"] = finished["embedding"] /\ CountedOf("embedding")' = CountedOf("embedding")
        \/ /\ finished'["embedding"] = finished["embedding"] + 1
           /\ CountedOf("embedding")' = CountedOf("embedding") \cup {p} /\ p \notin CountedOf("embedding")
    BY <1>7, <2>2, <2>3, <2>4
  <2> QED
    BY <1>7, <2>1, <2>5, BatchSizes, FinishedKeeps
<1>10. NotesOK'
  <2>1. n.type \notin Counting /\ n.type # "complete"
    BY <1>5 DEF Counting
  <2> QED
    BY <1>5, <1>6, <1>7, <1>8, <1>9, <2>1, NoteAppended DEF BatchInv
<1>11. DoneOK'
  BY <1>5 DEF DoneOK
<1> QED
  BY <1>8, <1>9, <1>10, <1>11 DEF BatchInv

LEMMA IngestErrorKeeps ==
    ASSUME BatchInv, NEW p \in Batch, IngestError(p)
    PROVE  BatchInv'
<1> DEFINE S == streams[p] \ {"ingest"}
<1>1. /\ watcher[p].pc = "reading" /\ "ingest" \notin watcher[p].ended
      /\ streams' = [streams EXCEPT ![p] = S]
      /\ finished' = [finished EXCEPT !["embedding"] = @ + (IF "embedding" \in watcher[p].ended THEN 0 ELSE 1)]
      /\ watcher' = [watcher EXCEPT ![p].pc = "over", ![p].event = TRUE]
      /\ notes' = Append(notes, Note("error", 0, FALSE))
      /\ UNCHANGED <<runner, active, client, asked>>
  BY DEF IngestError, Stops
<1>2. "ingest" \notin S \cup watcher[p].ended /\ S \in SUBSET streams[p]
  BY <1>1
<1>3. finished' = [finished EXCEPT !["embedding"] = @ +
          (IF "ingest" \in S \cup watcher[p].ended \/ "embedding" \in watcher[p].ended THEN 0 ELSE 1)]
  BY <1>1, <1>2
<1>4. "ingest" \notin watcher[p].ended /\ S = streams[p] \ {"ingest"}
  BY <1>1
<1> HIDE DEF S
<1> QED
  BY <1>1, <1>2, <1>3, <1>4, WatcherFails

LEMMA SubscriptionFailsKeeps ==
    ASSUME BatchInv, NEW p \in Batch, SubscriptionFails(p)
    PROVE  BatchInv'
<1>1. /\ watcher[p].pc = "reading"
      /\ watcher' = [watcher EXCEPT ![p].pc = "over", ![p].event = TRUE]
      /\ notes' = Append(notes, Note("error", 0, FALSE))
      /\ UNCHANGED <<runner, streams, active, finished, client, asked>>
  BY DEF SubscriptionFails
<1>2. /\ PersonOK(p) /\ watcher[p] \in WatcherType /\ streams \in [Batch -> SUBSET StreamKinds]
      /\ finished \in [StreamKinds -> Nat]
  BY DEF BatchInv, BatchTyped
<1>3. "ingest" \in streams[p] \cup watcher[p].ended
  BY <1>1, <1>2, BatchSizes DEF PersonOK
<1>4. finished' = [finished EXCEPT !["embedding"] = @ +
          (IF "ingest" \in streams[p] \cup watcher[p].ended \/ "embedding" \in watcher[p].ended THEN 0 ELSE 1)]
  BY <1>1, <1>2, <1>3, BatchSizes
<1>5. streams' = [streams EXCEPT ![p] = streams[p]]
  BY <1>1, <1>2
<1> QED
  BY <1>1, <1>4, <1>5, WatcherFails

(***************************************************************************)
(* The runner is through, the browser leaves, and what is recorded is      *)
(* cancelled.                                                              *)
(***************************************************************************)
LEMMA ErrorsStay ==
    ASSUME BatchTyped, NEW n \in NoteType, notes' = Append(notes, n)
    PROVE  Notes("error")' = {} => Notes("error") = {}
<1> SUFFICES ASSUME NEW i \in Notes("error") PROVE i \in Notes("error")'
  OBVIOUS
<1>1. notes \in Seq(NoteType) /\ i \in 1..Len(notes) /\ notes[i].type = "error"
  BY DEF Notes, BatchTyped
<1>2. notes'[i] = notes[i] /\ Len(notes') = Len(notes) + 1 /\ notes' \in Seq(NoteType)
  BY <1>1
<1>3. i \in DOMAIN notes'
  BY <1>1, <1>2
<1> QED
  BY <1>1, <1>2, <1>3 DEF Notes

LEMMA FinishKeeps ==
    ASSUME BatchInv, Finish
    PROVE  BatchInv'
<1> DEFINE n == Note("complete", 0, TRUE)
<1>1. /\ \/ runner.pc = "gathering" /\ \A p \in Batch : watcher[p].pc = "over"
         \/ runner.pc = "stopping"
      /\ runner' = [runner EXCEPT !.pc = "over"]
      /\ notes' = Append(notes, n)
      /\ UNCHANGED <<streams, active, finished, client, asked>>
  BY DEF Finish
<1>2. /\ runner \in RunnerType /\ finished \in [StreamKinds -> Nat]
      /\ \A p \in Batch : watcher[p] \in WatcherType
  BY DEF BatchInv, BatchTyped
<1>3. runner' \in RunnerType /\ runner'.pc = "over" /\ runner'.at = runner.at
  BY <1>1, <1>2 DEF RunnerType
<1>4. /\ watcher' \in [Batch -> WatcherType]
      /\ \A p \in Batch : watcher'[p] = IF watcher[p].pc = "reading"
                                        THEN [pc |-> "over", ended |-> watcher[p].ended, event |-> TRUE]
                                        ELSE watcher[p]
  <2>1. watcher' = [p \in Batch |-> IF watcher[p].pc = "reading"
                                    THEN [watcher[p] EXCEPT !.pc = "over", !.event = TRUE]
                                    ELSE watcher[p]]
    BY DEF Finish
  <2>2. \A p \in Batch :
          /\ [watcher[p] EXCEPT !.pc = "over", !.event = TRUE]
                = [pc |-> "over", ended |-> watcher[p].ended, event |-> TRUE]
          /\ [pc |-> "over", ended |-> watcher[p].ended, event |-> TRUE] \in WatcherType
    BY <1>2, OverRecord
  <2> QED
    BY <1>2, <2>1, <2>2
<1>5. \A p \in Batch : /\ watcher'[p].ended = watcher[p].ended
                       /\ watcher'[p].pc = IF watcher[p].pc = "reading" THEN "over" ELSE watcher[p].pc
                       /\ watcher[p].pc = "reading" => watcher'[p].event
                       /\ watcher[p].pc # "reading" => watcher'[p].event = watcher[p].event
  <2> TAKE p \in Batch
  <2>1. CASE watcher[p].pc = "reading"
    BY <1>4, <2>1
  <2>2. CASE watcher[p].pc # "reading"
    BY <1>4, <2>2
  <2> QED
    BY <2>1, <2>2
<1>6. n \in NoteType /\ n.type = "complete"
  BY DEF Note, NoteType
<1> HIDE DEF n
<1>7. client # "served" /\ runner.pc # "over"
  BY <1>1 DEF BatchInv, RunnerOK
<1>8. NotesOK' /\ notes' \in Seq(NoteType)
  <2>1. n.type \notin Counting /\ n.type # "error"
    BY <1>6 DEF Counting
  <2>2. finished' = finished /\ \A k \in StreamKinds : finished[k] <= finished'[k]
    BY <1>1, <1>2
  <2> QED
    BY <1>1, <1>2, <1>3, <1>6, <1>7, <2>1, <2>2, NoteAppended DEF BatchInv
<1>9. BatchTyped'
  BY <1>1, <1>3, <1>4, <1>8 DEF BatchInv, BatchTyped
<1>10. \A p \in Batch : PersonOK(p)'
  <2> TAKE p \in Batch
  <2>1. PersonOK(p) /\ streams' = streams /\ active' = active
    BY <1>1 DEF BatchInv
  <2> QED
    BY <1>3, <1>5, <2>1 DEF PersonOK
<1>11. RunnerOK'
  BY <1>1, <1>3, <1>5, <1>7 DEF RunnerOK
<1>12. FinishedOK'
  <2>1. \A p \in Batch : watcher[p].pc = "reading" => streams[p] = StreamKinds \ watcher[p].ended
    BY DEF BatchInv, PersonOK
  <2>2. ASSUME NEW k PROVE CountedOf(k)' = CountedOf(k)
    <3>1. \A p \in Batch : watcher[p].pc = "reading" => "ingest" \in streams[p] \cup watcher[p].ended
      BY <2>1, BatchSizes
    <3>2. streams' = streams
      BY <1>1
    <3>3. \A p \in Batch : p \in CountedOf(k)' <=> p \in CountedOf(k)
      BY <1>5, <3>1, <3>2 DEF CountedOf
    <3> QED
      BY <3>3 DEF CountedOf
  <2>3. finished' = finished
    BY <1>1
  <2> QED
    BY <2>2, <2>3 DEF BatchInv, FinishedOK
<1>13. DoneOK'
  <2> SUFFICES ASSUME client \in {"reading", "served"}, Notes("error")' = {}
               PROVE  /\ runner'.pc # "stopping"
                      /\ \A p \in Batch : watcher'[p].pc = "over" => watcher'[p].ended = StreamKinds
                      /\ runner'.pc = "over" => \A p \in Batch : watcher'[p].pc = "over"
    BY <1>1 DEF DoneOK
  <2>1. Notes("error") = {}
    BY <1>1, <1>6, ErrorsStay DEF BatchInv
  <2>2. runner.pc # "stopping" /\ \A p \in Batch : watcher[p].pc = "over" => watcher[p].ended = StreamKinds
    BY <2>1 DEF BatchInv, DoneOK
  <2>3. \A p \in Batch : watcher[p].pc = "over"
    BY <1>1, <2>2
  <2> QED
    BY <1>3, <1>5, <2>2, <2>3
<1> QED
  BY <1>8, <1>9, <1>10, <1>11, <1>12, <1>13 DEF BatchInv

\* Steps in which nobody is counted, started or told anything.
LEMMA ClientMoved ==
    ASSUME BatchInv, UNCHANGED <<streams, watcher, active, finished, notes>>,
           runner' \in RunnerType, runner'.at = runner.at, asked' \subseteq active,
           client' \in {"reading", "served", "left", "gone"},
           runner.pc = "over" => runner'.pc = "over"
    PROVE  BatchTyped' /\ (\A p \in Batch : PersonOK(p)') /\ FinishedOK' /\ NotesOK'
<1>1. asked' \subseteq Batch \X StreamKinds
  BY DEF BatchInv, BatchTyped
<1>2. BatchTyped'
  BY <1>1 DEF BatchInv, BatchTyped
<1>3. \A p \in Batch : PersonOK(p)'
  BY DEF BatchInv, PersonOK
<1>4. FinishedOK'
  <2>1. \A k : CountedOf(k)' = CountedOf(k)
    BY DEF CountedOf
  <2> QED
    BY <2>1 DEF BatchInv, FinishedOK
<1>5. NotesOK'
  <2>1. finished' = finished /\ finished \in [StreamKinds -> Nat]
    BY DEF BatchInv, BatchTyped
  <2>2. \A k \in StreamKinds : finished[k] <= finished'[k]
    BY <2>1
  <2> QED
    BY <2>1, <2>2, NotesStay DEF BatchInv
<1> QED
  BY <1>2, <1>3, <1>4, <1>5

LEMMA BrowserHangsUpKeeps ==
    ASSUME BatchInv, BrowserHangsUp
    PROVE  BatchInv'
<1>1. /\ client' = "left"
      /\ runner' = IF runner.pc = "over" THEN runner ELSE [runner EXCEPT !.pc = "stopping"]
      /\ UNCHANGED <<streams, watcher, active, finished, notes, asked>>
      /\ client = "reading"
  BY DEF BrowserHangsUp
<1>2. runner \in RunnerType
  BY DEF BatchInv, BatchTyped
<1>3. /\ runner' \in RunnerType /\ runner'.at = runner.at
      /\ runner'.pc = IF runner.pc = "over" THEN "over" ELSE "stopping"
  BY <1>1, <1>2 DEF RunnerType
<1>4. BatchTyped'
  BY <1>1, <1>3 DEF BatchInv, BatchTyped
<1>5. \A p \in Batch : PersonOK(p)'
  BY <1>1, <1>3 DEF BatchInv, PersonOK
<1>6. FinishedOK'
  <2>1. \A k : CountedOf(k)' = CountedOf(k)
    BY <1>1 DEF CountedOf
  <2> QED
    BY <1>1, <2>1 DEF BatchInv, FinishedOK
<1>7. NotesOK'
  BY <1>1, <1>3 DEF BatchInv, NotesOK
<1>8. RunnerOK'
  BY <1>1, <1>3 DEF BatchInv, RunnerOK
<1>9. DoneOK'
  BY <1>1 DEF DoneOK
<1> QED
  BY <1>4, <1>5, <1>6, <1>7, <1>8, <1>9 DEF BatchInv

LEMMA CleanupKeeps ==
    ASSUME BatchInv, CancelLeftover \/ \E cancelled \in SUBSET active : CleanUpAfterUser(cancelled)
    PROVE  BatchInv'
<1>1. /\ \/ client = "reading" /\ runner.pc = "over" /\ asked' = active /\ client' = "served"
         \/ client = "left" /\ client' = "gone"
      /\ asked' \subseteq active
      /\ UNCHANGED <<runner, streams, watcher, active, finished, notes>>
  BY DEF CancelLeftover, CleanUpAfterUser
<1>2. runner' \in RunnerType /\ runner' = runner
  BY <1>1 DEF BatchInv, BatchTyped
<1>3. BatchTyped' /\ (\A p \in Batch : PersonOK(p)') /\ FinishedOK' /\ NotesOK'
  BY <1>1, <1>2, ClientMoved
<1>4. \A p \in Batch : watcher[p].pc # "none" => {p} \X streams[p] \subseteq active
  BY DEF BatchInv, PersonOK
<1>5. RunnerOK'
  BY <1>1, <1>4 DEF BatchInv, RunnerOK
<1>6. DoneOK'
  BY <1>1 DEF BatchInv, DoneOK, Notes
<1> QED
  BY <1>3, <1>5, <1>6 DEF BatchInv

LEMMA BatchNextKeeps ==
    ASSUME BatchInv, BatchNext \/ UNCHANGED batchVars
    PROVE  BatchInv'
<1>1. CASE UNCHANGED batchVars
  <2>1. UNCHANGED <<runner, streams, watcher, active, finished, notes, client, asked>>
    BY <1>1 DEF batchVars
  <2>2. \A k : CountedOf(k)' = CountedOf(k)
    BY <2>1 DEF CountedOf
  <2> QED
    BY <2>1, <2>2 DEF BatchInv, BatchTyped, PersonOK, RunnerOK, FinishedOK, NotesOK, DoneOK, Notes
<1>2. CASE \E kinds \in SUBSET StreamKinds : LeadsStarts(kinds)
  BY <1>2, LeadsStartsKeeps
<1>3. CASE \E p \in Batch : WatcherStep(p)
  BY <1>3, IngestCompletedKeeps, IngestErrorKeeps, SubscriptionFailsKeeps, EmbeddingEndedKeeps
  DEF WatcherStep
<1> QED
  BY <1>1, <1>2, <1>3, WatchKeeps, StartFailsKeeps, GoOnKeeps, FinishKeeps, CleanupKeeps,
     BrowserHangsUpKeeps DEF BatchNext, BatchStep

-----------------------------------------------------------------------------
(***************************************************************************)
(* What the invariant says of the lines and of leads.                      *)
(***************************************************************************)
LEMMA CountsFollow == BatchInv => CountsAreTrue
<1> SUFFICES ASSUME BatchInv PROVE CountsAreTrue
  OBVIOUS
<1>1. \A k \in StreamKinds : finished[k] \in 0..People
  BY CountedIsFinite DEF BatchInv, FinishedOK
<1>2. BatchTypeOK
  <2>1. finished \in [StreamKinds -> Nat]
    BY DEF BatchInv, BatchTyped
  <2>2. finished \in [StreamKinds -> 0..People]
    BY <1>1, <2>1
  <2>3. runner.pc \in {"calling", "answering", "waiting", "gathering", "stopping", "over"}
    BY DEF BatchInv, BatchTyped, RunnerType
  <2> QED
    BY <2>2, <2>3 DEF BatchInv, BatchTyped, BatchTypeOK
<1>3. \A i \in DOMAIN notes : notes[i] \in NoteType
  BY DEF BatchInv, BatchTyped
<1>4. \A i \in DOMAIN notes : /\ notes[i].type \in Counting \cup {"error", "complete"}
                              /\ notes[i].done \in Nat
  BY <1>3 DEF NoteType
<1>5. \A i \in DOMAIN notes : notes[i].type \in Counting =>
          notes[i].done <= People /\ (notes[i].last => notes[i].done = People)
  <2> SUFFICES ASSUME NEW i \in DOMAIN notes, notes[i].type \in Counting
               PROVE  notes[i].done <= People /\ (notes[i].last => notes[i].done = People)
    OBVIOUS
  <2>1. /\ notes[i].done <= finished[KindOfNote(notes[i].type)]
        /\ notes[i].last => notes[i].done >= People
    BY DEF BatchInv, NotesOK
  <2>2. finished[KindOfNote(notes[i].type)] \in 0..People
    BY <1>1, BatchSizes DEF KindOfNote
  <2> QED
    BY <1>4, <2>1, <2>2, BatchSizes
<1>6. ASSUME NEW i \in DOMAIN notes, NEW j \in DOMAIN notes, i < j,
             notes[i].type = notes[j].type, notes[i].type # "error"
      PROVE  notes[i].done < notes[j].done /\ ~notes[i].last
  <2>1. notes[i].type # "complete"
    <3>1. notes \in Seq(NoteType) /\ i \in 1..Len(notes) /\ j \in 1..Len(notes)
      BY DEF BatchInv, BatchTyped
    <3>2. i < Len(notes)
      BY <1>6, <3>1
    <3> QED
      BY <3>2 DEF BatchInv, NotesOK
  <2>2. notes[i].type \in Counting
    BY <1>4, <1>6, <2>1
  <2>3. notes[i].done < notes[j].done
    BY <1>6, <2>2 DEF BatchInv, NotesOK
  <2>4. notes[j].done <= People
    BY <1>5, <1>6, <2>2
  <2> QED
    BY <1>4, <1>5, <2>2, <2>3, <2>4, BatchSizes
<1>7. \A i \in DOMAIN notes : notes[i].last /\ notes[i].type # "complete" => notes[i].done = People
  BY <1>4, <1>5 DEF BatchInv, NotesOK
<1>8. \A i \in Notes("complete") : i = Len(notes) /\ runner.pc = "over"
  BY DEF BatchInv, NotesOK, Notes
<1>9. client \in {"reading", "served"} /\ Notes("complete") # {} /\ Notes("error") = {}
        => \A p \in Batch : watcher[p].ended = StreamKinds
  BY <1>8 DEF BatchInv, DoneOK
<1> QED
  BY <1>2, <1>6, <1>7, <1>8, <1>9 DEF CountsAreTrue

\* Whose ingest runs, and was not lost, is the one the runner is at.
LEMMA NothingRunsFollows == BatchInv => NothingRunsOn
<1> SUFFICES ASSUME BatchInv PROVE NothingRunsOn
  OBVIOUS
<1> DEFINE R == Running("ingest") \ Lost
<1>1. runner.at \in Batch /\ \A p \in Batch : watcher[p] \in WatcherType
  BY DEF BatchInv, BatchTyped, RunnerType
<1>2. R \subseteq {runner.at}
  <2> SUFFICES ASSUME NEW p \in R PROVE p = runner.at
    OBVIOUS
  <2>1. p \in Batch /\ "ingest" \in streams[p] /\ watcher[p].pc # "over"
    BY DEF Running, Lost
  <2>2. PersonOK(p) /\ p \in Nat /\ runner.at \in Nat
    BY <1>1, <2>1, BatchSizes DEF BatchInv
  <2>3. ~(p > runner.at)
    BY <2>1, <2>2 DEF PersonOK
  <2>4. ~(p < runner.at)
    <3>1. watcher[p].pc \in {"none", "reading", "over"}
      BY <1>1, <2>1 DEF WatcherType
    <3> QED
      BY <2>1, <2>2, <3>1 DEF PersonOK
  <2> QED
    BY <2>2, <2>3, <2>4
<1>3. IsFiniteSet({runner.at}) /\ Cardinality({runner.at}) = 1
  BY FS_Singleton
<1>4. IsFiniteSet(R) /\ Cardinality(R) <= Cardinality({runner.at})
  BY <1>2, <1>3, FS_Subset
<1>5. client = "served" => \A p \in Batch : watcher[p].pc # "none" => {p} \X streams[p] \subseteq asked
  BY DEF BatchInv, RunnerOK
<1> QED
  BY <1>3, <1>4, <1>5 DEF NothingRunsOn

-----------------------------------------------------------------------------
(***************************************************************************)
(* What the job has not seen of a page of ids: a fold, which is a          *)
(* recursion over the positions of the page.  That it has a value is shown *)
(* for at most n positions by taking the least n for which it has none.    *)
(***************************************************************************)
LEMMA LeastElement ==
    ASSUME NEW S \in SUBSET Nat, S # {}
    PROVE  \E n \in S : \A m \in S : n <= m
<1>1. IsWellFoundedOn(OpToRel(<, Nat), Nat)
  BY NatLessThanWellFounded
<1>2. PICK n \in S : \A m \in S : <<m, n>> \notin OpToRel(<, Nat)
  BY <1>1, WFMin
<1>3. \A m \in S : ~(m < n)
  BY <1>2 DEF OpToRel
<1> QED
  BY <1>3

\* The last of some positions.
LEMMA LastPosition ==
    ASSUME NEW n \in Nat, NEW S \in SUBSET (1..n), S # {}
    PROVE  Max(S) \in S /\ \A i \in S : i <= Max(S)
<1> DEFINE bounds == {m \in Nat : \A i \in S : i <= m}
<1>1. n \in bounds
  OBVIOUS
<1>2. PICK m \in bounds : \A k \in bounds : m <= k
  <2> HIDE DEF bounds
  <2>1. bounds \in SUBSET Nat /\ bounds # {}
    BY <1>1 DEF bounds
  <2> QED
    BY <2>1, LeastElement
<1>3. m \in S
  <2> SUFFICES ASSUME m \notin S PROVE FALSE
    OBVIOUS
  <2>1. PICK j : j \in S
    OBVIOUS
  <2>2. m \in Nat /\ j <= m /\ j \in Nat /\ j >= 1
    BY <1>2, <2>1
  <2>3. m - 1 \in Nat
    BY <2>2
  <2>4. \A i \in S : i <= m - 1
    <3> TAKE i \in S
    <3>1. i \in Nat /\ i <= m /\ i # m
      BY <1>2
    <3> QED
      BY <2>2, <3>1
  <2>5. m - 1 \in bounds
    BY <2>3, <2>4
  <2> QED
    BY <1>2, <2>2, <2>5
<1>4. \E x \in S : \A y \in S : x >= y
  BY <1>2, <1>3
<1> QED
  BY <1>4 DEF Max

\* One id, behind those taken before it.
Taken(seen, new, id) == IF id \in ToSet(seen \o new) THEN new ELSE Append(new, id)
Positions(n, k) == {S \in SUBSET (1..n) : Cardinality(S) <= k}

IsFold(h, seen, ids, n) ==
    h = [S \in SUBSET (1..n) |-> IF S = {} THEN << >>
                                 ELSE Taken(seen, h[S \ {Max(S)}], ids[Max(S)])]
IsSmallFold(h, seen, ids, n, k) ==
    h = [S \in Positions(n, k) |-> IF S = {} THEN << >>
                                   ELSE Taken(seen, h[S \ {Max(S)}], ids[Max(S)])]

LEMMA PositionsFinite ==
    ASSUME NEW n \in Nat, NEW S \in SUBSET (1..n)
    PROVE  IsFiniteSet(S) /\ Cardinality(S) \in Nat /\ Cardinality(S) <= n
<1>1. IsFiniteSet(1..n) /\ Cardinality(1..n) = n
  BY FS_Interval
<1>2. IsFiniteSet(S) /\ Cardinality(S) <= n
  BY <1>1, FS_Subset
<1> QED
  BY <1>2, FS_CardinalityType

LEMMA FewerPositions ==
    ASSUME NEW n \in Nat, NEW k \in Nat, NEW S \in Positions(n, k), S # {}
    PROVE  k # 0 /\ S \ {Max(S)} \in Positions(n, k - 1)
<1>1. S \in SUBSET (1..n) /\ Cardinality(S) <= k
  BY DEF Positions
<1>2. Max(S) \in S
  BY <1>1, LastPosition
<1>3. IsFiniteSet(S) /\ Cardinality(S) \in Nat
  BY <1>1, PositionsFinite
<1>4. Cardinality(S \ {Max(S)}) = Cardinality(S) - 1
  BY <1>2, <1>3, FS_RemoveElement
<1>5. Cardinality(S \ {Max(S)}) \in Nat
  BY <1>1, PositionsFinite
<1> DEFINE U == S \ {Max(S)}
<1>6. U \in SUBSET (1..n)
  BY <1>1
<1> HIDE DEF U
<1>7. Cardinality(U) \in Nat /\ Cardinality(U) <= k - 1 /\ k # 0
  BY <1>1, <1>3, <1>4, <1>5 DEF U
<1>8. U \in Positions(n, k - 1)
  BY <1>6, <1>7 DEF Positions
<1> QED
  BY <1>7, <1>8 DEF U

LEMMA SmallFoldExists ==
    ASSUME NEW n \in Nat, NEW seen, NEW ids
    PROVE  \A k \in Nat : \E h : IsSmallFold(h, seen, ids, n, k)
<1> DEFINE bad == {k \in Nat : ~ \E h : IsSmallFold(h, seen, ids, n, k)}
<1> SUFFICES ASSUME bad # {} PROVE FALSE
  OBVIOUS
<1>1. PICK k \in bad : \A m \in bad : k <= m
  <2> HIDE DEF bad
  <2>1. bad \in SUBSET Nat
    BY DEF bad
  <2> QED
    BY <2>1, LeastElement
<1>2. CASE k = 0
  <2> DEFINE h == [S \in Positions(n, 0) |-> << >>]
  <2>1. \A S \in Positions(n, 0) : S = {}
    BY FewerPositions
  <2>2. IsSmallFold(h, seen, ids, n, 0)
    BY <2>1 DEF IsSmallFold
  <2> QED
    BY <1>2, <2>2
<1>3. CASE k # 0
  <2>1. k - 1 \in Nat /\ k - 1 \notin bad
    BY <1>1, <1>3
  <2>2. PICK g : IsSmallFold(g, seen, ids, n, k - 1)
    BY <2>1
  <2> DEFINE Def(S) == IF S = {} THEN << >> ELSE Taken(seen, g[S \ {Max(S)}], ids[Max(S)])
             h == [S \in Positions(n, k) |-> Def(S)]
  <2>3. \A S \in Positions(n, k - 1) : h[S] = g[S]
    <3> TAKE S \in Positions(n, k - 1)
    <3>1. S \in SUBSET (1..n) /\ Cardinality(S) <= k - 1
      BY DEF Positions
    <3>2. Cardinality(S) \in Nat
      BY <3>1, PositionsFinite
    <3>3. S \in Positions(n, k)
      BY <2>1, <3>1, <3>2 DEF Positions
    <3> QED
      BY <2>2, <3>3 DEF IsSmallFold
  <2>4. \A S \in Positions(n, k) : S # {} => h[S \ {Max(S)}] = g[S \ {Max(S)}]
    <3> HIDE DEF h
    <3> QED
      BY <1>1, <2>3, FewerPositions
  <2>5. \A S \in Positions(n, k) :
          Def(S) = IF S = {} THEN << >> ELSE Taken(seen, h[S \ {Max(S)}], ids[Max(S)])
    <3> HIDE DEF h
    <3> QED
      BY <2>4
  <2>6. IsSmallFold(h, seen, ids, n, k)
    BY <2>5 DEF IsSmallFold
  <2> QED
    BY <2>6
<1> QED
  BY <1>1, <1>2, <1>3

LEMMA FoldExists ==
    ASSUME NEW n \in Nat, NEW seen, NEW ids
    PROVE  \E h : IsFold(h, seen, ids, n)
<1>1. PICK h : IsSmallFold(h, seen, ids, n, n)
  BY SmallFoldExists
<1>2. Positions(n, n) = SUBSET (1..n)
  BY PositionsFinite DEF Positions
<1> DEFINE term(S) == IF S = {} THEN << >> ELSE Taken(seen, h[S \ {Max(S)}], ids[Max(S)])
<1>3. h = [S \in Positions(n, n) |-> term(S)]
  BY <1>1 DEF IsSmallFold
<1>4. h = [S \in SUBSET (1..n) |-> term(S)]
  <2> HIDE DEF term
  <2> QED
    BY <1>2, <1>3
<1>5. IsFold(h, seen, ids, n)
  BY <1>4 DEF IsFold
<1> QED
  BY <1>5

\* What is taken is new: nothing is taken twice, nor what was seen.
LEMMA TakenIsNew ==
    ASSUME NEW T, NEW seen \in Seq(T), NEW new \in Seq(T), NEW id \in T,
           IsInjective(seen \o new)
    PROVE  Taken(seen, new, id) \in Seq(T) /\ IsInjective(seen \o Taken(seen, new, id))
<1>1. CASE id \in ToSet(seen \o new)
  BY <1>1 DEF Taken
<1>2. CASE id \notin ToSet(seen \o new)
  <2>1. Taken(seen, new, id) = Append(new, id)
    BY <1>2 DEF Taken
  <2> DEFINE s == seen \o new
             t == seen \o Append(new, id)
  <2>2. /\ s \in Seq(T) /\ Len(s) = Len(seen) + Len(new) /\ Len(s) \in Nat
        /\ Append(new, id) \in Seq(T)
    OBVIOUS
  <2>3. t = Append(s, id)
    OBVIOUS
  <2> HIDE DEF s, t
  <2>4. /\ DOMAIN t = 1..(Len(s) + 1) /\ DOMAIN s = 1..Len(s)
        /\ t[Len(s) + 1] = id /\ \A i \in 1..Len(s) : t[i] = s[i]
    BY SMTT(60), <2>2, <2>3
  <2>5. \A i \in 1..Len(s) : s[i] # id
    BY <1>2, <2>4 DEF ToSet, s
  <2>6. \A i, j \in 1..Len(s) : s[i] = s[j] => i = j
    BY <2>4 DEF IsInjective, s
  <2>7. ASSUME NEW i \in DOMAIN t, NEW j \in DOMAIN t, t[i] = t[j] PROVE i = j
    <3>1. i \in 1..Len(s) \/ i = Len(s) + 1
      BY SMTT(60), <2>2, <2>4
    <3>2. j \in 1..Len(s) \/ j = Len(s) + 1
      BY SMTT(60), <2>2, <2>4
    <3> QED
      BY <2>4, <2>5, <2>6, <2>7, <3>1, <3>2
  <2>8. IsInjective(t)
    BY <2>7 DEF IsInjective
  <2> QED
    BY <2>1, <2>2, <2>8 DEF t
<1> QED
  BY <1>1, <1>2

LEMMA FoldIsNew ==
    ASSUME NEW T, NEW n \in Nat, NEW seen \in Seq(T), NEW ids \in [1..n -> T], IsInjective(seen),
           NEW h, IsFold(h, seen, ids, n)
    PROVE  \A S \in SUBSET (1..n) : h[S] \in Seq(T) /\ IsInjective(seen \o h[S])
<1> DEFINE Good(S) == h[S] \in Seq(T) /\ IsInjective(seen \o h[S])
           bad == {S \in SUBSET (1..n) : ~Good(S)}
<1> SUFFICES ASSUME bad # {} PROVE FALSE
  OBVIOUS
<1> DEFINE sizes == {Cardinality(S) : S \in bad}
<1>1. PICK S \in bad : \A U \in bad : Cardinality(S) <= Cardinality(U)
  <2>1. sizes \in SUBSET Nat /\ sizes # {}
    BY PositionsFinite
  <2>2. PICK k \in sizes : \A m \in sizes : k <= m
    <3> HIDE DEF sizes
    <3> QED
      BY <2>1, LeastElement
  <2> QED
    BY <2>2
<1>2. S \in SUBSET (1..n) /\ ~Good(S)
  BY <1>1
<1>3. CASE S = {}
  <2>1. h[S] = << >>
    BY <1>2, <1>3 DEF IsFold
  <2>2. seen \o << >> = seen /\ << >> \in Seq(T)
    OBVIOUS
  <2> QED
    BY <1>2, <2>1, <2>2
<1>4. CASE S # {}
  <2> DEFINE i == Max(S)
             U == S \ {i}
  <2>1. i \in S /\ i \in 1..n
    BY <1>2, <1>4, LastPosition
  <2>2. h[S] = Taken(seen, h[U], ids[i])
    BY <1>2, <1>4 DEF IsFold
  <2>3. Good(U)
    <3> HIDE DEF Good, i
    <3>1. U \in SUBSET (1..n) /\ IsFiniteSet(S) /\ Cardinality(S) \in Nat
      BY <1>2, PositionsFinite
    <3>2. Cardinality(U) = Cardinality(S) - 1
      BY <2>1, <3>1, FS_RemoveElement
    <3>3. U \notin bad
      BY <1>1, <3>1, <3>2
    <3> QED
      BY <3>1, <3>3
  <2>4. ids[i] \in T
    BY <2>1
  <2> HIDE DEF i
  <2>5. Good(S)
    <3> PICK new : new = h[U]
      OBVIOUS
    <3>1. new \in Seq(T) /\ IsInjective(seen \o new) /\ h[S] = Taken(seen, new, ids[i])
      BY <2>2, <2>3
    <3> QED
      BY <2>4, <3>1, TakenIsNew
  <2> QED
    BY <1>2, <2>5
<1> QED
  BY <1>3, <1>4

LEMMA UnseenIsNew ==
    ASSUME search.seen \in Seq(Leads), IsInjective(search.seen), NEW ids \in Batches
    PROVE  Unseen(ids) \in Seq(Leads) /\ IsInjective(search.seen \o Unseen(ids))
<1>1. ids \in Seq(Leads)
  <2>1. PICK i \in DOMAIN Found, j \in DOMAIN Found : ids = SubSeq(Found, i, j)
    BY DEF Batches
  <2>2. Found \in Seq(Leads) /\ i \in 1..Len(Found) /\ j \in 1..Len(Found)
    BY HistoryAssumption
  <2> QED
    BY <2>1, <2>2
<1> DEFINE n == Len(ids)
           seen == search.seen
           Def(g) == [S \in SUBSET DOMAIN ids |->
                        IF S = {} THEN << >>
                        ELSE LET x == Max(S) IN
                             IF ids[x] \in ToSet(search.seen \o g[S \ {x}]) THEN g[S \ {x}]
                             ELSE Append(g[S \ {x}], ids[x])]
           fold == CHOOSE g : g = Def(g)
<1>2. n \in Nat /\ DOMAIN ids = 1..n /\ ids \in [1..n -> Leads]
  BY <1>1
<1>3. \A g : IsFold(g, seen, ids, n) <=> g = Def(g)
  BY <1>2 DEF IsFold, Taken
<1>4. fold = Def(fold)
  <2> HIDE DEF Def, n, seen
  <2>1. PICK g : g = Def(g)
    BY <1>2, <1>3, FoldExists
  <2> QED
    BY <2>1
<1>5. Unseen(ids) = fold[DOMAIN ids]
  BY DEF Unseen, FoldLeft, MapThenFoldSet
<1> HIDE DEF fold, Def, n
<1>6. IsFold(fold, seen, ids, n)
  BY <1>3, <1>4
<1>7. fold[1..n] \in Seq(Leads) /\ IsInjective(seen \o fold[1..n])
  BY <1>2, <1>6, FoldIsNew
<1> QED
  BY <1>2, <1>5, <1>7

-----------------------------------------------------------------------------
(***************************************************************************)
(* The history of a search.  While the row is there what is stored is what *)
(* the job has seen, or what was imported; what a reader counted is still  *)
(* stored; and how far the job is says what the browser was told.          *)
(***************************************************************************)
ColumnsType == [page : 1..MaxPage, total : Nat]
HistoryType == [state : {"none", "there", "gone"}, page : 1..MaxPage, total : Nat]
Filling == {"new", "starting", "first", "showing"}
JobStages == Filling \cup {"walking", "last", "only", "showing only", "showing last",
                           "embedding", "importing", "over"}
SearchType ==
    [pc : JobStages,
     mine : ColumnsType, fetches : Nat, seen : Seq(Leads), first : BOOLEAN, page : 0..MaxPage]
ReaderType == [pc : {"idle", "open", "turning", "over"}, mine : ColumnsType,
               page : 0..MaxPage, total : Nat]

HistoryTyped ==
    /\ kind \in {"stream", "agent", "import"} /\ history \in HistoryType /\ stored \in Seq(Leads)
    /\ search \in SearchType /\ started \in {"no", "yes", "failed"} /\ viewer \in BOOLEAN
    /\ reader \in [Readers -> ReaderType]

RowOK ==
    /\ history.state = "none" => /\ search.pc \in {"new", "over"} /\ history.page = 1
                                 /\ history.total = 0 /\ search.seen = << >>
                                 /\ \A r \in Readers : reader[r].pc = "idle"
    /\ search.pc = "new" => history.state = "none"
    /\ ~There => stored = << >>
    /\ kind # "import" => /\ search.pc # "importing"
                          /\ There => stored = search.seen /\ history.total <= Len(stored)
    /\ kind = "import" => /\ search.pc \in {"new", "importing", "over"}
                          /\ stored \in {<< >>, Found}
                          /\ There => history.total <= Len(Found)

ReadersOK ==
    \A r \in Readers : reader[r].pc = "turning" =>
        /\ reader[r].page >= 1
        /\ There => reader[r].total <= Len(stored)

\* The first page, while the job fills it and when it shows it.
JobOK ==
    /\ IsInjective(search.seen) /\ search.mine.total <= Len(search.seen)
    /\ search.pc \in Filling => ~search.first
    /\ search.pc \in Filling \/ (search.pc = "walking" /\ ~search.first) => search.mine.page = 1
    /\ search.pc \in {"new", "starting", "only", "showing only"} \/ (search.pc = "walking" /\ ~search.first)
           => Len(search.seen) < PerPage
    /\ search.pc \in {"first", "showing"} \/ (search.pc = "walking" /\ search.first)
           => Len(search.seen) >= PerPage
    /\ search.pc \in {"showing", "showing only"} => search.page = 1
    /\ search.pc = "showing last" => search.page = search.mine.page

FirstOnly == <<"first_page">>
FirstAndLast == <<"first_page", "complete">>
Lines == {<< >>, FirstOnly, FirstAndLast} \cup Tellings

ToldOK ==
    /\ told \in Lines
    /\ kind # "stream" => ~viewer
    /\ \/ search.pc \in Filling \cup {"only", "showing only", "importing"}
       \/ search.pc = "walking" /\ ~search.first
       => told = << >>
    /\ search.pc \in {"last", "showing last"} \/ (search.pc = "walking" /\ search.first)
       => told \in {<< >>, FirstOnly} /\ (viewer => told = FirstOnly)
    /\ search.pc = "embedding"
       => told \in {<< >>, FirstOnly, FirstAndLast} /\ (viewer => told = FirstAndLast)

HistoryInv == HistoryTyped /\ RowOK /\ ReadersOK /\ JobOK /\ ToldOK

\* Kept apart: no step that changes the rest looks at it.
PausedOK == paused \subseteq {"ingest", "embedding"}

LEMMA HistorySizes ==
    /\ PerPage \in Nat /\ PerPage >= 1 /\ MaxPage \in Nat /\ MaxPage >= 1
    /\ Kinds \subseteq {"stream", "agent", "import"}
    /\ Found \in Seq(Leads) /\ IsInjective(Found)
BY HistoryAssumption

\* The lines as they are put together.
LEMMA OneAndTwo ==
    ASSUME NEW T, NEW a \in T, NEW b \in T, NEW c \in T
    PROVE  <<a>> \o <<b, c>> = <<a, b, c>>
<1> DEFINE s == <<a>> \o <<b, c>>
<1>1. s \in Seq(T) /\ Len(s) = 3 /\ s[1] = a /\ s[2] = b /\ s[3] = c
  OBVIOUS
<1>2. <<a, b, c>> \in Seq(T) /\ Len(<<a, b, c>>) = 3
  OBVIOUS
<1> HIDE DEF s
<1>3. s = <<a, b, c>>
  BY <1>1, <1>2
<1> QED
  BY <1>3 DEF s

LEMMA TwoAndOne ==
    ASSUME NEW T, NEW a \in T, NEW b \in T, NEW c \in T
    PROVE  <<a, b>> \o <<c>> = <<a, b, c>>
<1> DEFINE s == <<a, b>> \o <<c>>
<1>1. s \in Seq(T) /\ Len(s) = 3 /\ s[1] = a /\ s[2] = b /\ s[3] = c
  OBVIOUS
<1>2. <<a, b, c>> \in Seq(T) /\ Len(<<a, b, c>>) = 3
  OBVIOUS
<1> HIDE DEF s
<1>3. s = <<a, b, c>>
  BY <1>1, <1>2
<1> QED
  BY <1>3 DEF s

LEMMA OneAndOne ==
    ASSUME NEW T, NEW a \in T, NEW b \in T
    PROVE  <<a>> \o <<b>> = <<a, b>>
<1> DEFINE s == <<a>> \o <<b>>
<1>1. s \in Seq(T) /\ Len(s) = 2 /\ s[1] = a /\ s[2] = b
  OBVIOUS
<1>2. <<a, b>> \in Seq(T) /\ Len(<<a, b>>) = 2
  OBVIOUS
<1> HIDE DEF s
<1>3. s = <<a, b>>
  BY <1>1, <1>2
<1> QED
  BY <1>3 DEF s

LEMMA TwoAndTwo ==
    ASSUME NEW T, NEW a \in T, NEW b \in T, NEW c \in T, NEW d \in T
    PROVE  <<a, b>> \o <<c, d>> = <<a, b, c, d>>
<1> DEFINE s == <<a, b>> \o <<c, d>>
<1>1. s \in Seq(T) /\ Len(s) = 4 /\ s[1] = a /\ s[2] = b /\ s[3] = c /\ s[4] = d
  OBVIOUS
<1>2. <<a, b, c, d>> \in Seq(T) /\ Len(<<a, b, c, d>>) = 4
  OBVIOUS
<1> HIDE DEF s
<1>3. s = <<a, b, c, d>>
  BY <1>1, <1>2
<1> QED
  BY <1>3 DEF s

LEMMA LinesTold ==
    /\ << >> \o <<"error", "end">> = <<"error", "end">>
    /\ FirstOnly \o <<"error", "end">> = <<"first_page", "error", "end">>
    /\ FirstAndLast \o <<"error", "end">> = <<"first_page", "complete", "error", "end">>
    /\ << >> \o <<"first_page">> = FirstOnly
    /\ << >> \o <<"first_page", "complete">> = FirstAndLast
    /\ FirstOnly \o <<"complete">> = FirstAndLast
    /\ FirstAndLast \o <<"end">> = <<"first_page", "complete", "end">>
<1> DEFINE words == {"first_page", "complete", "error", "end"}
<1>1. "first_page" \in words /\ "complete" \in words /\ "error" \in words /\ "end" \in words
  OBVIOUS
<1> HIDE DEF words
<1>2. << >> \o <<"error", "end">> = <<"error", "end">>
  OBVIOUS
<1>3. << >> \o <<"first_page">> = FirstOnly
  BY DEF FirstOnly
<1>4. << >> \o <<"first_page", "complete">> = FirstAndLast
  BY DEF FirstAndLast
<1>5. FirstOnly \o <<"error", "end">> = <<"first_page", "error", "end">>
  BY <1>1, OneAndTwo DEF FirstOnly
<1>6. FirstAndLast \o <<"error", "end">> = <<"first_page", "complete", "error", "end">>
  BY <1>1, TwoAndTwo DEF FirstAndLast
<1>7. FirstOnly \o <<"complete">> = FirstAndLast
  BY <1>1, OneAndOne DEF FirstOnly, FirstAndLast
<1>8. FirstAndLast \o <<"end">> = <<"first_page", "complete", "end">>
  BY <1>1, TwoAndOne DEF FirstAndLast
<1> QED
  BY <1>2, <1>3, <1>4, <1>5, <1>6, <1>7, <1>8

LEMMA ToldIsPrefix == ASSUME told \in Lines PROVE \E telling \in Tellings : IsPrefix(told, telling)
<1>1. CASE told \in Tellings
  <2>1. Len(told) \in Nat
    BY <1>1 DEF Tellings
  <2>2. IsPrefix(told, told)
    BY <2>1 DEF IsPrefix
  <2> QED
    BY <1>1, <2>2
<1> DEFINE all == <<"first_page", "complete", "end">>
<1>2. all \in Tellings
  BY DEF Tellings
<1>3. CASE told = << >>
  <2>1. IsPrefix(<< >>, all)
    BY DEF IsPrefix
  <2> QED
    BY <1>2, <1>3, <2>1
<1>4. CASE told = FirstOnly
  <2>1. IsPrefix(<<"first_page">>, all)
    BY DEF IsPrefix
  <2> QED
    BY <1>2, <1>4, <2>1 DEF FirstOnly
<1>5. CASE told = FirstAndLast
  <2>1. IsPrefix(<<"first_page", "complete">>, all)
    BY DEF IsPrefix
  <2> QED
    BY <1>2, <1>5, <2>1 DEF FirstAndLast
<1> QED
  BY <1>1, <1>3, <1>4, <1>5 DEF Lines

\* The commit of a session.
LEMMA WrittenRow ==
    ASSUME history \in HistoryType, NEW old \in ColumnsType, NEW new \in ColumnsType
    PROVE  /\ Written(old, new) \in HistoryType
           /\ Written(old, new).state = history.state
           /\ Written(old, new).page = IF new.page = old.page THEN history.page ELSE new.page
           /\ Written(old, new).total = IF new.total = old.total THEN history.total ELSE new.total
<1> DEFINE p == IF new.page = old.page THEN history.page ELSE new.page
           t == IF new.total = old.total THEN history.total ELSE new.total
<1>1. p \in 1..MaxPage /\ t \in Nat
  BY DEF HistoryType, ColumnsType
<1>2. Written(old, new) = [history EXCEPT !.page = p, !.total = t]
  BY DEF Written
<1> HIDE DEF p, t
<1>3. [history EXCEPT !.page = p, !.total = t] = [state |-> history.state, page |-> p, total |-> t]
  <2>1. PICK h : h = [history EXCEPT !.page = p]
    OBVIOUS
  <2>2. h \in HistoryType /\ h = [state |-> history.state, page |-> p, total |-> history.total]
    BY <1>1, <2>1 DEF HistoryType
  <2>3. [h EXCEPT !.total = t] = [state |-> h.state, page |-> h.page, total |-> t]
    BY <1>1, <2>2 DEF HistoryType
  <2> QED
    BY <2>1, <2>2, <2>3
<1> QED
  BY <1>1, <1>2, <1>3 DEF HistoryType, p, t

\* The steps of the job, as records.
LEMMA SetPc ==
    ASSUME NEW r \in SearchType, NEW q \in JobStages
    PROVE  /\ [r EXCEPT !.pc = q] \in SearchType
           /\ [r EXCEPT !.pc = q]
                = [pc |-> q, mine |-> r.mine, fetches |-> r.fetches,
                   seen |-> r.seen, first |-> r.first, page |-> r.page]
BY DEF SearchType

LEMMA SetMine ==
    ASSUME NEW r \in SearchType, NEW m \in ColumnsType
    PROVE  /\ [r EXCEPT !.mine = m] \in SearchType
           /\ [r EXCEPT !.mine = m]
                = [pc |-> r.pc, mine |-> m, fetches |-> r.fetches,
                   seen |-> r.seen, first |-> r.first, page |-> r.page]
BY DEF SearchType

LEMMA SetFirst ==
    ASSUME NEW r \in SearchType, NEW b \in BOOLEAN
    PROVE  /\ [r EXCEPT !.first = b] \in SearchType
           /\ [r EXCEPT !.first = b]
                = [pc |-> r.pc, mine |-> r.mine, fetches |-> r.fetches,
                   seen |-> r.seen, first |-> b, page |-> r.page]
BY DEF SearchType

LEMMA SetPage ==
    ASSUME NEW r \in SearchType, NEW g \in 0..MaxPage
    PROVE  /\ [r EXCEPT !.page = g] \in SearchType
           /\ [r EXCEPT !.page = g]
                = [pc |-> r.pc, mine |-> r.mine, fetches |-> r.fetches,
                   seen |-> r.seen, first |-> r.first, page |-> g]
BY DEF SearchType

LEMMA StageAndRow ==
    ASSUME NEW r \in SearchType, NEW q \in JobStages, NEW m \in ColumnsType
    PROVE  /\ [r EXCEPT !.pc = q, !.mine = m] \in SearchType
           /\ [r EXCEPT !.pc = q, !.mine = m]
                = [pc |-> q, mine |-> m, fetches |-> r.fetches,
                   seen |-> r.seen, first |-> r.first, page |-> r.page]
<1>1. PICK r1 : r1 = [r EXCEPT !.pc = q]
  OBVIOUS
<1>2. /\ r1 \in SearchType
      /\ r1 = [pc |-> q, mine |-> r.mine, fetches |-> r.fetches,
               seen |-> r.seen, first |-> r.first, page |-> r.page]
  BY <1>1, SetPc
<1>3. PICK r2 : r2 = [r1 EXCEPT !.mine = m]
  OBVIOUS
<1>4. /\ r2 \in SearchType
      /\ r2 = [pc |-> q, mine |-> m, fetches |-> r.fetches,
               seen |-> r.seen, first |-> r.first, page |-> r.page]
  BY <1>3, <1>2, SetMine
<1> QED
  BY <1>1, <1>3, <1>4

LEMMA StageAndPage ==
    ASSUME NEW r \in SearchType, NEW q \in JobStages, NEW g \in 0..MaxPage
    PROVE  /\ [r EXCEPT !.pc = q, !.page = g] \in SearchType
           /\ [r EXCEPT !.pc = q, !.page = g]
                = [pc |-> q, mine |-> r.mine, fetches |-> r.fetches,
                   seen |-> r.seen, first |-> r.first, page |-> g]
<1>1. PICK r1 : r1 = [r EXCEPT !.pc = q]
  OBVIOUS
<1>2. /\ r1 \in SearchType
      /\ r1 = [pc |-> q, mine |-> r.mine, fetches |-> r.fetches,
               seen |-> r.seen, first |-> r.first, page |-> r.page]
  BY <1>1, SetPc
<1>3. PICK r2 : r2 = [r1 EXCEPT !.page = g]
  OBVIOUS
<1>4. /\ r2 \in SearchType
      /\ r2 = [pc |-> q, mine |-> r.mine, fetches |-> r.fetches,
               seen |-> r.seen, first |-> r.first, page |-> g]
  BY <1>3, <1>2, SetPage
<1> QED
  BY <1>1, <1>3, <1>4

LEMMA StageRowPage ==
    ASSUME NEW r \in SearchType, NEW q \in JobStages, NEW m \in ColumnsType, NEW g \in 0..MaxPage
    PROVE  /\ [r EXCEPT !.pc = q, !.mine = m, !.page = g] \in SearchType
           /\ [r EXCEPT !.pc = q, !.mine = m, !.page = g]
                = [pc |-> q, mine |-> m, fetches |-> r.fetches,
                   seen |-> r.seen, first |-> r.first, page |-> g]
<1>1. PICK r1 : r1 = [r EXCEPT !.pc = q]
  OBVIOUS
<1>2. /\ r1 \in SearchType
      /\ r1 = [pc |-> q, mine |-> r.mine, fetches |-> r.fetches,
               seen |-> r.seen, first |-> r.first, page |-> r.page]
  BY <1>1, SetPc
<1>3. PICK r2 : r2 = [r1 EXCEPT !.mine = m]
  OBVIOUS
<1>4. /\ r2 \in SearchType
      /\ r2 = [pc |-> q, mine |-> m, fetches |-> r.fetches,
               seen |-> r.seen, first |-> r.first, page |-> r.page]
  BY <1>3, <1>2, SetMine
<1>5. PICK r3 : r3 = [r2 EXCEPT !.page = g]
  OBVIOUS
<1>6. /\ r3 \in SearchType
      /\ r3 = [pc |-> q, mine |-> m, fetches |-> r.fetches,
               seen |-> r.seen, first |-> r.first, page |-> g]
  BY <1>5, <1>4, SetPage
<1> QED
  BY <1>1, <1>3, <1>5, <1>6

LEMMA StageFirstRow ==
    ASSUME NEW r \in SearchType, NEW q \in JobStages, NEW b \in BOOLEAN, NEW m \in ColumnsType
    PROVE  /\ [r EXCEPT !.pc = q, !.first = b, !.mine = m] \in SearchType
           /\ [r EXCEPT !.pc = q, !.first = b, !.mine = m]
                = [pc |-> q, mine |-> m, fetches |-> r.fetches,
                   seen |-> r.seen, first |-> b, page |-> r.page]
<1>1. PICK r1 : r1 = [r EXCEPT !.pc = q]
  OBVIOUS
<1>2. /\ r1 \in SearchType
      /\ r1 = [pc |-> q, mine |-> r.mine, fetches |-> r.fetches,
               seen |-> r.seen, first |-> r.first, page |-> r.page]
  BY <1>1, SetPc
<1>3. PICK r2 : r2 = [r1 EXCEPT !.first = b]
  OBVIOUS
<1>4. /\ r2 \in SearchType
      /\ r2 = [pc |-> q, mine |-> r.mine, fetches |-> r.fetches,
               seen |-> r.seen, first |-> b, page |-> r.page]
  BY <1>3, <1>2, SetFirst
<1>5. PICK r3 : r3 = [r2 EXCEPT !.mine = m]
  OBVIOUS
<1>6. /\ r3 \in SearchType
      /\ r3 = [pc |-> q, mine |-> m, fetches |-> r.fetches,
               seen |-> r.seen, first |-> b, page |-> r.page]
  BY <1>5, <1>4, SetMine
<1> QED
  BY <1>1, <1>3, <1>5, <1>6

LEMMA HistoryInit_Inv == HistoryInit => HistoryInv
<1> SUFFICES ASSUME HistoryInit PROVE HistoryInv
  OBVIOUS
<1>1. Columns(1, 0) \in ColumnsType
  BY HistorySizes DEF Columns, ColumnsType
<1>2. search \in SearchType
  BY <1>1, HistorySizes DEF HistoryInit, SearchType, JobStages, Filling
<1>3. reader \in [Readers -> ReaderType]
  BY <1>1, HistorySizes DEF HistoryInit, ReaderType, Resting
<1>4. HistoryTyped
  BY <1>2, <1>3, HistorySizes DEF HistoryInit, HistoryTyped, HistoryType
<1>5. RowOK /\ ReadersOK
  BY DEF HistoryInit, RowOK, ReadersOK, There, Resting
<1>6. JobOK
  BY HistorySizes DEF HistoryInit, JobOK, Columns, Filling, IsInjective
<1>7. ToldOK
  BY DEF HistoryInit, ToldOK, Lines, Filling
<1> QED
  BY <1>4, <1>5, <1>6, <1>7 DEF HistoryInv

LEMMA RecordTyped ==
    ASSUME HistoryInv
    PROVE  /\ kind \in {"stream", "agent", "import"} /\ history \in HistoryType /\ stored \in Seq(Leads)
           /\ search \in SearchType /\ started \in {"no", "yes", "failed"} /\ viewer \in BOOLEAN
           /\ reader \in [Readers -> ReaderType]
           /\ search.pc \in JobStages /\ search.mine \in ColumnsType /\ search.seen \in Seq(Leads)
           /\ search.fetches \in Nat /\ search.first \in BOOLEAN /\ search.page \in 0..MaxPage
           /\ Len(search.seen) \in Nat /\ Len(stored) \in Nat
           /\ history.page \in 1..MaxPage /\ history.total \in Nat
           /\ search.mine.page \in 1..MaxPage /\ search.mine.total \in Nat
BY DEF HistoryInv, HistoryTyped, HistoryType, SearchType, ColumnsType

LEMMA StageSet ==
    ASSUME HistoryInv, NEW q \in JobStages, search' = [search EXCEPT !.pc = q]
    PROVE  /\ search' \in SearchType /\ search'.pc = q /\ search'.seen = search.seen
           /\ search'.mine = search.mine /\ search'.first = search.first /\ search'.page = search.page
<1>1. search \in SearchType
  BY RecordTyped
<1>2. /\ [search EXCEPT !.pc = q] \in SearchType
      /\ [search EXCEPT !.pc = q]
           = [pc |-> q, mine |-> search.mine, fetches |-> search.fetches, seen |-> search.seen,
              first |-> search.first, page |-> search.page]
  BY <1>1, SetPc
<1> QED
  BY <1>2

LEMMA ReadersStay ==
    ASSUME HistoryInv, reader' = reader, stored' \in Seq(Leads),
           There' => There /\ Len(stored') >= Len(stored)
    PROVE  ReadersOK'
<1>1. /\ Len(stored) \in Nat /\ Len(stored') \in Nat
      /\ \A r \in Readers : reader[r].total \in Nat
  BY DEF HistoryInv, HistoryTyped, ReaderType
<1> QED
  BY <1>1 DEF HistoryInv, ReadersOK

\* Only the stage of the job changes, and what it tells.
LEMMA FailKeeps ==
    ASSUME HistoryInv, search.pc # "over", Fail
    PROVE  HistoryInv'
<1>1. /\ search' = [search EXCEPT !.pc = "over"]
      /\ started' = IF kind # "stream" /\ started = "no" THEN "failed" ELSE started
      /\ told' = IF viewer THEN told \o <<"error", "end">> ELSE told
      /\ UNCHANGED <<kind, history, stored, viewer, reader>>
  BY DEF Fail, Sent
<1>2. "over" \in JobStages
  BY DEF JobStages
<1>3. /\ search' \in SearchType /\ search'.pc = "over" /\ search'.seen = search.seen
      /\ search'.mine = search.mine
  BY <1>1, <1>2, StageSet
<1>4. HistoryTyped'
  BY <1>1, <1>3, RecordTyped DEF HistoryTyped
<1>5. RowOK'
  BY <1>1, <1>3 DEF HistoryInv, RowOK, There
<1>6. ReadersOK'
  BY <1>1 DEF HistoryInv, ReadersOK, There
<1>7. JobOK'
  BY <1>1, <1>3 DEF HistoryInv, JobOK, Filling
<1>8. ToldOK'
  <2>1. told \in {<< >>, FirstOnly, FirstAndLast}
    BY RecordTyped DEF HistoryInv, ToldOK, JobStages, Filling
  <2>2. told' \in Lines
    <3>1. told \o <<"error", "end">> \in Tellings
      BY <2>1, LinesTold DEF Tellings
    <3> QED
      BY <1>1, <2>1, <3>1 DEF Lines
  <2> QED
    BY <1>1, <1>3, <2>2 DEF HistoryInv, ToldOK, Filling
<1> QED
  BY <1>4, <1>5, <1>6, <1>7, <1>8 DEF HistoryInv

LEMMA JobFailsKeeps ==
    ASSUME HistoryInv, JobFails
    PROVE  HistoryInv'
BY FailKeeps DEF JobFails

LEMMA CreateRowKeeps ==
    ASSUME HistoryInv, CreateRow
    PROVE  HistoryInv'
<1>1. /\ search.pc = "new" /\ kind # "import"
      /\ history' = [history EXCEPT !.state = "there"]
      /\ search' = [search EXCEPT !.pc = "starting"]
      /\ UNCHANGED <<kind, stored, started, viewer, told, reader>>
  BY DEF CreateRow
<1>2. "starting" \in JobStages
  BY DEF JobStages, Filling
<1>3. /\ search' \in SearchType /\ search'.pc = "starting" /\ search'.seen = search.seen
      /\ search'.mine = search.mine /\ search'.first = search.first
  BY <1>1, <1>2, StageSet
<1>4. /\ history' \in HistoryType /\ history'.state = "there"
      /\ history'.page = history.page /\ history'.total = history.total
  BY <1>1, RecordTyped DEF HistoryType
<1>5. /\ history.state = "none" /\ stored = << >> /\ search.seen = << >> /\ history.total = 0
      /\ \A r \in Readers : reader[r].pc = "idle"
  BY <1>1 DEF HistoryInv, RowOK, There
<1>6. HistoryTyped'
  BY <1>1, <1>3, <1>4, RecordTyped DEF HistoryTyped
<1>7. RowOK'
  BY <1>1, <1>3, <1>4, <1>5 DEF RowOK, There
<1>8. ReadersOK'
  BY <1>1, <1>5 DEF ReadersOK
<1>9. JobOK' /\ ToldOK'
  BY <1>1, <1>3 DEF HistoryInv, JobOK, ToldOK, Filling
<1> QED
  BY <1>6, <1>7, <1>8, <1>9 DEF HistoryInv

LEMMA StartStreamsKeeps ==
    ASSUME HistoryInv, StartStreams
    PROVE  HistoryInv'
<1>1. /\ search.pc = "starting"
      /\ search' = [search EXCEPT !.pc = "walking"]
      /\ started' = IF kind = "agent" THEN "yes" ELSE started
      /\ UNCHANGED <<kind, history, stored, viewer, told, reader>>
  BY DEF StartStreams
<1>2. "walking" \in JobStages
  BY DEF JobStages
<1>3. /\ search' \in SearchType /\ search'.pc = "walking" /\ search'.seen = search.seen
      /\ search'.mine = search.mine /\ search'.first = search.first
  BY <1>1, <1>2, StageSet
<1>4. HistoryTyped'
  BY <1>1, <1>3, RecordTyped DEF HistoryTyped
<1>5. RowOK' /\ ReadersOK'
  BY <1>1, <1>3 DEF HistoryInv, RowOK, ReadersOK, There
<1>6. JobOK' /\ ToldOK'
  BY <1>1, <1>3 DEF HistoryInv, JobOK, ToldOK, Filling
<1> QED
  BY <1>4, <1>5, <1>6 DEF HistoryInv

LEMMA TakeIdsKeeps ==
    ASSUME HistoryInv, NEW ids \in Batches, TakeIds(ids)
    PROVE  HistoryInv'
<1>1. search.pc = "walking"
  BY DEF TakeIds
<1>2. PICK new : new = Unseen(ids)
  OBVIOUS
<1> DEFINE position == Len(search.seen) + Len(new)
           seen == search.seen \o new
           m == [search.mine EXCEPT !.total = position]
           q == IF ~search.first /\ position >= PerPage THEN "first" ELSE "walking"
<1>3. new \in Seq(Leads) /\ IsInjective(seen)
  BY <1>2, RecordTyped, UnseenIsNew DEF HistoryInv, JobOK
<1>4. /\ seen \in Seq(Leads) /\ Len(seen) = position /\ Len(new) \in Nat /\ position \in Nat
      /\ position >= Len(search.seen)
  BY <1>3, RecordTyped
<1>5. CASE ~There /\ position # search.mine.total
  <2>1. Fail
    BY <1>2, <1>5 DEF TakeIds
  <2> QED
    BY <1>1, <2>1, FailKeeps
<1>6. CASE ~(~There /\ position # search.mine.total)
  <2>1. /\ stored' = stored \o new
        /\ history' = Written(search.mine, m)
        /\ search' = [search EXCEPT !.fetches = search.fetches + 1, !.mine = m, !.seen = seen, !.pc = q]
        /\ UNCHANGED <<kind, started, viewer, told, reader>>
    BY <1>2, <1>6 DEF TakeIds
  <2>2. m \in ColumnsType /\ m.page = search.mine.page /\ m.total = position
    BY <1>4, RecordTyped DEF ColumnsType
  <2>3. q \in JobStages
    BY DEF JobStages, Filling
  <2>4. PICK w : w = [search EXCEPT !.fetches = search.fetches + 1, !.mine = m, !.seen = seen, !.pc = q]
    OBVIOUS
  <2>5. /\ w \in SearchType /\ w.pc = q /\ w.mine = m /\ w.seen = seen /\ w.first = search.first
    <3>1. PICK f, s : f = search.fetches + 1 /\ s = seen
      OBVIOUS
    <3>2. f \in Nat /\ s \in Seq(Leads)
      BY <1>4, <3>1, RecordTyped
    <3> HIDE DEF m, q, seen
    <3>3. w = [search EXCEPT !.fetches = f, !.mine = m, !.seen = s, !.pc = q]
      BY <2>4, <3>1
    <3>4. search \in SearchType
      BY RecordTyped
    <3>5. PICK r1 : r1 = [search EXCEPT !.fetches = f]
      OBVIOUS
    <3>6. r1 \in SearchType /\ r1.first = search.first
      BY <3>2, <3>4, <3>5 DEF SearchType
    <3>7. PICK r2 : r2 = [r1 EXCEPT !.mine = m]
      OBVIOUS
    <3>8. r2 \in SearchType /\ r2.mine = m /\ r2.first = search.first
      BY <2>2, <3>6, <3>7 DEF SearchType
    <3>9. PICK r3 : r3 = [r2 EXCEPT !.seen = s]
      OBVIOUS
    <3>10. r3 \in SearchType /\ r3.mine = m /\ r3.seen = s /\ r3.first = search.first
      BY <3>2, <3>8, <3>9 DEF SearchType
    <3>11. w = [r3 EXCEPT !.pc = q]
      BY <3>3, <3>5, <3>7, <3>9
    <3> QED
      BY <2>3, <3>1, <3>10, <3>11 DEF SearchType
  <2>6. search' = w
    BY <2>1, <2>4
  <2> HIDE DEF m, seen
  <2>7. /\ history' \in HistoryType /\ history'.state = history.state /\ history'.page = history.page
        /\ history'.total = IF position = search.mine.total THEN history.total ELSE position
    BY <2>1, <2>2, RecordTyped, WrittenRow
  <2>8. stored' \in Seq(Leads) /\ Len(stored') = Len(stored) + Len(new)
    BY <1>3, <2>1, RecordTyped
  <2>9. ~There => new = << >> /\ stored' = << >>
    <3> SUFFICES ASSUME ~There PROVE new = << >> /\ stored' = << >>
      OBVIOUS
    <3>1. stored = << >> /\ search.mine.total <= Len(search.seen) /\ position = search.mine.total
      BY <1>6 DEF HistoryInv, RowOK, JobOK
    <3>2. Len(new) = 0
      BY <1>4, <3>1, RecordTyped
    <3>3. new = << >>
      BY <1>3, <3>2
    <3> QED
      BY <2>1, <3>1, <3>3
  <2>10. HistoryTyped'
    BY <2>1, <2>5, <2>6, <2>7, <2>8, RecordTyped DEF HistoryTyped
  <2>11. kind # "import" /\ history.state # "none"
    BY <1>1 DEF HistoryInv, RowOK
  <2>12. There => stored' = seen /\ history'.total <= Len(stored')
    <3> SUFFICES ASSUME There PROVE stored' = seen /\ history'.total <= Len(stored')
      OBVIOUS
    <3>1. stored = search.seen /\ history.total <= Len(stored)
      BY <2>11 DEF HistoryInv, RowOK
    <3> QED
      BY <1>4, <2>1, <2>7, <2>8, <3>1, RecordTyped DEF seen
  <2>13. q \in {"first", "walking"}
    OBVIOUS
  <2>14. RowOK'
    BY <2>1, <2>5, <2>6, <2>7, <2>9, <2>11, <2>12, <2>13 DEF RowOK, There
  <2>15. ReadersOK'
    <3>1. There' => There /\ Len(stored') >= Len(stored)
      BY <1>4, <2>7, <2>8, RecordTyped DEF There
    <3> QED
      BY <2>1, <2>8, <3>1, ReadersStay
  <2>16. JobOK'
    <3>1. ~search.first => search.mine.page = 1
      BY <1>1 DEF HistoryInv, JobOK
    <3>2. search.first => Len(search.seen) >= PerPage
      BY <1>1 DEF HistoryInv, JobOK
    <3>3. q = "first" => ~search.first /\ position >= PerPage
      OBVIOUS
    <3>4. q = "walking" => search.first \/ position < PerPage
      BY <1>4, HistorySizes
    <3>5. search.first => position >= PerPage
      BY <1>4, <3>2, HistorySizes, RecordTyped
    <3>6. Len(w.seen) = position /\ w.mine.total = position /\ w.mine.page = search.mine.page
      BY <1>4, <2>2, <2>5
    <3> HIDE DEF q, position
    <3> QED
      <4>1. IsInjective(search'.seen) /\ search'.mine.total <= Len(search'.seen)
        BY <1>3, <1>4, <2>5, <2>6, <3>6
      <4>2. search'.pc \in {"first", "walking"} /\ search'.first = search.first /\ search'.pc = q
        BY <2>5, <2>6, <2>13
      <4>3. Len(search'.seen) = position /\ search'.mine.page = search.mine.page
        BY <2>6, <3>6
      <4> QED
        BY <3>1, <3>3, <3>4, <3>5, <4>1, <4>2, <4>3 DEF JobOK, Filling
  <2>17. ToldOK'
    <3>1. q = "first" => ~search.first
      OBVIOUS
    <3> HIDE DEF q
    <3> QED
      BY <1>1, <2>1, <2>5, <2>6, <2>13, <3>1 DEF HistoryInv, ToldOK, Filling
  <2> QED
    BY <2>10, <2>14, <2>15, <2>16, <2>17 DEF HistoryInv
<1> QED
  BY <1>5, <1>6

LEMMA IngestCompleteKeeps ==
    ASSUME HistoryInv, IngestComplete
    PROVE  HistoryInv'
<1>1. search.pc = "walking"
  BY DEF IngestComplete
<1>2. CASE ~There
  <2>1. Fail
    BY <1>2 DEF IngestComplete
  <2> QED
    BY <1>1, <2>1, FailKeeps
<1>3. CASE There
  <2> DEFINE m == [search.mine EXCEPT !.total = Len(search.seen)]
             c == Columns(history'.page, history'.total)
             q == IF search.first THEN "last" ELSE "only"
  <2>1. /\ history' = Written(search.mine, m)
        /\ search' = [search EXCEPT !.pc = q, !.mine = c]
        /\ UNCHANGED <<kind, stored, started, viewer, told, reader>>
    BY <1>3 DEF IngestComplete
  <2>2. m \in ColumnsType /\ m.page = search.mine.page /\ m.total = Len(search.seen)
    BY RecordTyped DEF ColumnsType
  <2> HIDE DEF m
  <2>3. /\ history' \in HistoryType /\ history'.state = history.state /\ history'.page = history.page
        /\ history'.total = IF Len(search.seen) = search.mine.total THEN history.total
                            ELSE Len(search.seen)
    BY <2>1, <2>2, RecordTyped, WrittenRow
  <2>4. c \in ColumnsType /\ c.page = history'.page /\ c.total = history'.total
    BY <2>3 DEF Columns, ColumnsType, HistoryType
  <2>5. q \in JobStages
    BY DEF JobStages
  <2>6. /\ search' \in SearchType /\ search'.pc = q /\ search'.mine = c
        /\ search'.seen = search.seen /\ search'.first = search.first
    <3> HIDE DEF c, q
    <3> QED
      <4>1. search \in SearchType
        BY RecordTyped
      <4>2. /\ [search EXCEPT !.pc = q, !.mine = c] \in SearchType
            /\ [search EXCEPT !.pc = q, !.mine = c]
                 = [pc |-> q, mine |-> c, fetches |-> search.fetches, seen |-> search.seen,
                    first |-> search.first, page |-> search.page]
        BY <2>4, <2>5, <4>1, StageAndRow
      <4> QED
        BY <2>1, <4>2
  <2> HIDE DEF c
  <2>7. HistoryTyped'
    BY <2>1, <2>3, <2>6, RecordTyped DEF HistoryTyped
  <2>8. kind # "import" /\ stored = search.seen /\ history.total <= Len(stored) /\ history.state = "there"
    BY <1>1, <1>3 DEF HistoryInv, RowOK, There
  <2>9. history'.total <= Len(stored)
    BY <2>3, <2>8, RecordTyped
  <2>10. RowOK'
    BY <2>1, <2>3, <2>6, <2>8, <2>9 DEF RowOK, There
  <2>11. ReadersOK'
    BY <2>1, <2>3 DEF HistoryInv, ReadersOK, There
  <2>12. JobOK'
    <3>1. c.total <= Len(search.seen)
      BY <2>4, <2>8, <2>9
    <3>2. ~search.first => Len(search.seen) < PerPage
      BY <1>1 DEF HistoryInv, JobOK
    <3> QED
      BY <2>6, <3>1, <3>2 DEF HistoryInv, JobOK, Filling
  <2>13. ToldOK'
    BY <1>1, <2>1, <2>6 DEF HistoryInv, ToldOK, Filling
  <2> QED
    BY <2>7, <2>10, <2>11, <2>12, <2>13 DEF HistoryInv
<1> QED
  BY <1>2, <1>3

LEMMA LoadFirstKeeps ==
    ASSUME HistoryInv, LoadFirst
    PROVE  HistoryInv'
<1> DEFINE q == IF search.pc = "first" THEN "showing" ELSE "showing only"
<1>1. /\ search.pc \in {"first", "only"}
      /\ search' = [search EXCEPT !.pc = q, !.page = 1]
      /\ UNCHANGED <<kind, history, stored, started, viewer, told, reader>>
  BY DEF LoadFirst
<1>2. q \in JobStages /\ 1 \in 0..MaxPage
  BY HistorySizes DEF JobStages, Filling
<1>3. /\ search' \in SearchType /\ search'.pc = q /\ search'.page = 1 /\ search'.mine = search.mine
      /\ search'.seen = search.seen /\ search'.first = search.first
  <2> HIDE DEF q
  <2> QED
    <3>1. search \in SearchType
      BY RecordTyped
    <3>2. /\ [search EXCEPT !.pc = q, !.page = 1] \in SearchType
          /\ [search EXCEPT !.pc = q, !.page = 1]
               = [pc |-> q, mine |-> search.mine, fetches |-> search.fetches, seen |-> search.seen,
                  first |-> search.first, page |-> 1]
      BY <1>2, <3>1, StageAndPage
    <3> QED
      BY <1>1, <3>2
<1>4. HistoryTyped'
  BY <1>1, <1>3, RecordTyped DEF HistoryTyped
<1>5. RowOK' /\ ReadersOK'
  BY <1>1, <1>3 DEF HistoryInv, RowOK, ReadersOK, There
<1>6. \/ search.pc = "first" /\ search'.pc = "showing"
      \/ search.pc = "only" /\ search'.pc = "showing only"
  BY <1>1, <1>3
<1>7. JobOK'
  BY <1>3, <1>6 DEF HistoryInv, JobOK, Filling
<1>8. ToldOK'
  BY <1>1, <1>3, <1>6 DEF HistoryInv, ToldOK, Filling
<1> QED
  BY <1>4, <1>5, <1>7, <1>8 DEF HistoryInv

LEMMA LoadLastKeeps ==
    ASSUME HistoryInv, LoadLast
    PROVE  HistoryInv'
<1>1. /\ search.pc = "last" /\ There
      /\ search' = [search EXCEPT !.pc = "showing last", !.mine = Loaded, !.page = history.page]
      /\ UNCHANGED <<kind, history, stored, started, viewer, told, reader>>
  BY DEF LoadLast
<1>2. /\ "showing last" \in JobStages /\ history.page \in 0..MaxPage /\ Loaded \in ColumnsType
      /\ Loaded.page = history.page /\ Loaded.total = history.total
  <2>1. "showing last" \in JobStages
    BY DEF JobStages
  <2>2. history.page \in 1..MaxPage /\ history.total \in Nat
    BY RecordTyped
  <2>3. history.page \in 0..MaxPage
    BY <2>2, HistorySizes
  <2>4. /\ Loaded \in ColumnsType /\ Loaded.page = history.page
        /\ Loaded.total = history.total
    BY <2>2 DEF Loaded, Columns, ColumnsType
  <2> QED
    BY <2>1, <2>3, <2>4
<1>3. /\ search' \in SearchType /\ search'.pc = "showing last" /\ search'.page = history.page
      /\ search'.mine = Loaded /\ search'.seen = search.seen /\ search'.first = search.first
  <2>1. search \in SearchType
    BY RecordTyped
  <2>2. PICK c, g : c = Loaded /\ g = history.page
    OBVIOUS
  <2>3. /\ [search EXCEPT !.pc = "showing last", !.mine = c, !.page = g] \in SearchType
        /\ [search EXCEPT !.pc = "showing last", !.mine = c, !.page = g]
             = [pc |-> "showing last", mine |-> c, fetches |-> search.fetches, seen |-> search.seen,
                first |-> search.first, page |-> g]
    BY ZenonT(60), <1>2, <2>1, <2>2, StageRowPage
  <2> QED
    BY <1>1, <2>2, <2>3
<1>4. HistoryTyped'
  BY <1>1, <1>3, RecordTyped DEF HistoryTyped
<1>5. RowOK' /\ ReadersOK'
  BY <1>1, <1>3 DEF HistoryInv, RowOK, ReadersOK, There
<1>6. JobOK'
  <2>1. kind # "import"
    BY <1>1 DEF HistoryInv, RowOK
  <2>2. history.total <= Len(search.seen)
    BY <1>1, <2>1 DEF HistoryInv, RowOK
  <2> QED
    BY <1>2, <1>3, <2>2 DEF HistoryInv, JobOK, Filling
<1>7. ToldOK'
  BY <1>1, <1>3 DEF HistoryInv, ToldOK, Filling
<1> QED
  BY <1>4, <1>5, <1>6, <1>7 DEF HistoryInv

LEMMA ShowPageKeeps ==
    ASSUME HistoryInv, ShowPage
    PROVE  HistoryInv'
<1> DEFINE m == [search.mine EXCEPT !.page = search.page]
           c == Columns(history'.page, history'.total)
           q == IF search.pc = "showing" THEN "walking" ELSE "embedding"
<1>1. /\ search.pc \in {"showing", "showing only", "showing last"} /\ There
      /\ history' = Written(search.mine, m)
      /\ search' = [search EXCEPT !.pc = q, !.first = TRUE, !.mine = c]
      /\ UNCHANGED <<kind, stored, started, viewer, reader>>
  BY DEF ShowPage
<1>2. search.page \in 1..MaxPage
  <2>1. search.pc = "showing last" => search.page = search.mine.page
    BY DEF HistoryInv, JobOK
  <2>2. search.pc \in {"showing", "showing only"} => search.page = 1
    BY DEF HistoryInv, JobOK
  <2>3. search.mine.page \in 1..MaxPage /\ 1 \in 1..MaxPage
    BY RecordTyped, HistorySizes
  <2> QED
    BY <1>1, <2>1, <2>2, <2>3
<1>3. m \in ColumnsType /\ m.page = search.page /\ m.total = search.mine.total
  BY <1>2, RecordTyped DEF ColumnsType
<1> HIDE DEF m
<1>4. /\ history' \in HistoryType /\ history'.state = history.state
      /\ history'.total = history.total
  BY <1>1, <1>3, RecordTyped, WrittenRow
<1>5. c \in ColumnsType /\ c.page = history'.page /\ c.total = history'.total
  BY <1>4 DEF Columns, ColumnsType, HistoryType
<1>6. q \in JobStages
  BY DEF JobStages
<1>7. /\ search' \in SearchType /\ search'.pc = q /\ search'.mine = c
      /\ search'.seen = search.seen /\ search'.first = TRUE
  <2>1. PICK b \in BOOLEAN : b = TRUE
    OBVIOUS
  <2> HIDE DEF c, q
  <2>2. /\ [search EXCEPT !.pc = q, !.first = b, !.mine = c] \in SearchType
        /\ [search EXCEPT !.pc = q, !.first = b, !.mine = c]
             = [pc |-> q, mine |-> c, fetches |-> search.fetches, seen |-> search.seen,
                first |-> b, page |-> search.page]
    <3>1. search \in SearchType
      BY RecordTyped
    <3>2. PICK cc, qq, r : cc = c /\ qq = q /\ r = search
      OBVIOUS
    <3>3. r \in SearchType /\ cc \in ColumnsType /\ qq \in JobStages
      BY <1>5, <1>6, <3>1, <3>2
    <3>4. /\ [r EXCEPT !.pc = qq, !.first = b, !.mine = cc] \in SearchType
          /\ [r EXCEPT !.pc = qq, !.first = b, !.mine = cc]
               = [pc |-> qq, mine |-> cc, fetches |-> r.fetches, seen |-> r.seen,
                  first |-> b, page |-> r.page]
      BY <3>3, StageFirstRow
    <3> QED
      BY <3>2, <3>4
  <2> QED
    BY <1>1, <2>1, <2>2
<1> HIDE DEF c
<1>8. HistoryTyped'
  BY <1>1, <1>4, <1>7, RecordTyped DEF HistoryTyped
<1>9. kind # "import" /\ stored = search.seen /\ history.total <= Len(stored) /\ history.state = "there"
  BY <1>1 DEF HistoryInv, RowOK, There
<1>10. RowOK' /\ ReadersOK'
  <2>1. search'.pc \in {"walking", "embedding"}
    BY <1>7
  <2>2. RowOK'
    BY <1>1, <1>4, <1>7, <1>9, <2>1 DEF RowOK, There
  <2>3. ReadersOK'
    BY <1>1, <1>4 DEF HistoryInv, ReadersOK, There
  <2> QED
    BY <2>2, <2>3
<1>11. JobOK'
  <2>1. c.total <= Len(search.seen)
    BY <1>4, <1>5, <1>9
  <2>2. search.pc = "showing" => Len(search.seen) >= PerPage
    BY DEF HistoryInv, JobOK
  <2>3. search'.pc \in {"walking", "embedding"} /\ (search'.pc = "walking" => search.pc = "showing")
    BY <1>7
  <2>4. IsInjective(search'.seen) /\ search'.mine.total <= Len(search'.seen)
    BY <1>7, <2>1 DEF HistoryInv, JobOK
  <2> QED
    BY <1>7, <2>2, <2>3, <2>4 DEF JobOK, Filling
<1>12. ToldOK'
  <2>1. told' = IF viewer THEN told \o (CASE search.pc = "showing" -> <<"first_page">>
                                          [] search.pc = "showing only" -> <<"first_page", "complete">>
                                          [] search.pc = "showing last" -> <<"complete">>)
                ELSE told
    BY DEF ShowPage, Sent
  <2>2. CASE search.pc = "showing"
    <3>1. told = << >> /\ told' \in {<< >>, FirstOnly} /\ (viewer => told' = FirstOnly)
      BY <2>1, <2>2, LinesTold DEF HistoryInv, ToldOK, Filling
    <3> QED
      BY <1>1, <1>7, <2>2, <3>1 DEF HistoryInv, ToldOK, Filling, Lines
  <2>3. CASE search.pc = "showing only"
    <3>1. told = << >> /\ told' \in {<< >>, FirstAndLast} /\ (viewer => told' = FirstAndLast)
      BY <2>1, <2>3, LinesTold DEF HistoryInv, ToldOK, Filling
    <3> QED
      <4>1. search'.pc = "embedding" /\ told' \in Lines
        BY <1>7, <2>3, <3>1 DEF Lines
      <4> QED
        BY <1>1, <3>1, <4>1 DEF HistoryInv, ToldOK, Filling
  <2>4. CASE search.pc = "showing last"
    <3>1. told \in {<< >>, FirstOnly} /\ (viewer => told = FirstOnly)
      BY <2>4 DEF HistoryInv, ToldOK
    <3>2. viewer => told' = FirstAndLast
      BY <2>1, <2>4, <3>1, LinesTold
    <3>3. ~viewer => told' = told
      BY <2>1
    <3> QED
      <4>1. told' \in {<< >>, FirstOnly, FirstAndLast} /\ (viewer => told' = FirstAndLast)
        BY <3>1, <3>2, <3>3
      <4>2. search'.pc = "embedding" /\ told' \in Lines
        BY <1>7, <2>4, <4>1 DEF Lines
      <4> QED
        BY <1>1, <4>1, <4>2 DEF HistoryInv, ToldOK, Filling
  <2> QED
    BY <1>1, <2>2, <2>3, <2>4
<1> QED
  BY <1>8, <1>10, <1>11, <1>12 DEF HistoryInv

LEMMA EmbeddingEndsKeeps ==
    ASSUME HistoryInv, EmbeddingEnds
    PROVE  HistoryInv'
<1>1. /\ search.pc = "embedding"
      /\ search' = [search EXCEPT !.pc = "over"]
      /\ told' = IF viewer THEN told \o <<"end">> ELSE told
      /\ UNCHANGED <<kind, history, stored, started, viewer, reader>>
  BY DEF EmbeddingEnds, Sent
<1>2. "over" \in JobStages
  BY DEF JobStages
<1>3. /\ search' \in SearchType /\ search'.pc = "over" /\ search'.seen = search.seen
      /\ search'.mine = search.mine /\ search'.first = search.first
  BY <1>1, <1>2, StageSet
<1>4. HistoryTyped'
  BY <1>1, <1>3, RecordTyped DEF HistoryTyped
<1>5. RowOK' /\ ReadersOK'
  BY <1>1, <1>3 DEF HistoryInv, RowOK, ReadersOK, There
<1>6. JobOK'
  BY <1>1, <1>3 DEF HistoryInv, JobOK, Filling
<1>7. ToldOK'
  <2>1. told \in Lines /\ (viewer => told = FirstAndLast)
    BY <1>1 DEF HistoryInv, ToldOK
  <2>2. told' \in Lines
    BY <1>1, <2>1, LinesTold DEF Lines, Tellings
  <2> QED
    BY <1>1, <1>3, <2>2 DEF HistoryInv, ToldOK, Filling
<1> QED
  BY <1>4, <1>5, <1>6, <1>7 DEF HistoryInv

LEMMA ImportRowKeeps ==
    ASSUME HistoryInv, ImportRow
    PROVE  HistoryInv'
<1>1. /\ search.pc = "new" /\ kind = "import"
      /\ history' = [state |-> "there", page |-> 1, total |-> Len(Found)]
      /\ search' = [search EXCEPT !.pc = "importing"]
      /\ UNCHANGED <<kind, stored, started, viewer, told, reader>>
  BY DEF ImportRow
<1>2. "importing" \in JobStages
  BY DEF JobStages
<1>3. /\ search' \in SearchType /\ search'.pc = "importing" /\ search'.seen = search.seen
      /\ search'.mine = search.mine /\ search'.first = search.first
  BY <1>1, <1>2, StageSet
<1>4. /\ history' \in HistoryType /\ history'.state = "there" /\ history'.total = Len(Found)
      /\ Len(Found) \in Nat
  BY <1>1, HistorySizes DEF HistoryType
<1>5. stored = << >> /\ \A r \in Readers : reader[r].pc = "idle"
  BY <1>1 DEF HistoryInv, RowOK, There
<1>6. HistoryTyped'
  BY <1>1, <1>3, <1>4, RecordTyped DEF HistoryTyped
<1>7. RowOK'
  BY <1>1, <1>3, <1>4, <1>5 DEF RowOK, There
<1>8. ReadersOK'
  BY <1>1, <1>5 DEF ReadersOK
<1>9. JobOK' /\ ToldOK'
  BY <1>1, <1>3 DEF HistoryInv, JobOK, ToldOK, Filling
<1> QED
  BY <1>6, <1>7, <1>8, <1>9 DEF HistoryInv

LEMMA ImportResultsKeeps ==
    ASSUME HistoryInv, ImportResults
    PROVE  HistoryInv'
<1>1. /\ search.pc = "importing" /\ There
      /\ stored' = Found
      /\ search' = [search EXCEPT !.pc = "over"]
      /\ started' = "yes"
      /\ UNCHANGED <<kind, history, viewer, told, reader>>
  BY DEF ImportResults
<1>2. "over" \in JobStages
  BY DEF JobStages
<1>3. /\ search' \in SearchType /\ search'.pc = "over" /\ search'.seen = search.seen
      /\ search'.mine = search.mine /\ search'.first = search.first
  BY <1>1, <1>2, StageSet
<1>4. HistoryTyped'
  BY <1>1, <1>3, RecordTyped, HistorySizes DEF HistoryTyped
<1>5. kind = "import" /\ stored \in {<< >>, Found} /\ history.total <= Len(Found) /\ history.state = "there"
  BY <1>1 DEF HistoryInv, RowOK, There
<1>6. RowOK'
  BY <1>1, <1>3, <1>5 DEF RowOK, There
<1>7. ReadersOK'
  <2>1. Len(stored') >= Len(stored)
    BY <1>1, <1>5, HistorySizes
  <2> QED
    BY <1>1, <2>1, HistorySizes, ReadersStay
<1>8. JobOK' /\ ToldOK'
  BY <1>1, <1>3 DEF HistoryInv, JobOK, ToldOK, Filling
<1> QED
  BY <1>4, <1>6, <1>7, <1>8 DEF HistoryInv

(***************************************************************************)
(* The users: a reader moves, and may correct the row.                     *)
(***************************************************************************)
LEMMA ReaderMoved ==
    ASSUME HistoryInv, NEW r \in Readers, NEW w \in ReaderType, reader' = [reader EXCEPT ![r] = w],
           history' \in HistoryType, history'.state = history.state, history.state # "none",
           kind # "import" /\ There => history'.total <= Len(stored),
           kind = "import" /\ There => history'.total <= Len(Found),
           w.pc = "turning" => w.page >= 1 /\ (There => w.total <= Len(stored)),
           UNCHANGED <<kind, stored, search, started, viewer, told>>
    PROVE  HistoryInv'
<1>1. /\ reader' \in [Readers -> ReaderType] /\ reader'[r] = w
      /\ \A q \in Readers : q # r => reader'[q] = reader[q]
  BY RecordTyped
<1>2. HistoryTyped'
  BY <1>1, RecordTyped DEF HistoryTyped
<1>3. RowOK'
  BY DEF HistoryInv, RowOK, There
<1>4. ReadersOK'
  BY <1>1 DEF HistoryInv, ReadersOK, There
<1>5. JobOK' /\ ToldOK'
  BY DEF HistoryInv, JobOK, ToldOK
<1> QED
  BY <1>2, <1>3, <1>4, <1>5 DEF HistoryInv

LEMMA OpenKeeps ==
    ASSUME HistoryInv, NEW r \in Readers, NEW page \in 0..MaxPage, Open(r, page)
    PROVE  HistoryInv'
<1> DEFINE w == [pc |-> "open", mine |-> Loaded, page |-> page, total |-> 0]
<1>1. /\ There /\ reader' = [reader EXCEPT ![r] = w]
      /\ UNCHANGED <<kind, history, stored, search, started, viewer, told>>
  BY DEF Open
<1>2. w \in ReaderType /\ w.pc = "open"
  BY RecordTyped DEF ReaderType, Loaded, Columns, ColumnsType
<1> HIDE DEF w
<1>3. /\ history.state # "none" /\ history' \in HistoryType /\ history'.state = history.state
      /\ kind # "import" => history'.total <= Len(stored)
      /\ kind = "import" => history'.total <= Len(Found)
  BY <1>1, RecordTyped DEF There, HistoryInv, RowOK
<1> QED
  BY <1>1, <1>2, <1>3, ReaderMoved

LEMMA CountKeeps ==
    ASSUME HistoryInv, NEW r \in Readers, Count(r)
    PROVE  HistoryInv'
<1> DEFINE get == reader[r].page = 0
           none == stored = << >>
           m == [reader[r].mine EXCEPT !.total = Len(stored)]
           w == IF get \/ none THEN Resting("over")
                ELSE [reader[r] EXCEPT !.pc = "turning", !.total = Len(stored)]
<1>1. /\ reader[r].pc = "open"
      /\ history' = IF get /\ ~none /\ There THEN Written(reader[r].mine, m) ELSE history
      /\ reader' = [reader EXCEPT ![r] = w]
      /\ UNCHANGED <<kind, stored, search, started, viewer, told>>
  BY RecordTyped DEF Count
<1>2. /\ reader[r] \in ReaderType /\ reader[r].mine \in ColumnsType /\ reader[r].page \in 0..MaxPage
      /\ reader[r].total \in Nat
  BY RecordTyped DEF ReaderType
<1>3. m \in ColumnsType /\ m.total = Len(stored)
  BY <1>2, RecordTyped DEF ColumnsType
<1>4. w \in ReaderType /\ (w.pc = "turning" => w.page >= 1 /\ w.total = Len(stored))
  <2>1. CASE get \/ none
    <3>1. w = Resting("over") /\ Resting("over") \in ReaderType /\ Resting("over").pc = "over"
      BY <2>1, HistorySizes DEF Resting, ReaderType, Columns, ColumnsType
    <3> QED
      BY <3>1
  <2>2. CASE ~(get \/ none)
    <3> DEFINE v == [reader[r] EXCEPT !.pc = "turning"]
    <3>1. v \in ReaderType /\ v.page = reader[r].page
      BY <1>2 DEF ReaderType
    <3>2. w = [v EXCEPT !.total = Len(stored)]
      BY <2>2
    <3> HIDE DEF v, w
    <3>3. w \in ReaderType /\ w.page = v.page /\ w.total = Len(stored)
      BY <3>1, <3>2, RecordTyped DEF ReaderType
    <3>4. reader[r].page >= 1
      BY <1>2, <2>2, HistorySizes
    <3> QED
      BY <3>1, <3>3, <3>4
  <2> QED
    BY <2>1, <2>2
<1> HIDE DEF w, m
<1>5. history.state # "none"
  BY <1>1 DEF HistoryInv, RowOK
<1>6. /\ kind # "import" /\ There => history.total <= Len(stored)
      /\ kind = "import" /\ There => history.total <= Len(Found)
      /\ kind = "import" => stored \in {<< >>, Found}
  BY DEF HistoryInv, RowOK
<1>7. /\ history' \in HistoryType /\ history'.state = history.state
      /\ \/ history'.total = history.total
         \/ history'.total = Len(stored) /\ ~none
  <2>1. CASE get /\ ~none /\ There
    <3>1. history' = Written(reader[r].mine, m)
      BY <1>1, <2>1
    <3> QED
      BY <1>2, <1>3, <2>1, <3>1, RecordTyped, WrittenRow
  <2>2. CASE ~(get /\ ~none /\ There)
    BY <1>1, <2>2, RecordTyped
  <2> QED
    BY <2>1, <2>2
<1>8. /\ kind # "import" /\ There => history'.total <= Len(stored)
      /\ kind = "import" /\ There => history'.total <= Len(Found)
  BY <1>6, <1>7, RecordTyped
<1>9. w.pc = "turning" => w.page >= 1 /\ (There => w.total <= Len(stored))
  BY <1>4, RecordTyped
<1> QED
  BY <1>1, <1>4, <1>5, <1>7, <1>8, <1>9, ReaderMoved

LEMMA TurnPageKeeps ==
    ASSUME HistoryInv, NEW r \in Readers, TurnPage(r)
    PROVE  HistoryInv'
<1> DEFINE m == Columns(reader[r].page, reader[r].total)
<1>1. /\ reader[r].pc = "turning"
      /\ history' = IF There THEN Written(reader[r].mine, m) ELSE history
      /\ reader' = [reader EXCEPT ![r] = Resting("over")]
      /\ UNCHANGED <<kind, stored, search, started, viewer, told>>
  BY DEF TurnPage
<1>2. /\ reader[r] \in ReaderType /\ reader[r].mine \in ColumnsType /\ reader[r].page \in 0..MaxPage
      /\ reader[r].total \in Nat
  BY RecordTyped DEF ReaderType
<1>3. reader[r].page >= 1 /\ (There => reader[r].total <= Len(stored))
  BY <1>1 DEF HistoryInv, ReadersOK
<1>4. m \in ColumnsType /\ m.total = reader[r].total
  BY <1>2, <1>3, HistorySizes DEF Columns, ColumnsType
<1> HIDE DEF m
<1>5. Resting("over") \in ReaderType /\ Resting("over").pc = "over"
  BY HistorySizes DEF Resting, ReaderType, Columns, ColumnsType
<1>6. history.state # "none"
  BY <1>1 DEF HistoryInv, RowOK
<1>7. /\ kind # "import" /\ There => history.total <= Len(stored)
      /\ kind = "import" /\ There => history.total <= Len(Found)
      /\ kind = "import" => stored \in {<< >>, Found}
  BY DEF HistoryInv, RowOK
<1>8. /\ history' \in HistoryType /\ history'.state = history.state
      /\ There => history'.total \in {history.total, reader[r].total}
  <2>1. CASE There
    <3>1. history' = Written(reader[r].mine, m)
      BY <1>1, <2>1
    <3> QED
      BY <1>2, <1>4, <3>1, RecordTyped, WrittenRow
  <2>2. CASE ~There
    BY <1>1, <2>2, RecordTyped
  <2> QED
    BY <2>1, <2>2
<1>9. kind # "import" /\ There => history'.total <= Len(stored)
  BY <1>3, <1>7, <1>8
<1>10. kind = "import" /\ There => history'.total <= Len(Found)
  <2>1. << >> # Found => Len(Found) >= Len(<< >>)
    BY HistorySizes
  <2> QED
    BY <1>2, <1>3, <1>7, <1>8, <2>1, RecordTyped, HistorySizes
<1> QED
  BY <1>1, <1>5, <1>6, <1>8, <1>9, <1>10, ReaderMoved

LEMMA DeleteKeeps ==
    ASSUME HistoryInv, Delete
    PROVE  HistoryInv'
<1>1. /\ There
      /\ history' = [history EXCEPT !.state = "gone"]
      /\ stored' = << >>
      /\ UNCHANGED <<kind, search, started, viewer, told, reader>>
  BY DEF Delete
<1>2. history' \in HistoryType /\ history'.state = "gone"
  BY <1>1, RecordTyped DEF HistoryType
<1>3. HistoryTyped'
  BY <1>1, <1>2, RecordTyped DEF HistoryTyped
<1>4. RowOK'
  BY <1>1, <1>2 DEF HistoryInv, RowOK, There
<1>5. ReadersOK'
  BY <1>1, <1>2 DEF HistoryInv, ReadersOK, There
<1>6. JobOK' /\ ToldOK'
  BY <1>1 DEF HistoryInv, JobOK, ToldOK
<1> QED
  BY <1>3, <1>4, <1>5, <1>6 DEF HistoryInv

LEMMA ViewerLeavesKeeps ==
    ASSUME HistoryInv, ViewerLeaves
    PROVE  HistoryInv'
<1>1. viewer' = FALSE /\ UNCHANGED <<kind, history, stored, search, started, told, reader>>
  BY DEF ViewerLeaves
<1>2. HistoryTyped'
  BY <1>1 DEF HistoryInv, HistoryTyped
<1>3. RowOK' /\ ReadersOK' /\ JobOK'
  BY <1>1 DEF HistoryInv, RowOK, ReadersOK, JobOK, There
<1>4. ToldOK'
  BY <1>1 DEF HistoryInv, ToldOK
<1> QED
  BY <1>2, <1>3, <1>4 DEF HistoryInv

LEMMA PauseKeeps ==
    ASSUME HistoryInv, NEW s, Pause(s) \/ ResumeOrCancel(s)
    PROVE  HistoryInv'
<1>1. UNCHANGED <<kind, history, stored, search, started, viewer, told, reader>>
  BY DEF Pause, ResumeOrCancel
<1>2. HistoryTyped'
  BY <1>1 DEF HistoryInv, HistoryTyped
<1>3. RowOK' /\ ReadersOK' /\ JobOK'
  BY <1>1 DEF HistoryInv, RowOK, ReadersOK, JobOK, There
<1>4. ToldOK'
  BY <1>1 DEF HistoryInv, ToldOK
<1> QED
  BY <1>2, <1>3, <1>4 DEF HistoryInv

LEMMA PausedStays ==
    ASSUME PausedOK, HistoryNext \/ UNCHANGED historyVars
    PROVE  PausedOK'
<1>1. CASE UNCHANGED historyVars
  BY <1>1 DEF historyVars, PausedOK
<1>2. CASE JobStep
  <2>1. CASE \E ids \in Batches : TakeIds(ids)
    BY <2>1 DEF TakeIds, Fail, PausedOK
  <2>2. CASE IngestComplete
    BY <2>2 DEF IngestComplete, Fail, PausedOK
  <2>3. CASE JobFails
    BY <2>3 DEF JobFails, Fail, PausedOK
  <2>4. CASE CreateRow \/ StartStreams \/ LoadFirst \/ LoadLast \/ ShowPage \/ EmbeddingEnds
             \/ ImportRow \/ ImportResults
    BY <2>4 DEF CreateRow, StartStreams, LoadFirst, LoadLast, ShowPage, EmbeddingEnds, ImportRow,
                ImportResults, PausedOK
  <2> QED
    BY <1>2, <2>1, <2>2, <2>3, <2>4 DEF JobStep
<1>3. CASE UserStep
  <2>1. CASE \E s \in {"ingest", "embedding"} : Pause(s) \/ ResumeOrCancel(s)
    BY <2>1 DEF Pause, ResumeOrCancel, PausedOK
  <2>2. CASE \/ \E r \in Readers : (\E page \in 0..MaxPage : Open(r, page)) \/ Count(r) \/ TurnPage(r)
             \/ Delete \/ ViewerLeaves
    BY <2>2 DEF Open, Count, TurnPage, Delete, ViewerLeaves, PausedOK
  <2> QED
    BY <1>3, <2>1, <2>2 DEF UserStep
<1> QED
  BY <1>1, <1>2, <1>3 DEF HistoryNext

LEMMA HistoryNextKeeps ==
    ASSUME HistoryInv, HistoryNext \/ UNCHANGED historyVars
    PROVE  HistoryInv'
<1>1. CASE UNCHANGED historyVars
  <2>1. UNCHANGED <<kind, history, stored, search, started, viewer, told, reader>>
    BY <1>1 DEF historyVars
  <2>2. HistoryTyped'
    BY <2>1 DEF HistoryInv, HistoryTyped
  <2>3. RowOK' /\ ReadersOK'
    BY <2>1 DEF HistoryInv, RowOK, ReadersOK, There
  <2>4. JobOK' /\ ToldOK'
    BY <2>1 DEF HistoryInv, JobOK, ToldOK
  <2> QED
    BY <2>2, <2>3, <2>4 DEF HistoryInv
<1>2. CASE JobStep
  BY <1>2, CreateRowKeeps, StartStreamsKeeps, TakeIdsKeeps, IngestCompleteKeeps, LoadFirstKeeps,
     LoadLastKeeps, ShowPageKeeps, EmbeddingEndsKeeps, ImportRowKeeps, ImportResultsKeeps,
     JobFailsKeeps DEF JobStep
<1>3. CASE UserStep
  BY <1>3, OpenKeeps, CountKeeps, TurnPageKeeps, DeleteKeeps, ViewerLeavesKeeps,
     PauseKeeps DEF UserStep
<1> QED
  BY <1>1, <1>2, <1>3 DEF HistoryNext

LEMMA HistoryFollows == HistoryInv /\ PausedOK => HistoryIsTrue
<1> SUFFICES ASSUME HistoryInv, PausedOK PROVE HistoryIsTrue
  OBVIOUS
<1>1. HistoryTypeOK
  BY DEF HistoryInv, PausedOK, HistoryTyped, HistoryTypeOK, HistoryType
<1>2. IsInjective(stored)
  <2>1. IsInjective(<< >>)
    BY DEF IsInjective
  <2>2. stored = << >> \/ stored = search.seen \/ stored = Found
    BY DEF HistoryInv, RowOK
  <2> QED
    BY <2>1, <2>2, HistorySizes DEF HistoryInv, JobOK
<1>3. There /\ (kind # "import" \/ stored # << >>) => history.total <= Len(stored)
  BY DEF HistoryInv, RowOK
<1>4. ~There => stored = << >>
  BY DEF HistoryInv, RowOK
<1>5. \E telling \in Tellings : IsPrefix(told, telling)
  BY ToldIsPrefix DEF HistoryInv, ToldOK
<1>6. told = <<"first_page">> /\ search.pc = "walking" => Len(search.seen) >= PerPage
  <2>1. <<"first_page">> # << >>
    OBVIOUS
  <2>2. told # << >> /\ search.pc = "walking" => search.first
    BY DEF HistoryInv, ToldOK
  <2> QED
    BY <2>1, <2>2 DEF HistoryInv, JobOK
<1> QED
  BY <1>1, <1>2, <1>3, <1>4, <1>5, <1>6 DEF HistoryIsTrue

(***************************************************************************)
(* The job changes the page of the row only when it shows the first page   *)
(* of results that are all on it: then the page it leaves is empty.        *)
(***************************************************************************)
LEMMA LaterPagesEmpty ==
    ASSUME HistoryInv, NEW p \in 1..MaxPage, p # 1, Len(stored) < PerPage
    PROVE  PageOf(p) = << >>
<1> DEFINE from == (p - 1) * PerPage + 1
           to == Min({p * PerPage, Len(stored)})
<1>1. p \in Nat /\ p >= 2 /\ Len(stored) \in Nat /\ stored \in Seq(Leads)
  BY HistorySizes, RecordTyped
<1>2. PICK k \in Nat : k = p - 2
  BY <1>1
<1>3. p - 1 = k + 1 /\ k * PerPage \in Nat
  BY <1>1, <1>2, HistorySizes
<1>4. (p - 1) * PerPage = k * PerPage + PerPage /\ p * PerPage = k * PerPage + PerPage + PerPage
  BY <1>1, <1>2, <1>3, HistorySizes
<1>5. from \in Nat /\ from > Len(stored) /\ p * PerPage > Len(stored) /\ p * PerPage \in Nat
  BY <1>1, <1>3, <1>4, HistorySizes
<1>6. to = Len(stored)
  <2> DEFINE a == p * PerPage
  <2> HIDE DEF a
  <2>1. a \in Nat /\ a > Len(stored)
    BY <1>5 DEF a
  <2>2. Min({a, Len(stored)}) = Len(stored)
    BY <1>1, <2>1 DEF Min
  <2> QED
    BY <2>2 DEF a
<1>7. PageOf(p) = SubSeq(stored, from, to)
  BY DEF PageOf
<1> HIDE DEF from, to
<1>8. SubSeq(stored, from, to) = << >>
  BY <1>1, <1>5, <1>6
<1> QED
  BY <1>7, <1>8

LEMMA PageIsKept ==
    ASSUME HistoryInv, HistoryNext, search' # search, history'.page # history.page
    PROVE  PageOf(history.page) = << >>
<1>1. JobStep
  BY DEF HistoryNext, UserStep, Open, Count, TurnPage, Pause, ResumeOrCancel, Delete, ViewerLeaves
<1>2. CASE CreateRow
  BY <1>2, RecordTyped DEF CreateRow, HistoryType
<1>3. CASE StartStreams \/ LoadFirst \/ LoadLast \/ EmbeddingEnds \/ ImportResults
  BY <1>3 DEF StartStreams, LoadFirst, LoadLast, EmbeddingEnds, ImportResults
<1>4. ~Fail
  BY DEF Fail
<1>5. CASE \E ids \in Batches : TakeIds(ids)
  <2>1. PICK new \in Nat : history' = Written(search.mine, [search.mine EXCEPT !.total = new])
    <3>1. PICK ids \in Batches : TakeIds(ids)
      BY <1>5
    <3>2. Unseen(ids) \in Seq(Leads)
      BY RecordTyped, UnseenIsNew DEF HistoryInv, JobOK
    <3>3. Len(search.seen) + Len(Unseen(ids)) \in Nat
      BY <3>2, RecordTyped
    <3> QED
      BY <1>4, <3>1, <3>3 DEF TakeIds
  <2> DEFINE m == [search.mine EXCEPT !.total = new]
  <2>2. m \in ColumnsType /\ m.page = search.mine.page
    BY RecordTyped DEF ColumnsType
  <2> HIDE DEF m
  <2>3. history'.page = history.page
    BY <2>1, <2>2, RecordTyped, WrittenRow DEF m
  <2> QED
    BY <2>3
<1>6. CASE IngestComplete
  <2> DEFINE m == [search.mine EXCEPT !.total = Len(search.seen)]
  <2>1. history' = Written(search.mine, m)
    BY <1>4, <1>6 DEF IngestComplete
  <2>2. m \in ColumnsType /\ m.page = search.mine.page
    BY RecordTyped DEF ColumnsType
  <2> HIDE DEF m
  <2>3. history'.page = history.page
    BY <2>1, <2>2, RecordTyped, WrittenRow
  <2> QED
    BY <2>3
<1>7. CASE ShowPage
  <2> DEFINE m == [search.mine EXCEPT !.page = search.page]
  <2>1. /\ search.pc \in {"showing", "showing only", "showing last"} /\ There
        /\ history' = Written(search.mine, m)
    BY <1>7 DEF ShowPage
  <2>2. /\ search.pc \in {"showing", "showing only"} => search.page = 1
        /\ search.pc = "showing last" => search.page = search.mine.page
        /\ search.pc = "showing" => search.mine.page = 1
        /\ search.pc = "showing only" => Len(search.seen) < PerPage
    BY DEF HistoryInv, JobOK, Filling
  <2>3. search.page \in 1..MaxPage
    <3>1. search.mine.page \in 1..MaxPage /\ 1 \in 1..MaxPage
      BY RecordTyped, HistorySizes
    <3> QED
      BY <2>1, <2>2, <3>1
  <2>4. m \in ColumnsType /\ m.page = search.page
    BY <2>3, RecordTyped DEF ColumnsType
  <2> HIDE DEF m
  <2>5. history'.page = IF search.page = search.mine.page THEN history.page ELSE search.page
    <3>1. history \in HistoryType /\ search.mine \in ColumnsType
      BY RecordTyped
    <3>2. Written(search.mine, m).page = IF m.page = search.mine.page THEN history.page ELSE m.page
      BY <2>4, <3>1, WrittenRow
    <3> QED
      BY <2>1, <2>4, <3>2
  <2>6. search.pc = "showing only" /\ history.page # 1
    BY <2>1, <2>2, <2>5
  <2>7. Len(stored) < PerPage
    BY <2>1, <2>2, <2>6 DEF HistoryInv, RowOK
  <2> QED
    BY <2>6, <2>7, RecordTyped, LaterPagesEmpty
<1>8. CASE ImportRow
  BY <1>8 DEF ImportRow, HistoryInv, RowOK, There
<1> QED
  BY <1>1, <1>2, <1>3, <1>4, <1>5, <1>6, <1>7, <1>8 DEF JobStep, JobFails

-----------------------------------------------------------------------------
(***************************************************************************)
(* The requests together: a behaviour runs one part and leaves the others  *)
(* as they are.                                                            *)
(***************************************************************************)
LEMMA RequestsKeep ==
    ASSUME HistoryInv, PausedOK, BatchInv, [RequestsNext]_requestVars
    PROVE  HistoryInv' /\ PausedOK' /\ BatchInv'
<1>1. HistoryNext \/ UNCHANGED historyVars
  BY DEF RequestsNext, requestVars, GroupedPart, HistoryPart, BatchPart
<1>2. BatchNext \/ UNCHANGED batchVars
  BY DEF RequestsNext, requestVars, GroupedPart, HistoryPart, BatchPart
<1> QED
  BY <1>1, <1>2, HistoryNextKeeps, PausedStays, BatchNextKeeps

LEMMA RequestsAlways == RequestsSpec => [](HistoryInv /\ PausedOK /\ BatchInv)
<1>1. RequestsSpec => RequestsInit /\ [][RequestsNext]_requestVars
  BY PTL DEF RequestsSpec
<1>2. RequestsInit => HistoryInv /\ PausedOK /\ BatchInv
  BY HistoryInit_Inv, BatchInit_Inv DEF RequestsInit, HistoryInit, PausedOK
<1>3. HistoryInv /\ PausedOK /\ BatchInv /\ [RequestsNext]_requestVars
          => (HistoryInv /\ PausedOK /\ BatchInv)'
  BY RequestsKeep
<1> QED
  BY <1>1, <1>2, <1>3, PTL

(***************************************************************************)
(* Whatever fails and whoever comes between, the row of a search never     *)
(* promises what is not stored, a deleted search stays empty, and a        *)
(* browser is told of its pages in order; the lines of a batch are true    *)
(* counts, and what it leaves at leads was asked to stop                   *)
(* (_run_search_job, _run_batch).                                          *)
(***************************************************************************)
THEOREM RequestsAreTrue == RequestsSpec => []RequestsTellTheTruth
<1>1. HistoryInv /\ PausedOK /\ BatchInv => RequestsTellTheTruth
  BY HistoryFollows, CountsFollow, NothingRunsFollows DEF RequestsTellTheTruth, BatchIsTrue
<1> QED
  BY <1>1, RequestsAlways, PTL

(***************************************************************************)
(* The job never takes a user off a page that has results                  *)
(* (_search_ndjson_events).                                                *)
(***************************************************************************)
THEOREM PageKept == RequestsSpec => JobKeepsThePage
<1> DEFINE Keeps == search' # search /\ history'.page # history.page => PageOf(history.page) = << >>
<1>1. RequestsSpec => RequestsInit /\ [][RequestsNext]_requestVars
  BY PTL DEF RequestsSpec
<1>2. HistoryInv /\ [RequestsNext]_requestVars => [Keeps]_historyVars
  <2> SUFFICES ASSUME HistoryInv, [RequestsNext]_requestVars PROVE [Keeps]_historyVars
    OBVIOUS
  <2>1. HistoryNext \/ UNCHANGED historyVars
    BY DEF RequestsNext, requestVars, GroupedPart, HistoryPart, BatchPart
  <2> QED
    BY <2>1, PageIsKept
<1> QED
  BY <1>1, <1>2, RequestsAlways, PTL DEF JobKeepsThePage

-----------------------------------------------------------------------------
(***************************************************************************)
(* The waiters that are kept.  The recursion has a value: were there a     *)
(* length for which it has none, take the least.                           *)
(***************************************************************************)
IsKept(f, ws, S, n) ==
    f = [i \in 0..n |-> IF i = 0 THEN << >>
                        ELSE IF ws[i] \in S THEN Append(f[i - 1], ws[i])
                        ELSE f[i - 1]]

LEMMA KeptExists ==
    ASSUME NEW ws, NEW S
    PROVE  \A n \in Nat : \E f : IsKept(f, ws, S, n)
<1> DEFINE bad == {n \in Nat : ~ \E f : IsKept(f, ws, S, n)}
<1> SUFFICES ASSUME bad # {} PROVE FALSE
  OBVIOUS
<1>1. PICK n \in bad : \A m \in bad : n <= m
  <2> HIDE DEF bad
  <2>1. bad \in SUBSET Nat
    BY DEF bad
  <2> QED
    BY <2>1, LeastElement
<1>2. CASE n = 0
  <2>1. IsKept([i \in 0..0 |-> << >>], ws, S, 0)
    BY DEF IsKept
  <2> QED
    BY <1>2, <2>1
<1>3. CASE n # 0
  <2>1. n - 1 \in Nat /\ n - 1 \notin bad
    BY <1>1, <1>3
  <2>2. PICK h : IsKept(h, ws, S, n - 1)
    BY <2>1
  <2> DEFINE f == [i \in 0..n |-> IF i < n THEN h[i]
                                  ELSE IF ws[n] \in S THEN Append(h[n - 1], ws[n]) ELSE h[n - 1]]
  <2>3. \A i \in 0..n : f[i] = IF i = 0 THEN << >>
                               ELSE IF ws[i] \in S THEN Append(f[i - 1], ws[i])
                               ELSE f[i - 1]
    <3> TAKE i \in 0..n
    <3>1. CASE i < n
      <4>1. i \in 0..(n - 1) /\ (i # 0 => i - 1 \in 0..(n - 1))
        BY <3>1
      <4>2. h[i] = IF i = 0 THEN << >>
                   ELSE IF ws[i] \in S THEN Append(h[i - 1], ws[i])
                   ELSE h[i - 1]
        BY <2>2, <4>1 DEF IsKept
      <4> QED
        BY <3>1, <4>1, <4>2
    <3>2. CASE i = n
      BY <1>3, <3>2
    <3> QED
      BY <3>1, <3>2
  <2>4. IsKept(f, ws, S, n)
    BY <2>3 DEF IsKept
  <2> QED
    BY <2>4
<1> QED
  BY <1>1, <1>2, <1>3

\* A sequence is the elements of S among the first n, each from where f says.
IsPicked(q, f, ws, S, n) ==
    /\ f \in [1..Len(q) -> 1..n]
    /\ \A k \in 1..Len(q) : q[k] = ws[f[k]] /\ q[k] \in S
    /\ \A k, l \in 1..Len(q) : k < l => f[k] < f[l]
    /\ \A i \in 1..n : ws[i] \in S => \E k \in 1..Len(q) : f[k] = i

LEMMA OneMorePicked ==
    ASSUME NEW T, NEW ws \in Seq(T), NEW S, NEW n \in 1..Len(ws),
           NEW q \in Seq(T), NEW f, IsPicked(q, f, ws, S, n - 1)
    PROVE  /\ ws[n] \notin S => IsPicked(q, f, ws, S, n)
           /\ ws[n] \in S => \E g : IsPicked(Append(q, ws[n]), g, ws, S, n)
<1> DEFINE m == Len(q)
           p == Append(q, ws[n])
           g == [k \in 1..(m + 1) |-> IF k = m + 1 THEN n ELSE f[k]]
<1>1. m \in Nat /\ n \in Nat /\ ws[n] \in T
  OBVIOUS
<1>2. /\ p \in Seq(T) /\ Len(p) = m + 1 /\ p[m + 1] = ws[n]
      /\ \A k \in 1..m : p[k] = q[k]
  BY <1>1
<1>3. /\ f \in [1..m -> 1..(n - 1)]
      /\ \A k \in 1..m : q[k] = ws[f[k]] /\ q[k] \in S
      /\ \A k, l \in 1..m : k < l => f[k] < f[l]
      /\ \A i \in 1..(n - 1) : ws[i] \in S => \E k \in 1..m : f[k] = i
  BY DEF IsPicked
<1>4. \A i \in 1..n : i = n \/ i \in 1..(n - 1)
  BY <1>1
<1>5. \A k \in 1..m : f[k] \in 1..n /\ f[k] < n
  BY <1>1, <1>3
<1> HIDE DEF p, m
<1>6. ASSUME ws[n] \notin S PROVE IsPicked(q, f, ws, S, n)
  <2>1. f \in [1..m -> 1..n]
    BY <1>3, <1>5
  <2>2. \A i \in 1..n : ws[i] \in S => \E k \in 1..m : f[k] = i
    BY <1>3, <1>4, <1>6
  <2> QED
    BY <1>3, <2>1, <2>2 DEF IsPicked, m
<1>7. ASSUME ws[n] \in S PROVE IsPicked(p, g, ws, S, n)
  <2>1. \A k \in 1..(m + 1) : k = m + 1 \/ k \in 1..m
    BY <1>1
  <2>2. g[m + 1] = n /\ \A k \in 1..m : g[k] = f[k]
    BY <1>1
  <2>3. g \in [1..(m + 1) -> 1..n]
    BY <1>1, <1>5, <2>1
  <2> HIDE DEF g
  <2>4. \A k \in 1..(m + 1) : p[k] = ws[g[k]] /\ p[k] \in S
    BY <1>2, <1>3, <1>7, <2>1, <2>2
  <2>5. \A k, l \in 1..(m + 1) : k < l => g[k] < g[l]
    <3> SUFFICES ASSUME NEW k \in 1..(m + 1), NEW l \in 1..(m + 1), k < l PROVE g[k] < g[l]
      OBVIOUS
    <3>1. k \in 1..m /\ g[k] = f[k]
      BY <1>1, <2>2
    <3>2. CASE l = m + 1
      BY <1>5, <2>2, <3>1, <3>2
    <3>3. CASE l \in 1..m
      BY <1>3, <2>2, <3>1, <3>3
    <3> QED
      BY <2>1, <3>2, <3>3
  <2>6. \A i \in 1..n : ws[i] \in S => \E k \in 1..(m + 1) : g[k] = i
    <3> SUFFICES ASSUME NEW i \in 1..n, ws[i] \in S PROVE \E k \in 1..(m + 1) : g[k] = i
      OBVIOUS
    <3>1. CASE i = n
      <4>1. m + 1 \in 1..(m + 1)
        BY <1>1
      <4> QED
        BY <2>2, <3>1, <4>1
    <3>2. CASE i \in 1..(n - 1)
      <4>1. PICK k \in 1..m : f[k] = i
        BY <1>3, <3>2
      <4>2. k \in 1..(m + 1)
        BY <1>1
      <4> QED
        BY <2>2, <4>1, <4>2
    <3> QED
      BY <1>4, <3>1, <3>2
  <2> QED
    BY <1>2, <2>3, <2>4, <2>5, <2>6 DEF IsPicked
<1> QED
  BY <1>6, <1>7 DEF p

LEMMA KeptIs ==
    ASSUME NEW T, NEW ws \in Seq(T), NEW S
    PROVE  Kept(ws, S) \in Seq(T) /\ \E f : IsPicked(Kept(ws, S), f, ws, S, Len(ws))
<1> DEFINE N == Len(ws)
           Def(h) == [i \in 0..N |-> IF i = 0 THEN << >>
                                     ELSE IF ws[i] \in S THEN Append(h[i - 1], ws[i])
                                     ELSE h[i - 1]]
           kept == CHOOSE h : h = Def(h)
<1>1. N \in Nat
  OBVIOUS
<1>2. kept = Def(kept)
  <2>1. \E h : IsKept(h, ws, S, N)
    BY <1>1, KeptExists
  <2> QED
    BY <2>1 DEF IsKept
<1>3. Kept(ws, S) = kept[N]
  BY DEF Kept
<1> HIDE DEF kept
<1>4. kept[0] = << >> /\ \A n \in 1..N : kept[n] = IF ws[n] \in S THEN Append(kept[n - 1], ws[n])
                                                   ELSE kept[n - 1]
  <2> HIDE DEF N
  <2>1. \A n \in 0..N : kept[n] = IF n = 0 THEN << >>
                                  ELSE IF ws[n] \in S THEN Append(kept[n - 1], ws[n])
                                  ELSE kept[n - 1]
    BY <1>2, Zenon
  <2>2. \A n \in 1..N : n \in 0..N /\ n # 0
    BY <1>1
  <2>3. 0 \in 0..N
    BY <1>1
  <2> QED
    BY <2>1, <2>2, <2>3, Zenon
<1> HIDE DEF Def
<1> DEFINE Good(n) == kept[n] \in Seq(T) /\ \E f : IsPicked(kept[n], f, ws, S, n)
           bad == {n \in 0..N : ~Good(n)}
<1>5. ASSUME bad # {} PROVE FALSE
  <2>1. PICK n \in bad : \A m \in bad : n <= m
    <3>1. bad \in SUBSET Nat
      BY <1>1
    <3> HIDE DEF bad
    <3> QED
      BY <1>5, <3>1, LeastElement
  <2>2. n \in 0..N /\ ~Good(n)
    BY <2>1
  <2>3. CASE n = 0
    <3>1. << >> \in Seq(T) /\ Len(<< >>) = 0
      OBVIOUS
    <3>2. IsPicked(<< >>, [k \in 1..0 |-> k], ws, S, 0)
      BY <3>1 DEF IsPicked
    <3> QED
      BY <1>4, <2>2, <2>3, <3>1, <3>2
  <2>4. CASE n # 0
    <3>1. n \in 1..N /\ n - 1 \in 0..N /\ n - 1 \notin bad
      BY <1>1, <2>1, <2>2, <2>4
    <3>2. Good(n - 1)
      BY <3>1
    <3>3. PICK q : q = kept[n - 1]
      OBVIOUS
    <3>4. PICK f : IsPicked(q, f, ws, S, n - 1)
      BY <3>2, <3>3
    <3>5. kept[n] = IF ws[n] \in S THEN Append(q, ws[n]) ELSE q
      BY <1>4, <3>1, <3>3
    <3>6. q \in Seq(T) /\ ws[n] \in T
      BY <3>1, <3>2, <3>3
    <3>7. Append(q, ws[n]) \in Seq(T)
      BY <3>6
    <3>8. /\ ws[n] \notin S => IsPicked(q, f, ws, S, n)
          /\ ws[n] \in S => \E g : IsPicked(Append(q, ws[n]), g, ws, S, n)
      BY <3>1, <3>4, <3>6, OneMorePicked
    <3> QED
      BY <2>2, <3>5, <3>6, <3>7, <3>8
  <2> QED
    BY <2>3, <2>4
<1>6. Good(N)
  BY <1>1, <1>5
<1> QED
  BY <1>3, <1>6

\* What is kept of waiters that are all different.
LEMMA KeptWaiters ==
    ASSUME NEW T, NEW ws \in Seq(T), IsInjective(ws), NEW S
    PROVE  /\ Kept(ws, S) \in Seq(T) /\ IsInjective(Kept(ws, S))
           /\ ToSet(Kept(ws, S)) = ToSet(ws) \cap S
<1>1. PICK q : q = Kept(ws, S)
  OBVIOUS
<1>2. PICK f : IsPicked(q, f, ws, S, Len(ws))
  BY <1>1, KeptIs
<1>3. q \in Seq(T)
  BY <1>1, KeptIs
<1> DEFINE m == Len(q)  n == Len(ws)
<1>4. m \in Nat /\ n \in Nat /\ DOMAIN q = 1..m /\ DOMAIN ws = 1..n
  BY <1>3
<1>5. /\ f \in [1..m -> 1..n]
      /\ \A k \in 1..m : q[k] = ws[f[k]] /\ q[k] \in S
      /\ \A k, l \in 1..m : k < l => f[k] < f[l]
      /\ \A i \in 1..n : ws[i] \in S => \E k \in 1..m : f[k] = i
  BY <1>2 DEF IsPicked
<1> HIDE DEF m, n
<1>6. IsInjective(q)
  <2> SUFFICES ASSUME NEW k \in 1..m, NEW l \in 1..m, q[k] = q[l] PROVE k = l
    BY <1>4 DEF IsInjective
  <2>1. f[k] \in 1..n /\ f[l] \in 1..n /\ ws[f[k]] = ws[f[l]]
    BY <1>5
  <2>2. f[k] = f[l]
    BY <1>4, <2>1 DEF IsInjective
  <2>3. ~(k < l) /\ ~(l < k)
    BY <1>4, <1>5, <2>1, <2>2
  <2> QED
    BY <1>4, <2>3
<1>7. ToSet(q) \subseteq ToSet(ws) \cap S
  BY <1>4, <1>5 DEF ToSet
<1>8. ASSUME NEW t \in ToSet(ws) \cap S PROVE t \in ToSet(q)
  <2>1. PICK i \in 1..n : ws[i] = t
    BY <1>4 DEF ToSet
  <2>2. PICK k \in 1..m : f[k] = i
    BY <1>5, <2>1
  <2> QED
    BY <1>4, <1>5, <2>1, <2>2 DEF ToSet
<1> QED
  BY <1>1, <1>3, <1>6, <1>7, <1>8

-----------------------------------------------------------------------------
(***************************************************************************)
(* The gate.  Who is pending is in the queue, who is in the queue is       *)
(* pending or was cancelled there, nobody queues at a gate that is free    *)
(* (QueueInStep), one task at most has the slot (OneHolder), and only who  *)
(* is in the queue was passed over (SkipsInQueue).                         *)
(***************************************************************************)
QueueInStep ==
    /\ \A t \in ToSet(waiters) : phase[t] \in {"queued", "revoked"}
    /\ \A t \in Tasks : phase[t] = "queued" => t \in ToSet(waiters)
    /\ ~held => waiters = << >>

OneHolder ==
    /\ ~held => Holders = {}
    /\ held => \E h \in Tasks : Holders = {h}

SkipsInQueue == \A t \in Tasks : t \notin ToSet(waiters) => skips[t] = 0

WaitersInv == GateOK /\ QueueInStep /\ OneHolder /\ SkipsInQueue /\ OvertakingIsBounded

\* Who is ahead of a place in the queue.
Pending(ws, ph, i) == {j \in 1..(i - 1) : ph[ws[j]] = "queued"}

LEMMA WaiterSizes ==
    /\ Nice \in [Tasks -> Nat] /\ MaxSkips \in Nat /\ MaxSkips >= 1
    /\ IsFiniteSet(Tasks) /\ Cardinality(Tasks) \in Nat
BY GateAssumption, FS_CardinalityType

LEMMA PendingFinite ==
    ASSUME NEW ws, NEW ph, NEW i \in Nat
    PROVE  IsFiniteSet(Pending(ws, ph, i)) /\ Cardinality(Pending(ws, ph, i)) \in Nat
<1>1. IsFiniteSet(1..(i - 1))
  BY FS_Interval
<1>2. Pending(ws, ph, i) \subseteq 1..(i - 1)
  BY DEF Pending
<1> QED
  BY <1>1, <1>2, FS_Subset, FS_CardinalityType

\* Who is ahead of a kept waiter was ahead of it before, and if one that was is
\* not kept, they are fewer.
LEMMA FewerAhead ==
    ASSUME NEW T, NEW ws \in Seq(T), NEW S, NEW q \in Seq(T), NEW f, IsPicked(q, f, ws, S, Len(ws)),
           NEW ph, NEW pg, \A t \in S : pg[t] = "queued" => ph[t] = "queued",
           NEW k \in 1..Len(q)
    PROVE  /\ Cardinality(Pending(q, pg, k)) <= Cardinality(Pending(ws, ph, f[k]))
           /\ \A n \in Pending(ws, ph, f[k]) : ws[n] \notin S =>
                 Cardinality(Pending(q, pg, k)) <= Cardinality(Pending(ws, ph, f[k])) - 1
<1> DEFINE A == Pending(q, pg, k)
           B == Pending(ws, ph, f[k])
           g == [j \in A |-> f[j]]
<1>1. Len(q) \in Nat /\ Len(ws) \in Nat
  OBVIOUS
<1>2. /\ f \in [1..Len(q) -> 1..Len(ws)]
      /\ \A a \in 1..Len(q) : q[a] = ws[f[a]] /\ q[a] \in S
      /\ \A a, b \in 1..Len(q) : a < b => f[a] < f[b]
  BY DEF IsPicked
<1>3. k \in Nat /\ f[k] \in Nat
  BY <1>1, <1>2
<1>4. \A j \in A : /\ j \in 1..Len(q) /\ f[j] \in B
                   /\ ws[f[j]] \in S
  <2> SUFFICES ASSUME NEW j \in A PROVE j \in 1..Len(q) /\ f[j] \in B /\ ws[f[j]] \in S
    OBVIOUS
  <2>1. j \in 1..(k - 1) /\ pg[q[j]] = "queued"
    BY DEF Pending
  <2>2. j \in 1..Len(q) /\ j < k
    BY <1>1, <2>1
  <2>3. f[j] \in 1..Len(ws) /\ f[j] < f[k] /\ q[j] = ws[f[j]] /\ q[j] \in S
    BY <1>2, <2>2
  <2>4. f[j] \in 1..(f[k] - 1)
    BY <1>1, <1>3, <2>3
  <2>5. ph[ws[f[j]]] = "queued"
    BY <2>1, <2>3
  <2> QED
    BY <2>2, <2>3, <2>4, <2>5 DEF Pending
<1>5. IsFiniteSet(A) /\ IsFiniteSet(B) /\ Cardinality(A) \in Nat /\ Cardinality(B) \in Nat
  BY <1>3, PendingFinite
<1>6. \A i, j \in A : f[i] = f[j] => i = j
  <2> SUFFICES ASSUME NEW i \in A, NEW j \in A, f[i] = f[j] PROVE i = j
    OBVIOUS
  <2>1. i \in 1..Len(q) /\ j \in 1..Len(q) /\ f[i] \in 1..Len(ws)
    BY <1>2, <1>4
  <2>2. ~(i < j) /\ ~(j < i)
    BY <1>1, <1>2, <2>1
  <2> QED
    BY <1>1, <2>1, <2>2
<1> HIDE DEF A, B
<1>7. ASSUME NEW C, C \subseteq B, \A j \in A : f[j] \in C
      PROVE  Cardinality(A) <= Cardinality(C)
  <2>0. g \in [A -> C] /\ DOMAIN g = A /\ \A i, j \in A : g[i] = g[j] => i = j
    BY <1>6, <1>7
  <2>1. g \in Injection(A, C)
    BY <2>0 DEF Injection, IsInjective
  <2>2. IsFiniteSet(C)
    BY <1>5, <1>7, FS_Subset
  <2> QED
    BY <2>1, <2>2, FS_Injection
<1>8. Cardinality(A) <= Cardinality(B)
  BY <1>4, <1>7
<1>9. ASSUME NEW n \in B, ws[n] \notin S PROVE Cardinality(A) <= Cardinality(B) - 1
  <2>1. \A j \in A : f[j] \in B \ {n}
    BY <1>4, <1>9
  <2>2. Cardinality(A) <= Cardinality(B \ {n})
    BY <1>7, <2>1
  <2>3. Cardinality(B \ {n}) = Cardinality(B) - 1
    BY <1>5, <1>9, FS_RemoveElement
  <2> QED
    BY <2>2, <2>3
<1> QED
  BY <1>8, <1>9 DEF A, B

LEMMA OldestIs ==
    ASSUME NEW T, NEW ws \in Seq(T), NEW S \in SUBSET ToSet(ws), S # {}
    PROVE  /\ Oldest(ws, S) \in S
           /\ \E i \in 1..Len(ws) : /\ ws[i] = Oldest(ws, S)
                                    /\ \A j \in 1..Len(ws) : ws[j] \in S => i <= j
<1> DEFINE places == {i \in DOMAIN ws : ws[i] \in S}
<1>1. places \in SUBSET Nat /\ places # {}
  BY DEF ToSet
<1>2. PICK i \in places : \A j \in places : i <= j
  <2> HIDE DEF places
  <2> QED
    BY <1>1, LeastElement
<1>3. Min(places) \in places /\ \A j \in places : Min(places) <= j
  <2> HIDE DEF places
  <2> QED
    BY <1>2 DEF Min
<1>4. Oldest(ws, S) = ws[Min(places)]
  BY DEF Oldest
<1> DEFINE m == Min(places)
<1>5. m \in 1..Len(ws) /\ ws[m] \in S /\ \A j \in 1..Len(ws) : ws[j] \in S => m <= j
  BY <1>3
<1> HIDE DEF m
<1> QED
  BY <1>4, <1>5 DEF m

\* Whoever is chosen waits, and who was passed over too often is behind it.
LEMMA ChosenIs ==
    ASSUME GateOK, NEW live \in SUBSET ToSet(waiters), live # {}
    PROVE  /\ Chosen(waiters, live) \in live
           /\ \A t \in live : skips[t] >= MaxSkips =>
                 \E i \in 1..Len(waiters) :
                    /\ waiters[i] = Chosen(waiters, live)
                    /\ \A j \in 1..Len(waiters) : waiters[j] = t => i <= j
<1> DEFINE starved == {t \in live : skips[t] >= MaxSkips}
           first == {t \in live : \A u \in live : Nice[t] <= Nice[u]}
<1>1. waiters \in Seq(Tasks) /\ live \subseteq Tasks
  BY DEF GateOK, ToSet
<1>2. CASE starved # {}
  <2>1. Chosen(waiters, live) = Oldest(waiters, starved)
    BY <1>2 DEF Chosen
  <2>2. starved \in SUBSET ToSet(waiters)
    OBVIOUS
  <2>3. /\ Oldest(waiters, starved) \in starved
        /\ \E i \in 1..Len(waiters) : /\ waiters[i] = Oldest(waiters, starved)
                                      /\ \A j \in 1..Len(waiters) : waiters[j] \in starved => i <= j
    <3> HIDE DEF starved
    <3> QED
      BY <1>1, <1>2, <2>2, OldestIs
  <2> QED
    BY <2>1, <2>3
<1>3. CASE starved = {}
  <2>1. Chosen(waiters, live) = Oldest(waiters, first)
    BY <1>3 DEF Chosen
  <2>2. first # {}
    <3> DEFINE nices == {Nice[t] : t \in live}
    <3>1. nices \in SUBSET Nat /\ nices # {}
      BY <1>1, WaiterSizes
    <3>2. PICK n \in nices : \A m \in nices : n <= m
      <4> HIDE DEF nices
      <4> QED
        BY <3>1, LeastElement
    <3>3. PICK t \in live : Nice[t] = n
      BY <3>2
    <3> QED
      BY <3>2, <3>3
  <2>3. first \in SUBSET ToSet(waiters)
    OBVIOUS
  <2>4. Oldest(waiters, first) \in first
    <3> HIDE DEF first
    <3> QED
      BY <1>1, <2>2, <2>3, OldestIs
  <2> QED
    BY <1>3, <2>1, <2>4
<1> QED
  BY <1>2, <1>3

LEMMA WaitersInit == GateInit => WaitersInv
<1> SUFFICES ASSUME GateInit PROVE WaitersInv
  OBVIOUS
<1>1. GateOK
  <2>1. IsInjective(<< >>) /\ << >> \in Seq(Tasks)
    BY DEF IsInjective
  <2>2. phase \in [Tasks -> Phases] /\ skips \in [Tasks -> Nat]
    BY DEF GateInit, NoSkips, Phases
  <2> QED
    BY <2>1, <2>2 DEF GateInit, GateOK
<1>2. ToSet(waiters) = {} /\ DOMAIN waiters = {} /\ Holders = {}
  BY DEF GateInit, ToSet, Holders
<1> QED
  BY <1>1, <1>2 DEF WaitersInv, QueueInStep, OneHolder, SkipsInQueue, OvertakingIsBounded, GateInit, NoSkips

\* The order among the waiters stays what it was, for cancels and for whoever
\* was not in the queue.
LEMMA BoundStays ==
    ASSUME GateOK, OvertakingIsBounded, UNCHANGED <<waiters, skips>>,
           \A t \in ToSet(waiters) : phase'[t] = "queued" => phase[t] = "queued"
    PROVE  OvertakingIsBounded'
<1> SUFFICES ASSUME NEW i \in 1..Len(waiters), skips[waiters[i]] > MaxSkips
             PROVE  skips[waiters[i]] + Ahead(i)' <= MaxSkips + Cardinality(Tasks) - 2
  BY DEF OvertakingIsBounded, GateOK
<1> DEFINE A == Pending(waiters, phase', i)
           B == Pending(waiters, phase, i)
<1>1. A \subseteq B
  BY DEF Pending, ToSet, GateOK
<1>2. IsFiniteSet(B) /\ Cardinality(B) \in Nat
  BY PendingFinite
<1>3. Cardinality(A) <= Cardinality(B) /\ Cardinality(A) \in Nat
  BY <1>1, <1>2, FS_Subset, FS_CardinalityType
<1>4. Ahead(i)' = Cardinality(A) /\ Ahead(i) = Cardinality(B)
  BY DEF Ahead, Pending
<1>5. skips[waiters[i]] + Ahead(i) <= MaxSkips + Cardinality(Tasks) - 2
  BY DEF OvertakingIsBounded, GateOK
<1>6. skips[waiters[i]] \in Nat
  BY DEF GateOK
<1> HIDE DEF A, B
<1> QED
  BY <1>2, <1>3, <1>4, <1>5, <1>6, WaiterSizes

\* A cancel only marks.
LEMMA CancelMarks ==
    ASSUME GateOK, NEW S, NEW t \in Tasks
    PROVE  /\ Cancelled(S)[t] \in Phases
           /\ Cancelled(S)[t] = "queued" => phase[t] = "queued"
           /\ phase[t] \in {"queued", "revoked"} => Cancelled(S)[t] \in {"queued", "revoked"}
           /\ Cancelled(S)[t] \in {"given", "forfeit", "inside", "leaving"}
                <=> phase[t] \in {"given", "forfeit", "inside", "leaving"}
BY DEF GateOK, Cancelled, Phases

LEMMA CancelKeeps ==
    ASSUME WaitersInv, NEW S, phase' = Cancelled(S), UNCHANGED <<held, waiters, skips, thread>>
    PROVE  WaitersInv'
<1>1. GateOK
  BY DEF WaitersInv
<1>2. \A t \in Tasks : /\ phase'[t] \in Phases
                       /\ phase'[t] = "queued" => phase[t] = "queued"
                       /\ phase[t] \in {"queued", "revoked"} => phase'[t] \in {"queued", "revoked"}
                       /\ phase'[t] \in {"given", "forfeit", "inside", "leaving"}
                            <=> phase[t] \in {"given", "forfeit", "inside", "leaving"}
  BY <1>1, CancelMarks
<1>3. GateOK'
  BY <1>1, <1>2 DEF GateOK, Cancelled
<1>4. ToSet(waiters) \subseteq Tasks
  BY <1>1 DEF GateOK, ToSet
<1>5. QueueInStep'
  BY <1>2, <1>4 DEF WaitersInv, QueueInStep
<1>6. Holders' = Holders
  BY <1>2 DEF Holders
<1>7. OneHolder' /\ SkipsInQueue'
  BY <1>6 DEF WaitersInv, OneHolder, SkipsInQueue
<1>8. OvertakingIsBounded'
  BY <1>1, <1>2, <1>4, BoundStays DEF WaitersInv
<1> QED
  BY <1>3, <1>5, <1>7, <1>8 DEF WaitersInv

LEMMA AcquireKeeps ==
    ASSUME WaitersInv, NEW t \in Tasks, Acquire(t)
    PROVE  WaitersInv'
<1>1. /\ GateOK /\ phase[t] = "away" /\ waiters \in Seq(Tasks) /\ thread \subseteq Tasks
      /\ phase \in [Tasks -> Phases] /\ skips \in [Tasks -> Nat] /\ IsInjective(waiters)
  BY DEF WaitersInv, GateOK, Acquire
<1>2. t \notin ToSet(waiters) /\ t \notin Holders
  BY <1>1 DEF WaitersInv, QueueInStep, Holders
<1>3. CASE ~held /\ waiters = << >>
  <2>1. /\ held' = TRUE /\ thread' = thread \cup {t} /\ UNCHANGED <<waiters, skips>>
        /\ phase' = [phase EXCEPT ![t] = "inside"]
    BY <1>3 DEF Acquire
  <2>2. phase' \in [Tasks -> Phases] /\ phase'[t] = "inside" /\ \A u \in Tasks : u # t => phase'[u] = phase[u]
    BY <1>1, <2>1 DEF Phases
  <2>3. GateOK'
    BY <1>1, <2>1, <2>2 DEF GateOK
  <2>4. ToSet(waiters) = {} /\ DOMAIN waiters = {}
    BY <1>3 DEF ToSet
  <2>5. QueueInStep' /\ SkipsInQueue' /\ OvertakingIsBounded'
    BY <2>1, <2>2, <2>4 DEF WaitersInv, QueueInStep, SkipsInQueue, OvertakingIsBounded
  <2>6. Holders' = {t}
    BY <1>3, <2>2 DEF WaitersInv, OneHolder, Holders
  <2> QED
    BY <2>1, <2>3, <2>5, <2>6 DEF WaitersInv, OneHolder
<1>4. CASE held \/ waiters # << >>
  <2>1. /\ waiters' = Append(waiters, t) /\ UNCHANGED <<held, skips, thread>>
        /\ phase' = [phase EXCEPT ![t] = "queued"]
    BY <1>4 DEF Acquire
  <2>2. phase' \in [Tasks -> Phases] /\ phase'[t] = "queued" /\ \A u \in Tasks : u # t => phase'[u] = phase[u]
    BY <1>1, <2>1 DEF Phases
  <2> DEFINE n == Len(waiters)
  <2>3. /\ waiters' \in Seq(Tasks) /\ n \in Nat /\ DOMAIN waiters = 1..n /\ DOMAIN waiters' = 1..(n + 1)
        /\ waiters'[n + 1] = t /\ \A i \in 1..n : waiters'[i] = waiters[i] /\ waiters[i] \in Tasks
    BY <1>1, <2>1
  <2> HIDE DEF n
  <2>4. \A i \in 1..(n + 1) : i = n + 1 \/ i \in 1..n
    BY <2>3
  <2>5. \A i \in 1..n : waiters[i] # t
    BY <1>2, <2>3 DEF ToSet
  <2>6. IsInjective(waiters')
    <3>1. \A i, j \in 1..n : waiters[i] = waiters[j] => i = j
      BY <1>1, <2>3 DEF IsInjective
    <3>2. \A i, j \in 1..(n + 1) : waiters'[i] = waiters'[j] => i = j
      BY <2>3, <2>4, <2>5, <3>1
    <3> QED
      BY <2>3, <3>2 DEF IsInjective
  <2>7. ToSet(waiters') = ToSet(waiters) \cup {t}
    BY <2>3, <2>4 DEF ToSet
  <2>8. held
    BY <1>4 DEF WaitersInv, QueueInStep
  <2>9. GateOK'
    BY <1>1, <2>1, <2>2, <2>3, <2>6 DEF GateOK
  <2>10. QueueInStep'
    <3>1. /\ \A u \in ToSet(waiters) : u \in Tasks /\ phase[u] \in {"queued", "revoked"}
          /\ \A u \in Tasks : phase[u] = "queued" => u \in ToSet(waiters)
      BY <2>3 DEF WaitersInv, QueueInStep, ToSet
    <3>2. held'
      BY <2>1, <2>8
    <3> QED
      BY <2>2, <2>7, <3>1, <3>2 DEF QueueInStep
  <2>11. Holders' = Holders
    BY <1>1, <2>2 DEF Holders
  <2>12. OneHolder' /\ SkipsInQueue'
    BY <2>1, <2>7, <2>11 DEF WaitersInv, OneHolder, SkipsInQueue
  <2>13. OvertakingIsBounded'
    <3> SUFFICES ASSUME NEW i \in 1..(n + 1), skips[waiters'[i]] > MaxSkips
                 PROVE  skips[waiters'[i]] + Ahead(i)' <= MaxSkips + Cardinality(Tasks) - 2
      BY <2>1, <2>3 DEF OvertakingIsBounded
    <3>1. skips[t] = 0
      BY <1>2 DEF WaitersInv, SkipsInQueue
    <3>2. i \in 1..n
      BY <2>3, <2>4, <3>1, WaiterSizes
    <3>3. \A j \in 1..(i - 1) : j \in 1..n
      BY <2>3, <3>2
    <3>4. \A j \in 1..(i - 1) : waiters'[j] = waiters[j] /\ phase'[waiters[j]] = phase[waiters[j]]
      BY <2>2, <2>3, <2>5, <3>3
    <3>5. Ahead(i)' = Ahead(i)
      BY <3>4 DEF Ahead
    <3> QED
      BY <2>3, <3>2, <3>5 DEF WaitersInv, OvertakingIsBounded
  <2> QED
    BY <2>9, <2>10, <2>12, <2>13 DEF WaitersInv
<1> QED
  BY <1>3, <1>4

LEMMA EnterKeeps ==
    ASSUME WaitersInv, NEW t \in Tasks, Enter(t)
    PROVE  WaitersInv'
<1>1. /\ GateOK /\ phase[t] = "given" /\ phase \in [Tasks -> Phases] /\ thread \subseteq Tasks
      /\ held' = TRUE /\ thread' = thread \cup {t} /\ UNCHANGED <<waiters, skips>>
      /\ phase' = [phase EXCEPT ![t] = "inside"]
  BY DEF WaitersInv, GateOK, Enter
<1>2. phase' \in [Tasks -> Phases] /\ phase'[t] = "inside" /\ \A u \in Tasks : u # t => phase'[u] = phase[u]
  BY <1>1 DEF Phases
<1>3. ToSet(waiters) \subseteq Tasks /\ t \notin ToSet(waiters)
  BY <1>1 DEF WaitersInv, GateOK, QueueInStep, ToSet
<1>4. t \in Holders /\ Holders' = Holders
  BY <1>1, <1>2 DEF Holders
<1>5. GateOK'
  BY <1>1, <1>2 DEF GateOK
<1>6. QueueInStep' /\ SkipsInQueue'
  BY <1>1, <1>2, <1>3 DEF WaitersInv, QueueInStep, SkipsInQueue
<1>7. OneHolder'
  BY <1>1, <1>4 DEF WaitersInv, OneHolder
<1>8. OvertakingIsBounded'
  BY <1>1, <1>2, <1>3, BoundStays DEF WaitersInv
<1> QED
  BY <1>5, <1>6, <1>7, <1>8 DEF WaitersInv

LEMMA ThreadEndsKeeps ==
    ASSUME WaitersInv, UNCHANGED <<held, waiters, skips, phase>>, thread' \subseteq thread
    PROVE  WaitersInv'
BY DEF WaitersInv, GateOK, QueueInStep, OneHolder, Holders, SkipsInQueue, OvertakingIsBounded, Ahead

\* One that was cancelled in the queue takes itself out.
LEMMA RevokedKeeps ==
    ASSUME WaitersInv, NEW t \in Tasks, phase[t] = "revoked",
           waiters' = Kept(waiters, Tasks \ {t}), skips' = [skips EXCEPT ![t] = 0],
           phase' = [phase EXCEPT ![t] = "away"], UNCHANGED <<held, thread>>
    PROVE  WaitersInv'
<1> DEFINE S == Tasks \ {t}
<1>1. /\ GateOK /\ waiters \in Seq(Tasks) /\ IsInjective(waiters) /\ skips \in [Tasks -> Nat]
      /\ phase \in [Tasks -> Phases]
  BY DEF WaitersInv, GateOK
<1>2. phase' \in [Tasks -> Phases] /\ phase'[t] = "away" /\ \A u \in S : phase'[u] = phase[u]
  BY <1>1 DEF Phases
<1>3. skips' \in [Tasks -> Nat] /\ skips'[t] = 0 /\ \A u \in S : skips'[u] = skips[u]
  BY <1>1
<1>4. waiters' \in Seq(Tasks) /\ IsInjective(waiters') /\ ToSet(waiters') = ToSet(waiters) \cap S
  BY <1>1, KeptWaiters
<1>5. GateOK'
  BY <1>1, <1>2, <1>3, <1>4 DEF GateOK
<1>6. ~held => waiters' = << >>
  <2> SUFFICES ASSUME ~held PROVE waiters' = << >>
    OBVIOUS
  <2>1. waiters = << >>
    BY DEF WaitersInv, QueueInStep
  <2>2. ToSet(waiters) = {}
    BY <2>1 DEF ToSet
  <2>3. ToSet(waiters') = {}
    BY <1>4, <2>2
  <2>4. DOMAIN waiters' = {}
    BY <2>3 DEF ToSet
  <2> QED
    BY <1>4, <2>4
<1>7. QueueInStep'
  <2>1. \A u \in ToSet(waiters') : phase'[u] \in {"queued", "revoked"}
    BY <1>2, <1>4 DEF WaitersInv, QueueInStep
  <2>2. \A u \in Tasks : phase'[u] = "queued" => u \in ToSet(waiters')
    BY <1>2, <1>4 DEF WaitersInv, QueueInStep
  <2> QED
    BY <1>6, <2>1, <2>2 DEF QueueInStep
<1>8. Holders' = Holders
  BY <1>2 DEF Holders
<1>9. OneHolder'
  BY <1>8 DEF WaitersInv, OneHolder
<1>10. SkipsInQueue'
  BY <1>3, <1>4 DEF WaitersInv, SkipsInQueue
<1>11. OvertakingIsBounded'
  <2>1. PICK q : q = waiters'
    OBVIOUS
  <2>2. PICK f : IsPicked(q, f, waiters, S, Len(waiters))
    BY <1>1, <2>1, KeptIs
  <2>3. q \in Seq(Tasks) /\ DOMAIN q = 1..Len(q)
    BY <1>4, <2>1
  <2> SUFFICES ASSUME NEW k \in 1..Len(q), skips'[q[k]] > MaxSkips
               PROVE  skips'[q[k]] + Cardinality(Pending(q, phase', k)) <= MaxSkips + Cardinality(Tasks) - 2
    BY <2>1, <2>3 DEF OvertakingIsBounded, Ahead, Pending
  <2>4. f[k] \in 1..Len(waiters) /\ q[k] = waiters[f[k]] /\ q[k] \in S
    BY <2>2 DEF IsPicked
  <2>5. skips'[q[k]] = skips[q[k]] /\ skips[q[k]] \in Nat
    BY <1>1, <1>3, <2>4
  <2>6. Cardinality(Pending(q, phase', k)) <= Cardinality(Pending(waiters, phase, f[k]))
    BY <1>1, <1>2, <2>2, <2>3, FewerAhead
  <2>7. f[k] \in DOMAIN waiters
    BY <1>1, <2>4
  <2>8. skips[q[k]] + Cardinality(Pending(waiters, phase, f[k])) <= MaxSkips + Cardinality(Tasks) - 2
    BY <2>4, <2>5, <2>7 DEF WaitersInv, OvertakingIsBounded, Ahead, Pending
  <2>9. Cardinality(Pending(q, phase', k)) \in Nat /\ Cardinality(Pending(waiters, phase, f[k])) \in Nat
    <3>1. k \in Nat /\ f[k] \in Nat
      BY <1>1, <2>3, <2>4
    <3> QED
      BY <3>1, PendingFinite
  <2> QED
    BY <2>5, <2>6, <2>8, <2>9, WaiterSizes
<1> QED
  BY <1>5, <1>7, <1>9, <1>10, <1>11 DEF WaitersInv

\* Of three tasks one leaves, one is woken and one waits on: who is ahead of it
\* is none of them.
LEMMA ThreeApart ==
    ASSUME NEW q \in Seq(Tasks), IsInjective(q), NEW ph, NEW k \in 1..Len(q),
           NEW t \in Tasks \ ToSet(q), NEW u \in Tasks \ ToSet(q), t # u
    PROVE  Cardinality(Pending(q, ph, k)) <= Cardinality(Tasks) - 3
<1> DEFINE A == Pending(q, ph, k)
           R == Tasks \ {t}
           S == R \ {u}
           U == S \ {q[k]}
           g == [j \in A |-> q[j]]
<1>1. Len(q) \in Nat /\ DOMAIN q = 1..Len(q) /\ k \in Nat
  OBVIOUS
<1>2. q[k] \in ToSet(q) /\ q[k] \in Tasks
  BY <1>1 DEF ToSet
<1>3. \A j \in A : j \in 1..Len(q) /\ j # k
  BY <1>1 DEF Pending
<1>4. \A j \in A : q[j] \in U
  <2> SUFFICES ASSUME NEW j \in A PROVE q[j] \in U
    OBVIOUS
  <2>1. j \in 1..Len(q) /\ j # k
    BY <1>3
  <2>2. q[j] \in ToSet(q) /\ q[j] \in Tasks
    BY <1>1, <2>1 DEF ToSet
  <2>3. q[j] # q[k]
    BY <1>1, <2>1 DEF IsInjective
  <2> QED
    BY <2>2, <2>3
<1>5. \A i, j \in A : q[i] = q[j] => i = j
  BY <1>1, <1>3 DEF IsInjective
<1>6. IsFiniteSet(A) /\ Cardinality(A) \in Nat
  BY <1>1, PendingFinite
<1>7. IsFiniteSet(R) /\ Cardinality(R) = Cardinality(Tasks) - 1
  BY WaiterSizes, FS_RemoveElement
<1>8. IsFiniteSet(S) /\ Cardinality(S) = Cardinality(R) - 1
  <2>1. u \in R
    OBVIOUS
  <2> QED
    BY <1>7, <2>1, FS_RemoveElement
<1>9. IsFiniteSet(U) /\ Cardinality(U) = Cardinality(S) - 1
  <2>1. q[k] \in S
    BY <1>2
  <2> QED
    BY <1>8, <2>1, FS_RemoveElement
<1>10. Cardinality(A) <= Cardinality(U)
  <2> HIDE DEF A, U
  <2>1. g \in [A -> U] /\ DOMAIN g = A /\ \A i, j \in A : g[i] = g[j] => i = j
    BY <1>4, <1>5
  <2>2. g \in Injection(A, U)
    BY <2>1 DEF Injection, IsInjective
  <2> QED
    BY <1>9, <2>2, FS_Injection
<1> QED
  BY <1>6, <1>7, <1>8, <1>9, <1>10, WaiterSizes

(***************************************************************************)
(* One that has the slot hands it on, while others may be cancelled.       *)
(***************************************************************************)
LEMMA HandOnKeeps ==
    ASSUME WaitersInv, NEW t \in Tasks, phase[t] \in {"inside", "forfeit", "leaving"}, NEW C,
           WakeNext(waiters, [Cancelled(C) EXCEPT ![t] = "away"]), thread' \subseteq thread
    PROVE  WaitersInv'
<1>1. /\ GateOK /\ waiters \in Seq(Tasks) /\ IsInjective(waiters) /\ skips \in [Tasks -> Nat]
      /\ phase \in [Tasks -> Phases] /\ thread \subseteq Tasks /\ held \in BOOLEAN
  BY DEF WaitersInv, GateOK
<1>2. PICK ph : ph = [Cancelled(C) EXCEPT ![t] = "away"]
  OBVIOUS
<1>3. \A u \in Tasks \ {t} : ph[u] = Cancelled(C)[u]
  BY <1>2 DEF Cancelled
<1>4. ph[t] = "away" /\ ph \in [Tasks -> Phases]
  <2>1. \A u \in Tasks : Cancelled(C)[u] \in Phases
    BY <1>1, CancelMarks
  <2>2. Cancelled(C) \in [Tasks -> Phases]
    BY <2>1 DEF Cancelled
  <2>3. "away" \in Phases
    BY DEF Phases
  <2> QED
    BY <1>2, <2>2, <2>3
<1>5. /\ \A u \in Tasks : ph[u] = "queued" => phase[u] = "queued"
      /\ \A u \in Tasks : phase[u] \in {"queued", "revoked"} => ph[u] \in {"queued", "revoked"}
  BY <1>1, <1>3, <1>4, CancelMarks
<1>6. held /\ Holders = {t}
  BY DEF WaitersInv, OneHolder, Holders
<1>7. \A u \in Tasks : ph[u] \notin {"given", "forfeit", "inside", "leaving"}
  <2> SUFFICES ASSUME NEW u \in Tasks \ {t} PROVE ph[u] \notin {"given", "forfeit", "inside", "leaving"}
    BY <1>4
  <2>1. phase[u] \notin {"given", "forfeit", "inside", "leaving"}
    BY <1>6 DEF Holders
  <2> QED
    BY <1>1, <1>3, <2>1, CancelMarks
<1>8. ToSet(waiters) \subseteq Tasks /\ t \notin ToSet(waiters)
  BY <1>1 DEF WaitersInv, QueueInStep, ToSet
<1> DEFINE live == Live(waiters, ph)
<1>9. live \subseteq ToSet(waiters) /\ \A u \in live : ph[u] = "queued" /\ phase[u] = "queued" /\ u # t
  BY <1>4, <1>5, <1>8 DEF Live
<1>10. \A u \in Tasks : ph[u] = "queued" => u \in live
  BY <1>5 DEF WaitersInv, QueueInStep, Live
<1>11. WakeNext(waiters, ph)
  BY <1>2
<1>12. CASE live = {}
  <2>1. held' = FALSE /\ waiters' = << >> /\ phase' = ph /\ skips' = NoSkips
    BY <1>11, <1>12 DEF WakeNext
  <2>2. ToSet(waiters') = {} /\ DOMAIN waiters' = {} /\ IsInjective(waiters') /\ waiters' \in Seq(Tasks)
    BY <2>1 DEF ToSet, IsInjective
  <2>3. skips' \in [Tasks -> Nat] /\ \A u \in Tasks : skips'[u] = 0
    BY <2>1 DEF NoSkips
  <2>4. GateOK'
    BY <1>1, <1>4, <2>1, <2>2, <2>3 DEF GateOK
  <2>5. QueueInStep'
    BY <1>10, <1>12, <2>1, <2>2 DEF QueueInStep
  <2>6. OneHolder'
    BY <1>7, <2>1 DEF OneHolder, Holders
  <2>7. SkipsInQueue' /\ OvertakingIsBounded'
    BY <2>2, <2>3 DEF SkipsInQueue, OvertakingIsBounded
  <2> QED
    BY <2>4, <2>5, <2>6, <2>7 DEF WaitersInv
<1>13. CASE live # {}
  <2> DEFINE next == Chosen(waiters, live)
             S == live \ {next}
  <2>1. /\ waiters' = Kept(waiters, S) /\ phase' = [ph EXCEPT ![next] = "given"] /\ held' = held
        /\ skips' = [u \in Tasks |-> IF u \in S THEN skips[u] + 1 ELSE 0]
    BY <1>11, <1>13 DEF WakeNext
  <2>2. /\ next \in live
        /\ \A u \in live : skips[u] >= MaxSkips =>
              \E i \in 1..Len(waiters) :
                  waiters[i] = next /\ \A j \in 1..Len(waiters) : waiters[j] = u => i <= j
    BY <1>1, <1>9, <1>13, ChosenIs
  <2> HIDE DEF live, next
  <2>3. next \in Tasks /\ next # t /\ S \subseteq Tasks /\ S \subseteq ToSet(waiters) /\ next \notin S
    BY <1>8, <1>9, <2>2
  <2>4. waiters' \in Seq(Tasks) /\ IsInjective(waiters') /\ ToSet(waiters') = S
    <3>1. ToSet(waiters) \cap S = S
      BY <2>3
    <3> QED
      BY <1>1, <2>1, <3>1, KeptWaiters
  <2>5. phase' \in [Tasks -> Phases] /\ phase'[next] = "given" /\ \A u \in Tasks \ {next} : phase'[u] = ph[u]
    BY <1>4, <2>1, <2>3 DEF Phases
  <2>6. skips' \in [Tasks -> Nat] /\ \A u \in Tasks : skips'[u] = IF u \in S THEN skips[u] + 1 ELSE 0
    BY <1>1, <2>1
  <2>7. GateOK'
    BY <1>1, <2>1, <2>4, <2>5, <2>6 DEF GateOK
  <2>8. QueueInStep'
    <3>1. \A u \in S : phase'[u] = "queued"
      BY <1>9, <2>3, <2>5
    <3>2. \A u \in Tasks : phase'[u] = "queued" => u \in S
      BY <1>10, <2>5
    <3> QED
      BY <1>6, <2>1, <2>4, <3>1, <3>2 DEF QueueInStep
  <2>9. OneHolder'
    <3>1. Holders' = {next}
      BY <1>7, <2>3, <2>5 DEF Holders
    <3> QED
      BY <1>6, <2>1, <2>3, <3>1 DEF OneHolder
  <2>10. SkipsInQueue'
    BY <2>4, <2>6 DEF SkipsInQueue
  <2>11. OvertakingIsBounded'
    <3>1. PICK q : q = waiters'
      OBVIOUS
    <3>2. PICK f : IsPicked(q, f, waiters, S, Len(waiters))
      BY <1>1, <2>1, <3>1, KeptIs
    <3>3. q \in Seq(Tasks) /\ DOMAIN q = 1..Len(q) /\ IsInjective(q) /\ ToSet(q) = S /\ Len(waiters) \in Nat
      BY <1>1, <2>4, <3>1
    <3> SUFFICES ASSUME NEW k \in 1..Len(q), skips'[q[k]] > MaxSkips
                 PROVE  skips'[q[k]] + Cardinality(Pending(q, phase', k)) <= MaxSkips + Cardinality(Tasks) - 2
      BY <3>1, <3>3 DEF OvertakingIsBounded, Ahead, Pending
    <3>4. f[k] \in 1..Len(waiters) /\ q[k] = waiters[f[k]] /\ q[k] \in S
      BY <3>2 DEF IsPicked
    <3>5. q[k] \in Tasks /\ q[k] \in live /\ skips'[q[k]] = skips[q[k]] + 1 /\ skips[q[k]] \in Nat
      BY <1>1, <2>3, <2>6, <3>4
    <3>6. k \in Nat /\ f[k] \in Nat
      BY <3>3, <3>4
    <3> DEFINE a == Cardinality(Pending(q, phase', k))
               b == Cardinality(Pending(waiters, phase, f[k]))
               c == Cardinality(Tasks)
               x == skips[q[k]]
    <3>7. a \in Nat /\ b \in Nat /\ c \in Nat /\ x \in Nat /\ MaxSkips \in Nat /\ skips'[q[k]] = x + 1
      BY <3>5, <3>6, PendingFinite, WaiterSizes
    <3>8. CASE skips[q[k]] = MaxSkips
      <4>1. t \in Tasks \ ToSet(q) /\ next \in Tasks \ ToSet(q)
        BY <1>9, <2>3, <3>3
      <4>2. a <= Cardinality(Tasks) - 3
        BY <2>3, <3>3, <4>1, ThreeApart
      <4> HIDE DEF a, b, c, x
      <4>3. x + 1 + a <= MaxSkips + c - 2
        BY <3>7, <3>8, <4>2 DEF x, c
      <4> QED
        BY <3>7, <4>3 DEF a, c
    <3>9. CASE skips[q[k]] > MaxSkips
      <4>0. q[k] \in live /\ skips[q[k]] >= MaxSkips
        BY <3>5, <3>7, <3>9
      <4>1. PICK i \in 1..Len(waiters) :
                waiters[i] = next /\ \A j \in 1..Len(waiters) : waiters[j] = q[k] => i <= j
        BY <2>2, <4>0
      <4>2. i <= f[k] /\ i # f[k]
        BY <2>3, <3>4, <4>1
      <4>3. i \in 1..(f[k] - 1)
        BY <3>3, <3>6, <4>1, <4>2
      <4>4. phase[waiters[i]] = "queued" /\ waiters[i] \notin S
        BY <1>9, <2>2, <2>3, <4>1
      <4>5. i \in Pending(waiters, phase, f[k])
        BY <4>3, <4>4 DEF Pending
      <4>6. \A u \in S : phase'[u] = "queued" => phase[u] = "queued"
        BY <1>9
      <4>7. a <= b - 1
        BY <1>1, <3>2, <3>3, <4>4, <4>5, <4>6, FewerAhead
      <4>8. skips[q[k]] + b <= MaxSkips + Cardinality(Tasks) - 2
        <5>1. f[k] \in DOMAIN waiters
          BY <1>1, <3>4
        <5>2. b = Ahead(f[k])
          BY DEF Ahead, Pending
        <5> QED
          BY <3>4, <3>9, <5>1, <5>2 DEF WaitersInv, OvertakingIsBounded
      <4>9. x + b <= MaxSkips + c - 2
        BY <4>8
      <4> HIDE DEF a, b, c, x
      <4>10. x + 1 + a <= MaxSkips + c - 2
        BY <3>7, <4>7, <4>9
      <4> QED
        BY <3>7, <4>10 DEF a, c
    <3> QED
      BY <3>5, <3>8, <3>9, WaiterSizes
  <2> QED
    BY <2>7, <2>8, <2>9, <2>10, <2>11 DEF WaitersInv
<1> QED
  BY <1>12, <1>13

LEMMA ReleaseKeeps ==
    ASSUME WaitersInv, NEW t \in Tasks, Release(t)
    PROVE  WaitersInv'
<1>1. Cancelled({}) = phase
  BY DEF Cancelled, WaitersInv, GateOK
<1>2. /\ phase[t] = "inside" /\ thread' \subseteq thread
      /\ WakeNext(waiters, [Cancelled({}) EXCEPT ![t] = "away"])
  BY <1>1 DEF Release
<1> QED
  BY <1>2, HandOnKeeps

LEMMA CleanUpKeeps ==
    ASSUME WaitersInv, NEW t \in Tasks, CleanUp(t)
    PROVE  WaitersInv'
<1>1. CASE phase[t] = "revoked"
  <2>1. /\ waiters' = Kept(waiters, Tasks \ {t}) /\ skips' = [skips EXCEPT ![t] = 0]
        /\ phase' = [phase EXCEPT ![t] = "away"] /\ UNCHANGED <<held, thread>>
    BY <1>1 DEF CleanUp
  <2> QED
    BY <1>1, <2>1, RevokedKeeps
<1>2. CASE phase[t] # "revoked"
  <2>1. phase[t] \in {"forfeit", "leaving"} /\ thread' = thread
        /\ WakeNext(waiters, [phase EXCEPT ![t] = "away"])
    BY <1>2 DEF CleanUp
  <2>2. Cancelled({}) = phase
    BY DEF Cancelled, WaitersInv, GateOK
  <2>3. WakeNext(waiters, [Cancelled({}) EXCEPT ![t] = "away"]) /\ thread' \subseteq thread
    BY <2>1, <2>2
  <2> QED
    BY <2>1, <2>3, HandOnKeeps
<1> QED
  BY <1>1, <1>2

LEMMA GateUntouched ==
    ASSUME WaitersInv, UNCHANGED gateVars
    PROVE  WaitersInv'
<1>1. UNCHANGED <<held, waiters, skips, phase>> /\ thread' \subseteq thread
  BY DEF gateVars
<1> QED
  BY <1>1, ThreadEndsKeeps

LEMMA PlainFailureKeeps ==
    ASSUME WaitersInv, NEW w \in Workers, PlainSearchFails(w)
    PROVE  WaitersInv'
<1> DEFINE C == WorkersOf(w[1]) \ {w}
<1>1. w \in Tasks
  BY GroupedAssumption
<1>2. CASE worker[w] = "searching"
  <2>1. phase[w] = "inside" /\ thread' \subseteq thread
        /\ WakeNext(waiters, [Cancelled(C) EXCEPT ![w] = "away"])
    BY <1>2 DEF PlainSearchFails
  <2> QED
    BY <1>1, <2>1, HandOnKeeps
<1>3. CASE worker[w] # "searching"
  <2>1. phase' = Cancelled(C) /\ UNCHANGED <<held, waiters, skips, thread>>
    BY <1>3 DEF PlainSearchFails
  <2> QED
    BY <2>1, CancelKeeps
<1> QED
  BY <1>2, <1>3

LEMMA WaitersStep == WaitersInv /\ [GroupedNext]_groupedVars => WaitersInv'
<1> SUFFICES ASSUME WaitersInv, [GroupedNext]_groupedVars PROVE WaitersInv'
  OBVIOUS
<1>1. CASE UNCHANGED gateVars
  BY <1>1, GateUntouched
<1>2. ASSUME NEW r \in Requests, Post(r) \/ RequestStep(r) \/ RelayStep(r) \/ BrowserLeaves(r) \/ LeadsLost(r)
      PROVE  WaitersInv'
  <2>1. CASE HangUp(r)
    <3>1. phase' = Cancelled(WorkersOf(r)) /\ UNCHANGED <<held, waiters, skips, thread>>
      BY <2>1 DEF HangUp
    <3> QED
      BY <3>1, CancelKeeps
  <2>2. CASE ~HangUp(r)
    <3>1. UNCHANGED gateVars
      BY <1>2, <2>2 DEF Post, RequestStep, RelayStep, BrowserLeaves, LeadsLost, Refuse, Begin, EmbedQuery, EmbedFails,
                        Emit, Complete, Answer503, CloseStream, SaveRow, AppendResults, SaveFails
    <3> QED
      BY <1>1, <3>1
  <2> QED
    BY <2>1, <2>2
<1>3. ASSUME NEW w \in Workers, WorkerStep(w) \/ Stray(w) PROVE WaitersInv'
  <2>1. w \in Tasks
    BY GroupedAssumption
  <2>2. CASE TakePermit(w) \/ Read(w)
    BY <1>1, <2>2 DEF TakePermit, Read
  <2>3. CASE Ask(w)
    BY <2>1, <2>3, AcquireKeeps, EnterKeeps DEF Ask
  <2>4. CASE Ranked(w)
    BY <2>1, <2>4, ReleaseKeeps DEF Ranked
  <2>5. CASE SearchFails(w)
    BY <1>1, <2>1, <2>5, ReleaseKeeps DEF SearchFails
  <2>6. CASE PlainSearchFails(w)
    BY <2>6, PlainFailureKeeps
  <2>7. CASE CallerIsGone(w)
    <3>1. phase' = Cancelled(WorkersOf(w[1])) /\ UNCHANGED <<held, waiters, skips, thread>>
      BY <2>7 DEF CallerIsGone
    <3> QED
      BY <3>1, CancelKeeps
  <2>8. CASE Unwind(w)
    BY <1>1, <2>1, <2>8, CleanUpKeeps DEF Unwind
  <2>9. CASE Stray(w)
    <3>1. UNCHANGED <<held, waiters, skips, phase>> /\ thread' \subseteq thread
      BY <2>9 DEF Stray, ThreadEnds
    <3> QED
      BY <3>1, ThreadEndsKeeps
  <2> QED
    BY <1>3, <2>2, <2>3, <2>4, <2>5, <2>6, <2>7, <2>8, <2>9 DEF WorkerStep
<1>4. ASSUME NEW t \in Others, OtherStep(t) PROVE WaitersInv'
  <2>1. t \in Tasks
    BY DEF Others
  <2> QED
    BY <1>4, <2>1, AcquireKeeps, EnterKeeps, ReleaseKeeps DEF OtherStep
<1>5. CASE UNCHANGED groupedVars
  BY <1>1, <1>5 DEF groupedVars
<1> QED
  BY <1>2, <1>3, <1>4, <1>5 DEF GroupedNext

LEMMA WaitersInvMeans == WaitersInv => GateIsFair
<1> SUFFICES ASSUME WaitersInv PROVE GateIsFair
  OBVIOUS
<1>1. held \in BOOLEAN
  BY DEF WaitersInv, GateOK
<1>2. Cardinality(Holders) = IF held THEN 1 ELSE 0
  <2>1. CASE held
    <3>1. PICK h \in Tasks : Holders = {h}
      BY <2>1 DEF WaitersInv, OneHolder
    <3>2. Cardinality({h}) = 1
      BY FS_Singleton
    <3> QED
      BY <2>1, <3>1, <3>2
  <2>2. CASE ~held
    BY <2>2, FS_EmptySet DEF WaitersInv, OneHolder
  <2> QED
    BY <2>1, <2>2
<1>3. \A t \in Tasks : phase[t] = "queued" => held /\ t \in ToSet(waiters)
  <2> SUFFICES ASSUME NEW t \in Tasks, phase[t] = "queued" PROVE held /\ t \in ToSet(waiters)
    OBVIOUS
  <2>1. t \in ToSet(waiters)
    BY DEF WaitersInv, QueueInStep
  <2>2. ToSet(<< >>) = {}
    BY DEF ToSet
  <2> QED
    BY <2>1, <2>2 DEF WaitersInv, QueueInStep
<1> QED
  BY <1>2, <1>3 DEF GateIsFair, GateIsSound, WaitersInv

-----------------------------------------------------------------------------
(***************************************************************************)
(* Grouped searches.  The companies that are through are the ones told, or *)
(* found and not yet told (LinesOK), while the reader listens; what leads  *)
(* is at fixes what the searches may be doing (StageOK); and a row is only *)
(* begun when all of them are through (SavedOK).                           *)
(***************************************************************************)
Hits == UNION {Companies[r] : r \in Requests}
LineType == [type : {"group", "item_error", "complete", "error"}, company : Hits \cup {"none"}]
RunStages == {"new", "asked", "embedding", "running", "closing", "failing", "over"}
WorkerStages == {"none", "waiting", "searching", "reading", "cancelled", "over"}
RelayStages == {"idle", "reading", "saving", "appending", "over"}
GroupRow == [saved : {"none", "bare", "full"}, hits : SUBSET (Hits \cup {"none"})]

Streaming == {r \in Requests \ Plain : run[r] \in {"embedding", "running", "closing"}}
Searching == {w \in Workers : worker[w] \in {"searching", "reading", "cancelled"}}
Done(r) == {c \in Companies[r] : worker[<<r, c>>] = "over"}
Names(lines) == {lines[i].company : i \in DOMAIN lines}
Saving(r) == relay[r] \in {"saving", "appending"} \/ row[r].saved # "none"

GroupedTyped ==
    /\ run \in [Requests -> RunStages] /\ worker \in [Workers -> WorkerStages]
    /\ relay \in [Requests -> RelayStages] /\ browser \subseteq Requests
    /\ results \in [Requests -> Seq(LineType)] /\ shown \in [Requests -> Seq(LineType)]
    /\ row \in [Requests -> GroupRow]

LimitsOK ==
    /\ slots \in 0..Slots /\ permits \in 0..Fanout
    /\ IsFiniteSet(Streaming) /\ slots = Cardinality(Streaming)
    /\ IsFiniteSet(Searching) /\ permits = Fanout - Cardinality(Searching)

\* The lines that were shown, those that wait, and the companies that are through.
LinesOK(r, lines, waiting, done, ended) ==
    /\ \A i \in DOMAIN waiting :
          waiting[i].type \in {"group", "item_error"} /\ waiting[i].company \in done
    /\ \A i \in DOMAIN lines :
          IF Terminal(lines[i]) THEN lines[i].company = "none" /\ i = Len(lines) /\ ended
          ELSE lines[i].company \in done /\ r \notin Plain
    /\ \A i, j \in DOMAIN waiting : i < j => waiting[i].company # waiting[j].company
    /\ \A i, j \in DOMAIN lines : i < j => lines[i].company # lines[j].company
    /\ \A i \in DOMAIN lines, j \in DOMAIN waiting : lines[i].company # waiting[j].company

StageOK(r) ==
    /\ relay[r] = "idle" => run[r] = "new"
    /\ run[r] = "closing" => r \notin Plain
    /\ \A w \in WorkersOf(r) :
          /\ run[r] \in {"new", "asked", "embedding"} => worker[w] = "none"
          /\ run[r] = "running" => worker[w] \in {"waiting", "searching", "reading", "over"}
          /\ run[r] \in {"failing", "closing", "over"} => worker[w] \in {"none", "cancelled", "over"}

\* While a stream is read nobody cancels it, and all that is through is on its way.
HeardOK(r) ==
    r \notin Plain =>
        /\ relay[r] \in {"idle", "reading"} => r \in browser
        /\ relay[r] = "reading" =>
              /\ \A w \in WorkersOf(r) : worker[w] # "cancelled"
              /\ Done(r) \subseteq Names(shown[r]) \cup Names(results[r])

SavedOK(r) ==
    /\ Saving(r) => /\ run[r] \in {"closing", "over"} /\ AllThrough(r)
                    /\ r \notin Plain => Companies[r] \subseteq Names(shown[r])
    /\ (\E i \in DOMAIN shown[r] : shown[r][i].type = "complete")
           => row[r].saved = "full" /\ row[r].hits = FoundBy(r)

RequestOK(r) ==
    /\ StageOK(r) /\ HeardOK(r) /\ SavedOK(r)
    /\ LinesOK(r, shown[r], results[r], Done(r), relay[r] = "over")

GroupedInv == GroupedTyped /\ LimitsOK /\ \A r \in Requests : RequestOK(r)

LEMMA GroupedSizes ==
    /\ Fanout \in Nat /\ Slots \in Nat /\ Workers \subseteq Tasks
    /\ \A r \in Requests : "none" \notin Companies[r] /\ Companies[r] \subseteq Hits
                           /\ WorkersOf(r) \subseteq Workers
    /\ \A w \in Workers : \E r \in Requests : \E c \in Companies[r] : w = <<r, c>> /\ w \in WorkersOf(r)
    /\ \A r \in Requests : \A w \in WorkersOf(r) : w[1] = r /\ w[2] \in Companies[r] /\ w = <<r, w[2]>>
<1>1. Fanout \in Nat /\ Slots \in Nat /\ Workers \subseteq Tasks /\ \A r \in Requests : "none" \notin Companies[r]
  BY GroupedAssumption
<1>2. \A r \in Requests : Companies[r] \subseteq Hits /\ WorkersOf(r) \subseteq Workers
  BY DEF Hits, Workers, WorkersOf
<1>3. \A w \in Workers : \E r \in Requests : \E c \in Companies[r] : w = <<r, c>> /\ w \in WorkersOf(r)
  BY DEF Workers, WorkersOf
<1>4. \A r \in Requests : \A w \in WorkersOf(r) : w[1] = r /\ w[2] \in Companies[r] /\ w = <<r, w[2]>>
  BY DEF WorkersOf
<1> QED
  BY <1>1, <1>2, <1>3, <1>4

\* A line at the end of some.
LEMMA LineAppended ==
    ASSUME NEW T, NEW lines \in Seq(T), NEW l \in T
    PROVE  /\ Append(lines, l) \in Seq(T) /\ Len(lines) \in Nat /\ DOMAIN lines = 1..Len(lines)
           /\ Len(Append(lines, l)) = Len(lines) + 1 /\ DOMAIN Append(lines, l) = 1..(Len(lines) + 1)
           /\ Append(lines, l)[Len(lines) + 1] = l
           /\ \A i \in 1..Len(lines) : Append(lines, l)[i] = lines[i]
           /\ \A i \in 1..(Len(lines) + 1) : i = Len(lines) + 1 \/ i \in 1..Len(lines)
           /\ Names(Append(lines, l)) = Names(lines) \cup {l.company}
           /\ Groups(Append(lines, l)) = Groups(lines) \cup (IF l.type = "group" THEN {l.company} ELSE {})
<1> DEFINE m == Append(lines, l)
           n == Len(lines)
<1>1. /\ m \in Seq(T) /\ n \in Nat /\ DOMAIN lines = 1..n /\ Len(m) = n + 1 /\ DOMAIN m = 1..(n + 1)
      /\ m[n + 1] = l /\ \A i \in 1..n : m[i] = lines[i]
  OBVIOUS
<1> HIDE DEF m, n
<1>2. (\A i \in 1..(n + 1) : i = n + 1 \/ i \in 1..n) /\ n + 1 \in 1..(n + 1) /\ \A i \in 1..n : i \in 1..(n + 1)
  BY <1>1
<1>3. Names(m) = Names(lines) \cup {l.company}
  BY <1>1, <1>2 DEF Names
<1>4. Groups(m) = Groups(lines) \cup (IF l.type = "group" THEN {l.company} ELSE {})
  BY <1>1, <1>2 DEF Groups
<1> QED
  BY <1>1, <1>2, <1>3, <1>4 DEF m, n

\* More may be through, and it may have ended.
LEMMA LinesLast ==
    ASSUME NEW r, NEW lines, NEW waiting, NEW done, NEW more, done \subseteq more,
           NEW ended, NEW over, ended => over, LinesOK(r, lines, waiting, done, ended)
    PROVE  LinesOK(r, lines, waiting, more, over)
BY DEF LinesOK

\* The end is told, last.
LEMMA EndTold ==
    ASSUME NEW r \in Requests, NEW lines \in Seq(LineType), NEW waiting, NEW done \in SUBSET Companies[r],
           LinesOK(r, lines, waiting, done, FALSE), NEW type \in {"complete", "error"}
    PROVE  LinesOK(r, Append(lines, Ending(type)), waiting, done, TRUE)
<1> DEFINE l == Ending(type)
           m == Append(lines, l)
           n == Len(lines)
<1>1. l \in LineType /\ l.company = "none" /\ Terminal(l)
  BY DEF Ending, Line, LineType, Terminal
<1> HIDE DEF l
<1>2. /\ n \in Nat /\ DOMAIN lines = 1..n /\ Len(m) = n + 1 /\ DOMAIN m = 1..(n + 1) /\ m[n + 1] = l
      /\ \A i \in 1..n : m[i] = lines[i]
      /\ \A i \in 1..(n + 1) : i = n + 1 \/ i \in 1..n
  BY <1>1, LineAppended
<1> HIDE DEF m, n
<1>3. /\ \A i \in 1..n : ~Terminal(lines[i]) /\ lines[i].company \in done /\ r \notin Plain
      /\ \A i \in DOMAIN waiting : /\ waiting[i].company \in done
                                   /\ waiting[i].type \in {"group", "item_error"}
      /\ \A i, j \in DOMAIN waiting : i < j => waiting[i].company # waiting[j].company
      /\ \A i, j \in 1..n : i < j => lines[i].company # lines[j].company
      /\ \A i \in 1..n, j \in DOMAIN waiting : lines[i].company # waiting[j].company
  BY <1>2 DEF LinesOK
<1>4. "none" \notin done
  BY GroupedSizes
<1>5. \A i \in DOMAIN m :
          IF Terminal(m[i]) THEN m[i].company = "none" /\ i = Len(m) ELSE m[i].company \in done /\ r \notin Plain
  BY <1>1, <1>2, <1>3
<1>6. \A i, j \in 1..(n + 1) : i < j => m[i].company # m[j].company
  <2> SUFFICES ASSUME NEW i \in 1..(n + 1), NEW j \in 1..(n + 1), i < j PROVE m[i].company # m[j].company
    OBVIOUS
  <2>1. i \in 1..n
    BY <1>2
  <2>2. CASE j \in 1..n
    BY <1>2, <1>3, <2>1, <2>2
  <2>3. CASE j = n + 1
    <3>1. m[j].company = "none" /\ m[i].company \in done
      BY <1>1, <1>2, <1>3, <2>1, <2>3
    <3> QED
      BY <1>4, <3>1
  <2> QED
    BY <1>2, <2>2, <2>3
<1>7. \A i \in DOMAIN m, j \in DOMAIN waiting : m[i].company # waiting[j].company
  <2> SUFFICES ASSUME NEW i \in 1..(n + 1), NEW j \in DOMAIN waiting PROVE m[i].company # waiting[j].company
    BY <1>2
  <2>1. CASE i = n + 1
    BY <1>1, <1>2, <1>3, <1>4, <2>1
  <2>2. CASE i \in 1..n
    BY <1>2, <1>3, <2>2
  <2> QED
    BY <1>2, <2>1, <2>2
<1> QED
  BY <1>2, <1>3, <1>5, <1>6, <1>7 DEF LinesOK, m, l

\* A company is through, and its line waits.
LEMMA LineFound ==
    ASSUME NEW r \in Requests, NEW lines, NEW waiting \in Seq(LineType), NEW done \in SUBSET Companies[r],
           NEW ended, LinesOK(r, lines, waiting, done, ended),
           NEW c \in Companies[r] \ done, NEW type \in {"group", "item_error"}
    PROVE  LinesOK(r, lines, Append(waiting, Line(type, c)), done \cup {c}, ended)
<1> DEFINE l == Line(type, c)
           m == Append(waiting, l)
           n == Len(waiting)
<1>1. l \in LineType /\ l.company = c /\ l.type \in {"group", "item_error"}
  BY GroupedSizes DEF Line, LineType
<1> HIDE DEF l
<1>2. /\ n \in Nat /\ DOMAIN waiting = 1..n /\ DOMAIN m = 1..(n + 1) /\ m[n + 1] = l
      /\ \A i \in 1..n : m[i] = waiting[i]
      /\ \A i \in 1..(n + 1) : i = n + 1 \/ i \in 1..n
  BY <1>1, LineAppended
<1> HIDE DEF m, n
<1>3. /\ \A i \in 1..n : waiting[i].company \in done /\ waiting[i].type \in {"group", "item_error"}
      /\ \A i, j \in 1..n : i < j => waiting[i].company # waiting[j].company
      /\ \A i \in DOMAIN lines :
          IF Terminal(lines[i]) THEN lines[i].company = "none" /\ i = Len(lines) /\ ended
          ELSE lines[i].company \in done /\ r \notin Plain
      /\ \A i, j \in DOMAIN lines : i < j => lines[i].company # lines[j].company
      /\ \A i \in DOMAIN lines, j \in 1..n : lines[i].company # waiting[j].company
  BY <1>2 DEF LinesOK
<1>4. c # "none" /\ c \notin done
  BY GroupedSizes
<1>5. \A i \in 1..(n + 1) : m[i].type \in {"group", "item_error"} /\ m[i].company \in done \cup {c}
  BY <1>1, <1>2, <1>3
<1>6. \A i, j \in 1..(n + 1) : i < j => m[i].company # m[j].company
  <2> SUFFICES ASSUME NEW i \in 1..(n + 1), NEW j \in 1..(n + 1), i < j PROVE m[i].company # m[j].company
    OBVIOUS
  <2>1. i \in 1..n
    BY <1>2
  <2>2. CASE j \in 1..n
    BY <1>2, <1>3, <2>1, <2>2
  <2>3. CASE j = n + 1
    BY <1>1, <1>2, <1>3, <1>4, <2>1, <2>3
  <2> QED
    BY <1>2, <2>2, <2>3
<1>7. \A i \in DOMAIN lines : lines[i].company # c
  BY <1>3, <1>4
<1>8. \A i \in DOMAIN lines, j \in 1..(n + 1) : lines[i].company # m[j].company
  <2> SUFFICES ASSUME NEW i \in DOMAIN lines, NEW j \in 1..(n + 1) PROVE lines[i].company # m[j].company
    OBVIOUS
  <2>1. CASE j = n + 1
    BY <1>1, <1>2, <1>7, <2>1
  <2>2. CASE j \in 1..n
    BY <1>2, <1>3, <2>2
  <2> QED
    BY <1>2, <2>1, <2>2
<1>9. \A i \in DOMAIN lines :
          IF Terminal(lines[i]) THEN lines[i].company = "none" /\ i = Len(lines) /\ ended
          ELSE lines[i].company \in done \cup {c} /\ r \notin Plain
  BY <1>3
<1> QED
  BY <1>2, <1>3, <1>5, <1>6, <1>8, <1>9 DEF LinesOK, m, l

\* A line that waited is taken, told or not.
LEMMA LineTaken ==
    ASSUME NEW r \in Requests, r \notin Plain, NEW lines \in Seq(LineType), NEW waiting \in Seq(LineType),
           waiting # << >>, NEW done, NEW ended
    PROVE  /\ Tail(waiting) \in Seq(LineType) /\ Head(waiting) \in LineType
           /\ Names(waiting) = Names(Tail(waiting)) \cup {Head(waiting).company}
           /\ LinesOK(r, lines, waiting, done, ended) => /\ Head(waiting).type \in {"group", "item_error"}
                                                         /\ LinesOK(r, lines, Tail(waiting), done, ended)
           /\ LinesOK(r, lines, waiting, done, FALSE)
                => LinesOK(r, Append(lines, Head(waiting)), Tail(waiting), done, FALSE)
<1> DEFINE l == Head(waiting)
           q == Tail(waiting)
           k == Len(waiting) - 1
           m == Append(lines, l)
           n == Len(lines)
<1>1. /\ k \in Nat /\ q \in Seq(LineType) /\ l \in LineType /\ DOMAIN waiting = 1..(k + 1) /\ DOMAIN q = 1..k
      /\ l = waiting[1] /\ \A i \in 1..k : q[i] = waiting[i + 1]
  OBVIOUS
<1> HIDE DEF l, q, k
<1>2. (\A i \in 1..k : i + 1 \in 1..(k + 1) /\ 1 < i + 1) /\ 1 \in 1..(k + 1) /\ \A i \in 1..(k + 1) : i = 1 \/ i - 1 \in 1..k
  BY <1>1
<1>3. \A i \in 1..(k + 1) : i = 1 \/ waiting[i] = q[i - 1]
  <2> SUFFICES ASSUME NEW i \in 1..(k + 1), i # 1 PROVE waiting[i] = q[i - 1]
    OBVIOUS
  <2>1. i - 1 \in 1..k /\ (i - 1) + 1 = i
    BY <1>1, <1>2
  <2> QED
    BY <1>1, <2>1
<1>4. Names(waiting) = Names(q) \cup {l.company}
  <2>1. \A x \in Names(waiting) : x \in Names(q) \cup {l.company}
    <3> SUFFICES ASSUME NEW i \in 1..(k + 1) PROVE waiting[i].company \in Names(q) \cup {l.company}
      BY <1>1 DEF Names
    <3> QED
      BY <1>1, <1>2, <1>3 DEF Names
  <2>2. \A x \in Names(q) \cup {l.company} : x \in Names(waiting)
    BY <1>1, <1>2 DEF Names
  <2> QED
    BY <2>1, <2>2
<1>5. ASSUME LinesOK(r, lines, waiting, done, ended)
      PROVE  l.type \in {"group", "item_error"} /\ LinesOK(r, lines, q, done, ended)
  <2>1. l.type \in {"group", "item_error"}
    BY <1>1, <1>2, <1>5 DEF LinesOK
  <2>2. \A i \in DOMAIN q : q[i].type \in {"group", "item_error"} /\ q[i].company \in done
    BY <1>1, <1>2, <1>5 DEF LinesOK
  <2>3. \A i, j \in DOMAIN q : i < j => q[i].company # q[j].company
    <3> SUFFICES ASSUME NEW i \in 1..k, NEW j \in 1..k, i < j PROVE q[i].company # q[j].company
      BY <1>1
    <3>1. i + 1 \in DOMAIN waiting /\ j + 1 \in DOMAIN waiting /\ i + 1 < j + 1
      BY <1>1, <1>2
    <3>2. waiting[i + 1].company # waiting[j + 1].company
      BY <1>5, <3>1 DEF LinesOK
    <3>3. q[i] = waiting[i + 1] /\ q[j] = waiting[j + 1]
      BY <1>1
    <3> QED
      BY <3>2, <3>3
  <2>4. \A i \in DOMAIN lines, j \in DOMAIN q : lines[i].company # q[j].company
    <3> SUFFICES ASSUME NEW i \in DOMAIN lines, NEW j \in 1..k PROVE lines[i].company # q[j].company
      BY <1>1
    <3>1. j + 1 \in DOMAIN waiting /\ q[j] = waiting[j + 1]
      BY <1>1, <1>2
    <3>2. lines[i].company # waiting[j + 1].company
      BY <1>5, <3>1 DEF LinesOK
    <3> QED
      BY <3>1, <3>2
  <2> QED
    BY <1>5, <2>1, <2>2, <2>3, <2>4 DEF LinesOK
<1>6. ASSUME LinesOK(r, lines, waiting, done, FALSE) PROVE LinesOK(r, m, q, done, FALSE)
  <2>1. /\ n \in Nat /\ DOMAIN lines = 1..n /\ Len(m) = n + 1 /\ DOMAIN m = 1..(n + 1) /\ m[n + 1] = l
        /\ \A i \in 1..n : m[i] = lines[i]
        /\ \A i \in 1..(n + 1) : i = n + 1 \/ i \in 1..n
    BY <1>1, LineAppended
  <2> HIDE DEF m, n
  <2>2. /\ l.type \in {"group", "item_error"} /\ l.company \in done
        /\ \A i \in 1..k : q[i].type \in {"group", "item_error"} /\ q[i].company \in done
    BY <1>1, <1>2, <1>6 DEF LinesOK
  <2>3. \A i \in 1..n : ~Terminal(lines[i]) /\ lines[i].company \in done /\ lines[i].company # l.company
    <3>1. \A i \in DOMAIN lines : ~Terminal(lines[i]) /\ lines[i].company \in done
      BY <1>6 DEF LinesOK
    <3>2. \A i \in DOMAIN lines, j \in DOMAIN waiting : lines[i].company # waiting[j].company
      BY <1>6 DEF LinesOK
    <3> QED
      BY <1>1, <1>2, <2>1, <3>1, <3>2
  <2>4. ~Terminal(l)
    BY <2>2 DEF Terminal
  <2>5. \A i, j \in 1..k : i < j => q[i].company # q[j].company
    <3> SUFFICES ASSUME NEW i \in 1..k, NEW j \in 1..k, i < j PROVE q[i].company # q[j].company
      OBVIOUS
    <3>1. i + 1 \in DOMAIN waiting /\ j + 1 \in DOMAIN waiting /\ i + 1 < j + 1
      BY <1>1, <1>2
    <3>2. waiting[i + 1].company # waiting[j + 1].company
      BY <1>6, <3>1 DEF LinesOK
    <3>3. q[i] = waiting[i + 1] /\ q[j] = waiting[j + 1]
      BY <1>1
    <3> QED
      BY <3>2, <3>3
  <2>6. \A i \in 1..k : q[i].company # l.company
    <3> SUFFICES ASSUME NEW i \in 1..k PROVE q[i].company # l.company
      OBVIOUS
    <3>1. i + 1 \in DOMAIN waiting /\ 1 \in DOMAIN waiting /\ 1 < i + 1
      BY <1>1, <1>2
    <3> QED
      BY <1>1, <1>6, <3>1 DEF LinesOK
  <2>7. \A i \in 1..n, j \in 1..k : lines[i].company # q[j].company
    <3>1. \A i \in DOMAIN lines, j \in DOMAIN waiting : lines[i].company # waiting[j].company
      BY <1>6 DEF LinesOK
    <3> SUFFICES ASSUME NEW i \in 1..n, NEW j \in 1..k PROVE lines[i].company # q[j].company
      OBVIOUS
    <3>2. i \in DOMAIN lines /\ j + 1 \in DOMAIN waiting /\ q[j] = waiting[j + 1]
      BY <1>1, <1>2, <2>1
    <3> QED
      BY <3>1, <3>2
  <2>8. \A i, j \in 1..n : i < j => lines[i].company # lines[j].company
    BY <1>6, <2>1 DEF LinesOK
  <2>9. \A i \in DOMAIN m : ~Terminal(m[i]) /\ m[i].company \in done
    BY <2>1, <2>2, <2>3, <2>4
  <2>10. \A i, j \in DOMAIN m : i < j => m[i].company # m[j].company
    <3> SUFFICES ASSUME NEW i \in 1..(n + 1), NEW j \in 1..(n + 1), i < j PROVE m[i].company # m[j].company
      BY <2>1
    <3>1. i \in 1..n
      BY <2>1
    <3>2. CASE j \in 1..n
      BY <2>1, <2>8, <3>1, <3>2
    <3>3. CASE j = n + 1
      BY <2>1, <2>3, <3>1, <3>3
    <3> QED
      BY <2>1, <3>2, <3>3
  <2>11. \A i \in DOMAIN m, j \in DOMAIN q : m[i].company # q[j].company
    <3> SUFFICES ASSUME NEW i \in 1..(n + 1), NEW j \in 1..k PROVE m[i].company # q[j].company
      BY <1>1, <2>1
    <3>1. CASE i = n + 1
      BY <2>1, <2>6, <3>1
    <3>2. CASE i \in 1..n
      BY <2>1, <2>7, <3>2
    <3> QED
      BY <2>1, <3>1, <3>2
  <2> QED
    BY <1>1, <2>2, <2>5, <2>9, <2>10, <2>11 DEF LinesOK
<1> QED
  BY <1>1, <1>4, <1>5, <1>6 DEF l, q, m

\* A step that is not one of a request's.
Alone(q) ==
    /\ run'[q] = run[q] /\ relay'[q] = relay[q] /\ results'[q] = results[q] /\ shown'[q] = shown[q]
    /\ row'[q] = row[q] /\ (q \in browser' <=> q \in browser)
    /\ \A w \in WorkersOf(q) : worker'[w] = worker[w]

LEMMA DoneStays ==
    ASSUME NEW q \in Requests, \A w \in WorkersOf(q) : worker'[w] = worker[w]
    PROVE  Done(q)' = Done(q) /\ (AllThrough(q)' <=> AllThrough(q))
<1>1. \A c \in Companies[q] : <<q, c>> \in WorkersOf(q)
  BY DEF WorkersOf
<1> QED
  BY <1>1 DEF Done, AllThrough

LEMMA AloneKeeps ==
    ASSUME NEW q \in Requests, RequestOK(q), Alone(q)
    PROVE  RequestOK(q)'
<1>1. Done(q)' = Done(q) /\ (AllThrough(q)' <=> AllThrough(q))
  BY DoneStays DEF Alone
<1>2. FoundBy(q)' = FoundBy(q)
  BY DEF FoundBy, Alone
<1>3. Saving(q)' <=> Saving(q)
  BY DEF Saving, Alone
<1>4. StageOK(q)'
  BY DEF RequestOK, StageOK, Alone
<1>5. HeardOK(q)'
  BY <1>1 DEF RequestOK, HeardOK, Alone
<1>6. SavedOK(q)'
  BY <1>1, <1>2, <1>3 DEF RequestOK, SavedOK, Alone
<1>7. LinesOK(q, shown[q], results[q], Done(q), relay[q] = "over")'
  BY <1>1 DEF RequestOK, LinesOK, Alone
<1> QED
  BY <1>4, <1>5, <1>6, <1>7 DEF RequestOK

LEMMA OneMoves ==
    ASSUME GroupedInv, NEW r \in Requests, \A q \in Requests \ {r} : Alone(q),
           GroupedTyped', LimitsOK', RequestOK(r)'
    PROVE  GroupedInv'
<1>1. \A q \in Requests \ {r} : RequestOK(q)'
  BY AloneKeeps DEF GroupedInv
<1>2. \A q \in Requests : RequestOK(q)'
  BY <1>1
<1> QED
  BY <1>2 DEF GroupedInv

LEMMA LimitsStay ==
    ASSUME LimitsOK, Streaming' = Streaming, Searching' = Searching, slots' = slots, permits' = permits
    PROVE  LimitsOK'
BY DEF LimitsOK

LEMMA PermitTaken ==
    ASSUME LimitsOK, NEW w, w \notin Searching, Searching' = Searching \cup {w}, permits > 0, permits' = permits - 1,
           Streaming' = Streaming, slots' = slots
    PROVE  LimitsOK'
<1>1. Cardinality(Searching \cup {w}) = Cardinality(Searching) + 1 /\ IsFiniteSet(Searching \cup {w})
  BY FS_AddElement DEF LimitsOK
<1>2. Cardinality(Searching) \in Nat
  BY FS_CardinalityType DEF LimitsOK
<1> QED
  BY <1>1, <1>2, GroupedSizes DEF LimitsOK

LEMMA PermitBack ==
    ASSUME LimitsOK, NEW w \in Searching, Searching' = Searching \ {w}, permits' = permits + 1,
           Streaming' = Streaming, slots' = slots
    PROVE  LimitsOK'
<1>1. Cardinality(Searching \ {w}) = Cardinality(Searching) - 1 /\ IsFiniteSet(Searching \ {w})
  BY FS_RemoveElement DEF LimitsOK
<1>2. Cardinality(Searching) \in Nat /\ Cardinality(Searching \ {w}) \in Nat
  BY <1>1, FS_CardinalityType DEF LimitsOK
<1> QED
  BY <1>1, <1>2, GroupedSizes DEF LimitsOK

LEMMA SlotTaken ==
    ASSUME LimitsOK, NEW r, r \notin Streaming, Streaming' = Streaming \cup {r}, slots < Slots, slots' = slots + 1,
           Searching' = Searching, permits' = permits
    PROVE  LimitsOK'
<1>1. Cardinality(Streaming \cup {r}) = Cardinality(Streaming) + 1 /\ IsFiniteSet(Streaming \cup {r})
  BY FS_AddElement DEF LimitsOK
<1> QED
  BY <1>1, GroupedSizes DEF LimitsOK

LEMMA SlotBack ==
    ASSUME LimitsOK, NEW r \in Streaming, Streaming' = Streaming \ {r}, slots' = slots - 1,
           Searching' = Searching, permits' = permits
    PROVE  LimitsOK'
<1>1. Cardinality(Streaming \ {r}) = Cardinality(Streaming) - 1 /\ IsFiniteSet(Streaming \ {r})
  BY FS_RemoveElement DEF LimitsOK
<1>2. Cardinality(Streaming \ {r}) \in Nat
  BY <1>1, FS_CardinalityType
<1> QED
  BY <1>1, <1>2, GroupedSizes DEF LimitsOK

\* Nothing is saved of a search that is not over.
LEMMA NothingSaved ==
    ASSUME NEW r \in Requests, GroupedTyped, RequestOK(r), run[r] \notin {"closing", "over"} \/ ~AllThrough(r)
    PROVE  /\ ~Saving(r) /\ row[r].saved = "none" /\ relay[r] \in {"idle", "reading", "over"}
           /\ \A i \in DOMAIN shown[r] : shown[r][i].type # "complete"
<1>1. ~Saving(r)
  BY DEF RequestOK, SavedOK
<1>2. row[r].saved = "none" /\ relay[r] \notin {"saving", "appending"}
  BY <1>1 DEF Saving
<1>3. relay[r] \in RelayStages
  BY DEF GroupedTyped
<1> QED
  BY <1>1, <1>2, <1>3 DEF RequestOK, SavedOK, RelayStages

LEMMA SavedLater ==
    ASSUME NEW r \in Requests, ~Saving(r)', \A i \in DOMAIN shown'[r] : shown'[r][i].type # "complete"
    PROVE  SavedOK(r)'
BY DEF SavedOK

\* What the relay does with a line.
LEMMA LineShown ==
    ASSUME GroupedTyped, NEW r \in Requests, NEW line \in LineType, shown' = Show(r, line)
    PROVE  /\ shown' \in [Requests -> Seq(LineType)] /\ \A q \in Requests \ {r} : shown'[q] = shown[q]
           /\ shown'[r] = IF r \in browser THEN Append(shown[r], line) ELSE shown[r]
BY DEF Show, GroupedTyped

LEMMA LineTold ==
    ASSUME GroupedTyped, NEW r \in Requests, NEW line \in LineType, Told(r, line)
    PROVE  /\ browser' = browser /\ row' = row
           /\ relay' \in [Requests -> RelayStages] /\ shown' \in [Requests -> Seq(LineType)]
           /\ \A q \in Requests \ {r} : relay'[q] = relay[q] /\ shown'[q] = shown[q]
           /\ relay[r] # "reading" => relay'[r] = relay[r] /\ shown'[r] = shown[r]
           /\ relay[r] = "reading" =>
                 /\ relay'[r] = IF line.type = "complete" THEN "saving"
                                ELSE IF line.type = "error" THEN "over" ELSE "reading"
                 /\ shown'[r] = IF line.type # "complete" /\ r \in browser THEN Append(shown[r], line) ELSE shown[r]
<1>1. CASE ~Listening(r)
  <2>1. UNCHANGED <<relay, browser, shown, row>>
    BY <1>1 DEF Told, relayVars
  <2>2. relay[r] # "reading"
    BY <1>1 DEF Listening
  <2> QED
    BY <2>1, <2>2 DEF GroupedTyped
<1>2. CASE Listening(r)
  <2>1. /\ shown' = IF line.type = "complete" THEN shown ELSE Show(r, line)
        /\ relay' = CASE line.type = "complete" -> [relay EXCEPT ![r] = "saving"]
                      [] line.type = "error" -> [relay EXCEPT ![r] = "over"]
                      [] OTHER -> relay
        /\ UNCHANGED <<browser, row>> /\ relay[r] = "reading"
    BY <1>2 DEF Told, Listening
  <2>2. relay \in [Requests -> RelayStages] /\ shown \in [Requests -> Seq(LineType)]
    BY DEF GroupedTyped
  <2>3. /\ shown' \in [Requests -> Seq(LineType)] /\ \A q \in Requests \ {r} : shown'[q] = shown[q]
        /\ shown'[r] = IF line.type # "complete" /\ r \in browser THEN Append(shown[r], line) ELSE shown[r]
    <3>1. CASE line.type = "complete"
      BY <2>1, <2>2, <3>1
    <3>2. CASE line.type # "complete"
      BY <2>1, <3>2, LineShown
    <3> QED
      BY <3>1, <3>2
  <2>4. /\ relay' \in [Requests -> RelayStages] /\ \A q \in Requests \ {r} : relay'[q] = relay[q]
        /\ relay'[r] = IF line.type = "complete" THEN "saving"
                       ELSE IF line.type = "error" THEN "over" ELSE "reading"
    <3>1. CASE line.type = "complete"
      <4>1. relay' = [relay EXCEPT ![r] = "saving"]
        BY <2>1, <3>1
      <4> QED
        BY <2>2, <3>1, <4>1 DEF RelayStages
    <3>2. CASE line.type = "error"
      <4>1. relay' = [relay EXCEPT ![r] = "over"]
        BY <2>1, <3>2
      <4> QED
        BY <2>2, <3>2, <4>1 DEF RelayStages
    <3>3. CASE line.type # "complete" /\ line.type # "error"
      <4>1. relay' = relay
        BY <2>1, <3>3
      <4> QED
        BY <2>1, <2>2, <3>3, <4>1
    <3> QED
      BY <3>1, <3>2, <3>3
  <2> QED
    BY <2>1, <2>3, <2>4
<1> QED
  BY <1>1, <1>2

LEMMA EndingLine ==
    ASSUME NEW type \in {"complete", "error"}
    PROVE  Ending(type) \in LineType /\ Ending(type).type = type /\ Ending(type).company = "none"
BY DEF Ending, Line, LineType

\* The lines after an end, if it was told.
LEMMA LinesEnd ==
    ASSUME NEW r \in Requests, NEW lines \in Seq(LineType), NEW waiting, NEW done \in SUBSET Companies[r],
           NEW ended, ~ended, LinesOK(r, lines, waiting, done, ended), NEW type \in {"complete", "error"},
           NEW heard, NEW after, after = (IF heard THEN Append(lines, Ending(type)) ELSE lines)
    PROVE  LinesOK(r, after, waiting, done, TRUE)
<1>1. LinesOK(r, lines, waiting, done, FALSE) /\ LinesOK(r, lines, waiting, done, TRUE)
  BY DEF LinesOK
<1>2. CASE heard
  BY <1>1, <1>2, EndTold
<1>3. CASE ~heard
  BY <1>1, <1>3
<1> QED
  BY <1>2, <1>3

LEMMA NotComplete ==
    ASSUME NEW lines \in Seq(LineType), NEW line \in LineType, line.type # "complete",
           \A i \in DOMAIN lines : lines[i].type # "complete"
    PROVE  \A i \in DOMAIN Append(lines, line) : Append(lines, line)[i].type # "complete"
<1>1. /\ DOMAIN Append(lines, line) = 1..(Len(lines) + 1) /\ DOMAIN lines = 1..Len(lines)
      /\ \A i \in 1..(Len(lines) + 1) : i = Len(lines) + 1 \/ i \in 1..Len(lines)
      /\ Append(lines, line)[Len(lines) + 1] = line /\ \A i \in 1..Len(lines) : Append(lines, line)[i] = lines[i]
  BY LineAppended
<1> QED
  BY <1>1

(***************************************************************************)
(* Leads is through with a request, well or badly.                         *)
(***************************************************************************)
LEMMA EndsKeeps ==
    ASSUME GroupedInv, NEW r \in Requests, NEW type \in {"complete", "error"}, Told(r, Ending(type)),
           NEW s \in {"over", "closing"}, run' = [run EXCEPT ![r] = s], UNCHANGED <<slots, permits, worker, results>>,
           run[r] \notin {"new", "closing", "over"}, s = "closing" => r \notin Plain,
           r \in Streaming <=> s = "closing", \A w \in WorkersOf(r) : worker[w] \in {"none", "cancelled", "over"},
           type = "complete" => AllThrough(r) /\ (r \in Plain \/ results[r] = << >>)
    PROVE  GroupedInv'
<1>1. /\ GroupedTyped /\ LimitsOK /\ StageOK(r) /\ HeardOK(r) /\ RequestOK(r)
      /\ LinesOK(r, shown[r], results[r], Done(r), relay[r] = "over")
      /\ run \in [Requests -> RunStages] /\ shown[r] \in Seq(LineType)
  BY DEF GroupedInv, RequestOK, GroupedTyped
<1>2. Ending(type) \in LineType /\ Ending(type).type = type
  BY EndingLine
<1>3. /\ browser' = browser /\ row' = row
      /\ relay' \in [Requests -> RelayStages] /\ shown' \in [Requests -> Seq(LineType)]
      /\ \A q \in Requests \ {r} : relay'[q] = relay[q] /\ shown'[q] = shown[q]
      /\ relay[r] # "reading" => relay'[r] = relay[r] /\ shown'[r] = shown[r]
      /\ relay[r] = "reading" =>
            /\ relay'[r] = IF type = "complete" THEN "saving" ELSE "over"
            /\ shown'[r] = IF type # "complete" /\ r \in browser THEN Append(shown[r], Ending(type)) ELSE shown[r]
  BY <1>1, <1>2, LineTold
<1>4. run' \in [Requests -> RunStages] /\ run'[r] = s /\ \A q \in Requests \ {r} : run'[q] = run[q]
  BY <1>1 DEF RunStages
<1>5. \A q \in Requests \ {r} : Alone(q)
  BY <1>3, <1>4 DEF Alone
<1>6. GroupedTyped'
  BY <1>1, <1>3, <1>4 DEF GroupedTyped
<1>7. LimitsOK'
  <2>1. Streaming' = Streaming
    BY <1>4 DEF Streaming
  <2>2. Searching' = Searching
    BY DEF Searching
  <2> QED
    BY <1>1, <2>1, <2>2, LimitsStay
<1>8. /\ ~Saving(r) /\ row[r].saved = "none" /\ relay[r] \in {"idle", "reading", "over"}
      /\ \A i \in DOMAIN shown[r] : shown[r][i].type # "complete"
  BY <1>1, NothingSaved
<1>9. relay[r] # "idle"
  BY <1>1 DEF StageOK
<1>10. Done(r)' = Done(r) /\ (AllThrough(r)' <=> AllThrough(r)) /\ Done(r) \subseteq Companies[r]
  BY DoneStays DEF Done
<1>11. StageOK(r)'
  BY <1>3, <1>4, <1>8, <1>9 DEF StageOK
<1>12. HeardOK(r)'
  <2>1. relay'[r] \notin {"idle", "reading"}
    BY <1>3, <1>8, <1>9
  <2> QED
    BY <2>1 DEF HeardOK
<1>13. SavedOK(r)'
  <2>1. \A i \in DOMAIN shown'[r] : shown'[r][i].type # "complete"
    <3>1. CASE shown'[r] = shown[r]
      BY <1>8, <3>1
    <3>2. CASE shown'[r] # shown[r]
      <4>1. type # "complete" /\ shown'[r] = Append(shown[r], Ending(type))
        BY <1>3, <3>2
      <4>2. \A i \in DOMAIN Append(shown[r], Ending(type)) : Append(shown[r], Ending(type))[i].type # "complete"
        BY <1>1, <1>2, <1>8, <4>1, NotComplete
      <4> QED
        BY <4>1, <4>2
    <3> QED
      BY <3>1, <3>2
  <2>2. CASE relay[r] = "reading" /\ type = "complete"
    <3>1. relay'[r] = "saving" /\ shown'[r] = shown[r] /\ run'[r] \in {"closing", "over"} /\ AllThrough(r)'
      BY <1>3, <1>4, <1>10, <2>2
    <3>2. r \notin Plain => Companies[r] \subseteq Names(shown[r])
      <4> SUFFICES ASSUME r \notin Plain PROVE Companies[r] \subseteq Names(shown[r])
        OBVIOUS
      <4>1. Names(results[r]) = {}
        BY <2>2 DEF Names
      <4>2. Done(r) = Companies[r]
        BY <2>2 DEF AllThrough, Done, WorkersOf
      <4> QED
        BY <1>1, <2>2, <4>1, <4>2 DEF HeardOK
    <3> QED
      BY <2>1, <3>1, <3>2 DEF SavedOK
  <2>3. CASE ~(relay[r] = "reading" /\ type = "complete")
    <3>1. relay'[r] = "over"
      BY <1>3, <1>8, <1>9, <2>3
    <3>2. ~Saving(r)'
      BY <1>3, <1>8, <3>1 DEF Saving
    <3> QED
      BY <2>1, <3>2, SavedLater
  <2> QED
    BY <2>2, <2>3
<1>14. LinesOK(r, shown[r], results[r], Done(r), relay[r] = "over")'
  <2>1. CASE relay[r] = "reading" /\ type = "error"
    <3>1. relay'[r] = "over" /\ shown'[r] = IF r \in browser THEN Append(shown[r], Ending(type)) ELSE shown[r]
      BY <1>3, <2>1
    <3>2. LinesOK(r, shown[r], results[r], Done(r), FALSE)
      BY <1>1, <2>1 DEF LinesOK
    <3>3. LinesOK(r, shown'[r], results[r], Done(r), TRUE)
      BY <1>1, <1>10, <3>1, <3>2, LinesEnd
    <3> QED
      BY <1>10, <3>1, <3>3 DEF LinesOK
  <2>2. CASE ~(relay[r] = "reading" /\ type = "error")
    <3>1. shown'[r] = shown[r] /\ (relay[r] = "over" => relay'[r] = "over")
      BY <1>3, <2>2
    <3> QED
      BY <1>1, <1>10, <3>1 DEF LinesOK
  <2> QED
    BY <2>1, <2>2
<1>15. RequestOK(r)'
  BY <1>11, <1>12, <1>13, <1>14 DEF RequestOK
<1> QED
  BY <1>5, <1>6, <1>7, <1>15, OneMoves

LEMMA RefuseKeeps ==
    ASSUME GroupedInv, NEW r \in Requests, Refuse(r)
    PROVE  GroupedInv'
<1>1. /\ run[r] = "asked" /\ run' = [run EXCEPT ![r] = "over"] /\ Told(r, Ending("error"))
      /\ UNCHANGED <<slots, permits, worker, results>>
  BY DEF Refuse
<1>2. \A w \in WorkersOf(r) : worker[w] = "none"
  BY <1>1 DEF GroupedInv, RequestOK, StageOK
<1>3. r \notin Streaming
  BY <1>1 DEF Streaming
<1> QED
  BY <1>1, <1>2, <1>3, EndsKeeps

LEMMA EmbedFailsKeeps ==
    ASSUME GroupedInv, NEW r \in Requests, EmbedFails(r)
    PROVE  GroupedInv'
<1> DEFINE s == IF r \in Plain THEN "over" ELSE "closing"
<1>1. /\ run[r] = "embedding" /\ run' = [run EXCEPT ![r] = s] /\ Told(r, Ending("error"))
      /\ UNCHANGED <<slots, permits, worker, results>>
  BY DEF EmbedFails
<1>2. \A w \in WorkersOf(r) : worker[w] = "none"
  BY <1>1 DEF GroupedInv, RequestOK, StageOK
<1>3. r \in Streaming <=> s = "closing"
  BY <1>1 DEF Streaming
<1>4. s \in {"over", "closing"} /\ (s = "closing" => r \notin Plain)
  OBVIOUS
<1> HIDE DEF s
<1> QED
  BY <1>1, <1>2, <1>3, <1>4, EndsKeeps

LEMMA CompleteKeeps ==
    ASSUME GroupedInv, NEW r \in Requests, Complete(r)
    PROVE  GroupedInv'
<1> DEFINE s == IF r \in Plain THEN "over" ELSE "closing"
<1>1. /\ run[r] = "running" /\ run' = [run EXCEPT ![r] = s] /\ Told(r, Ending("complete"))
      /\ UNCHANGED <<slots, permits, worker, results>>
      /\ AllThrough(r) /\ (r \in Plain \/ results[r] = << >>)
  BY DEF Complete
<1>2. \A w \in WorkersOf(r) : worker[w] = "over"
  BY <1>1 DEF AllThrough
<1>3. r \in Streaming <=> s = "closing"
  BY <1>1 DEF Streaming
<1>4. s \in {"over", "closing"} /\ (s = "closing" => r \notin Plain)
  OBVIOUS
<1> HIDE DEF s
<1> QED
  BY <1>1, <1>2, <1>3, <1>4, EndsKeeps

LEMMA Answer503Keeps ==
    ASSUME GroupedInv, NEW r \in Requests, Answer503(r)
    PROVE  GroupedInv'
<1>1. /\ run[r] = "failing" /\ run' = [run EXCEPT ![r] = "over"] /\ Told(r, Ending("error"))
      /\ UNCHANGED <<slots, permits, worker, results>> /\ AllThrough(r)
  BY DEF Answer503
<1>2. \A w \in WorkersOf(r) : worker[w] = "over"
  BY <1>1 DEF AllThrough
<1>3. r \notin Streaming
  BY <1>1 DEF Streaming
<1> QED
  BY <1>1, <1>2, <1>3, EndsKeeps

\* What a request that goes on is told does not change.
LEMMA LinesStay ==
    ASSUME NEW r \in Requests, RequestOK(r), shown'[r] = shown[r], results'[r] = results[r], Done(r)' = Done(r),
           relay[r] = "over" => relay'[r] = "over"
    PROVE  LinesOK(r, shown[r], results[r], Done(r), relay[r] = "over")'
BY DEF RequestOK, LinesOK

LEMMA PostKeeps ==
    ASSUME GroupedInv, NEW r \in Requests, Post(r)
    PROVE  GroupedInv'
<1>1. /\ GroupedTyped /\ LimitsOK /\ RequestOK(r) /\ StageOK(r) /\ HeardOK(r)
      /\ run \in [Requests -> RunStages] /\ relay \in [Requests -> RelayStages]
  BY DEF GroupedInv, RequestOK, GroupedTyped
<1>2. /\ relay[r] = "idle" /\ relay' = [relay EXCEPT ![r] = "reading"] /\ run' = [run EXCEPT ![r] = "asked"]
      /\ UNCHANGED <<slots, permits, worker, results, browser, shown, row>>
  BY DEF Post
<1>3. /\ run' \in [Requests -> RunStages] /\ run'[r] = "asked" /\ \A q \in Requests \ {r} : run'[q] = run[q]
      /\ relay' \in [Requests -> RelayStages] /\ relay'[r] = "reading" /\ \A q \in Requests \ {r} : relay'[q] = relay[q]
  BY <1>1, <1>2 DEF RunStages, RelayStages
<1>4. run[r] = "new" /\ \A w \in WorkersOf(r) : worker[w] = "none"
  BY <1>1, <1>2 DEF StageOK
<1>5. \A q \in Requests \ {r} : Alone(q)
  BY <1>2, <1>3 DEF Alone
<1>6. GroupedTyped'
  BY <1>1, <1>2, <1>3 DEF GroupedTyped
<1>7. LimitsOK'
  <2>1. Streaming' = Streaming
    BY <1>3, <1>4 DEF Streaming
  <2>2. Searching' = Searching
    BY <1>2 DEF Searching
  <2> QED
    BY <1>1, <1>2, <2>1, <2>2, LimitsStay
<1>8. Done(r)' = Done(r) /\ Done(r) = {}
  <2>1. Done(r) = {}
    BY <1>4 DEF Done, WorkersOf
  <2> QED
    BY <1>2, <2>1, DoneStays
<1>9. StageOK(r)'
  BY <1>2, <1>3, <1>4 DEF StageOK
<1>10. HeardOK(r)'
  BY <1>1, <1>2, <1>4, <1>8 DEF HeardOK
<1>11. SavedOK(r)'
  <2>1. ~Saving(r) /\ row[r].saved = "none" /\ \A i \in DOMAIN shown[r] : shown[r][i].type # "complete"
    BY <1>1, <1>4, NothingSaved
  <2>2. ~Saving(r)'
    BY <1>2, <1>3, <2>1 DEF Saving
  <2> QED
    BY <1>2, <2>1, <2>2, SavedLater
<1>12. LinesOK(r, shown[r], results[r], Done(r), relay[r] = "over")'
  BY <1>1, <1>2, <1>8, LinesStay
<1> QED
  BY <1>5, <1>6, <1>7, <1>9, <1>10, <1>11, <1>12, OneMoves DEF RequestOK

\* Leads goes on with a request whose searches have not started.
LEMMA StartsKeeps ==
    ASSUME GroupedInv, NEW r \in Requests, run[r] \in {"asked", "embedding"}, UNCHANGED <<permits, results, relayVars>>,
           NEW s \in {"embedding", "running"}, run' = [run EXCEPT ![r] = s],
           worker' = IF s = "running" THEN FannedOut(r) ELSE worker,
           \/ Streaming' = Streaming /\ slots' = slots
           \/ r \notin Streaming /\ Streaming' = Streaming \cup {r} /\ slots < Slots /\ slots' = slots + 1
    PROVE  GroupedInv'
<1>1. /\ GroupedTyped /\ LimitsOK /\ RequestOK(r) /\ StageOK(r) /\ HeardOK(r)
      /\ run \in [Requests -> RunStages] /\ worker \in [Workers -> WorkerStages]
  BY DEF GroupedInv, RequestOK, GroupedTyped
<1>2. UNCHANGED <<permits, results, relay, browser, shown, row>>
  BY DEF relayVars
<1>3. run' \in [Requests -> RunStages] /\ run'[r] = s /\ \A q \in Requests \ {r} : run'[q] = run[q]
  BY <1>1 DEF RunStages
<1>4. \A w \in WorkersOf(r) : worker[w] = "none"
  BY <1>1 DEF StageOK
<1>5. /\ worker' \in [Workers -> WorkerStages]
      /\ \A w \in Workers \ WorkersOf(r) : worker'[w] = worker[w]
      /\ \A w \in WorkersOf(r) : worker'[w] = IF s = "running" THEN "waiting" ELSE "none"
  <2>1. CASE s = "running"
    <3>1. worker' = [w \in Workers |-> IF w \in WorkersOf(r) THEN "waiting" ELSE worker[w]]
      BY <2>1 DEF FannedOut
    <3> QED
      BY <1>1, <2>1, <3>1, GroupedSizes DEF WorkerStages
  <2>2. CASE s # "running"
    BY <1>1, <1>4, <2>2
  <2> QED
    BY <2>1, <2>2
<1>6. \A q \in Requests \ {r} : \A w \in WorkersOf(q) : worker'[w] = worker[w]
  <2> SUFFICES ASSUME NEW q \in Requests \ {r}, NEW w \in WorkersOf(q) PROVE worker'[w] = worker[w]
    OBVIOUS
  <2>1. w \in Workers /\ w[1] = q
    BY GroupedSizes
  <2>2. w \notin WorkersOf(r)
    BY <2>1, GroupedSizes
  <2> QED
    BY <1>5, <2>1, <2>2
<1>7. \A q \in Requests \ {r} : Alone(q)
  BY <1>2, <1>3, <1>6 DEF Alone
<1>8. GroupedTyped'
  BY <1>1, <1>2, <1>3, <1>5 DEF GroupedTyped
<1>9. LimitsOK'
  <2>1. Searching' = Searching
    <3>1. \A w \in Workers : worker'[w] \in {"searching", "reading", "cancelled"}
                                <=> worker[w] \in {"searching", "reading", "cancelled"}
      <4> SUFFICES ASSUME NEW w \in Workers
                   PROVE  worker'[w] \in {"searching", "reading", "cancelled"}
                                <=> worker[w] \in {"searching", "reading", "cancelled"}
        OBVIOUS
      <4>1. CASE w \in WorkersOf(r)
        BY <1>4, <1>5, <4>1
      <4>2. CASE w \notin WorkersOf(r)
        BY <1>5, <4>2
      <4> QED
        BY <4>1, <4>2
    <3> QED
      BY <3>1 DEF Searching
  <2> QED
    BY <1>1, <1>2, <2>1, LimitsStay, SlotTaken
<1>10. Done(r)' = {} /\ Done(r) = {}
  <2>1. \A c \in Companies[r] : <<r, c>> \in WorkersOf(r)
    BY DEF WorkersOf
  <2> QED
    BY <1>4, <1>5, <2>1 DEF Done
<1>11. relay[r] # "idle"
  BY <1>1 DEF StageOK
<1>12. StageOK(r)'
  BY <1>2, <1>3, <1>5, <1>11 DEF StageOK
<1>13. HeardOK(r)'
  BY <1>1, <1>2, <1>5, <1>10 DEF HeardOK
<1>14. SavedOK(r)'
  <2>1. ~Saving(r) /\ \A i \in DOMAIN shown[r] : shown[r][i].type # "complete"
    BY <1>1, NothingSaved
  <2>2. ~Saving(r)'
    BY <1>2, <2>1 DEF Saving
  <2> QED
    BY <1>2, <2>1, <2>2, SavedLater
<1>15. LinesOK(r, shown[r], results[r], Done(r), relay[r] = "over")'
  BY <1>1, <1>2, <1>10, LinesStay
<1> QED
  BY <1>7, <1>8, <1>9, <1>12, <1>13, <1>14, <1>15, OneMoves DEF RequestOK

LEMMA BeginKeeps ==
    ASSUME GroupedInv, NEW r \in Requests, Begin(r)
    PROVE  GroupedInv'
<1> DEFINE s == IF r \in FilterOnly THEN "running" ELSE "embedding"
<1>1. /\ run[r] = "asked" /\ run' = [run EXCEPT ![r] = s] /\ UNCHANGED <<permits, results, relayVars>>
      /\ worker' = IF s = "running" THEN FannedOut(r) ELSE worker
      /\ r \notin Plain => slots < Slots
      /\ slots' = IF r \in Plain THEN slots ELSE slots + 1
  BY DEF Begin
<1>2. s \in {"running", "embedding"}
  OBVIOUS
<1> HIDE DEF s
<1>3. run \in [Requests -> RunStages]
  BY DEF GroupedInv, GroupedTyped
<1>4. run'[r] = s /\ \A q \in Requests \ {r} : run'[q] = run[q]
  BY <1>1, <1>3
<1>5. r \notin Streaming /\ Streaming' = IF r \in Plain THEN Streaming ELSE Streaming \cup {r}
  BY <1>1, <1>2, <1>4 DEF Streaming
<1>6. \/ Streaming' = Streaming /\ slots' = slots
      \/ r \notin Streaming /\ Streaming' = Streaming \cup {r} /\ slots < Slots /\ slots' = slots + 1
  BY <1>1, <1>5
<1>7. run[r] \in {"asked", "embedding"}
  BY <1>1
<1> QED
  BY <1>1, <1>2, <1>6, <1>7, StartsKeeps

LEMMA EmbedQueryKeeps ==
    ASSUME GroupedInv, NEW r \in Requests, EmbedQuery(r)
    PROVE  GroupedInv'
<1>1. /\ run[r] = "embedding" /\ run' = [run EXCEPT ![r] = "running"] /\ worker' = FannedOut(r)
      /\ UNCHANGED <<slots, permits, results, relayVars>>
  BY DEF EmbedQuery
<1>2. run'[r] = "running" /\ \A q \in Requests \ {r} : run'[q] = run[q]
  BY <1>1 DEF GroupedInv, GroupedTyped
<1>3. Streaming' = Streaming
  BY <1>1, <1>2 DEF Streaming
<1>4. run[r] \in {"asked", "embedding"} /\ slots' = slots /\ UNCHANGED <<permits, results, relayVars>>
  BY <1>1
<1> DEFINE s == "running"
<1>5. s \in {"embedding", "running"} /\ run' = [run EXCEPT ![r] = s]
      /\ worker' = IF s = "running" THEN FannedOut(r) ELSE worker
  BY <1>1
<1> HIDE DEF s
<1> QED
  BY <1>3, <1>4, <1>5, StartsKeeps

LEMMA EmitKeeps ==
    ASSUME GroupedInv, NEW r \in Requests, Emit(r)
    PROVE  GroupedInv'
<1> DEFINE l == Head(results[r])
<1>1. /\ GroupedTyped /\ LimitsOK /\ RequestOK(r) /\ StageOK(r) /\ HeardOK(r)
      /\ LinesOK(r, shown[r], results[r], Done(r), relay[r] = "over")
      /\ results \in [Requests -> Seq(LineType)] /\ shown[r] \in Seq(LineType) /\ results[r] \in Seq(LineType)
  BY DEF GroupedInv, RequestOK, GroupedTyped
<1>2. /\ run[r] = "running" /\ r \notin Plain /\ results[r] # << >> /\ Told(r, l)
      /\ results' = [results EXCEPT ![r] = Tail(@)] /\ UNCHANGED <<slots, permits, run, worker>>
  BY DEF Emit
<1>3. /\ Tail(results[r]) \in Seq(LineType) /\ l \in LineType /\ l.type \in {"group", "item_error"}
      /\ Names(results[r]) = Names(Tail(results[r])) \cup {l.company}
      /\ LinesOK(r, shown[r], Tail(results[r]), Done(r), relay[r] = "over")
      /\ LinesOK(r, shown[r], results[r], Done(r), FALSE)
           => LinesOK(r, Append(shown[r], l), Tail(results[r]), Done(r), FALSE)
  BY <1>1, <1>2, LineTaken
<1> HIDE DEF l
<1>4. /\ browser' = browser /\ row' = row
      /\ relay' \in [Requests -> RelayStages] /\ shown' \in [Requests -> Seq(LineType)]
      /\ \A q \in Requests \ {r} : relay'[q] = relay[q] /\ shown'[q] = shown[q]
      /\ relay'[r] = relay[r]
      /\ shown'[r] = IF relay[r] = "reading" /\ r \in browser THEN Append(shown[r], l) ELSE shown[r]
  BY <1>1, <1>2, <1>3, LineTold
<1>5. /\ results' \in [Requests -> Seq(LineType)] /\ results'[r] = Tail(results[r])
      /\ \A q \in Requests \ {r} : results'[q] = results[q]
  BY <1>1, <1>2, <1>3
<1>6. \A q \in Requests \ {r} : Alone(q)
  BY <1>2, <1>4, <1>5 DEF Alone
<1>7. GroupedTyped'
  BY <1>1, <1>2, <1>4, <1>5 DEF GroupedTyped
<1>8. LimitsOK'
  BY <1>1, <1>2, LimitsStay DEF Streaming, Searching
<1>9. Done(r)' = Done(r)
  BY <1>2, DoneStays
<1>10. StageOK(r)'
  BY <1>1, <1>2, <1>4 DEF StageOK
<1>11. HeardOK(r)'
  <2>1. relay[r] = "reading" => Names(shown'[r]) = Names(shown[r]) \cup {l.company}
    BY <1>1, <1>2, <1>3, <1>4, LineAppended DEF HeardOK
  <2> QED
    BY <1>1, <1>2, <1>3, <1>4, <1>5, <1>9, <2>1 DEF HeardOK
<1>12. SavedOK(r)'
  <2>1. ~Saving(r) /\ \A i \in DOMAIN shown[r] : shown[r][i].type # "complete"
    BY <1>1, <1>2, NothingSaved
  <2>2. ~Saving(r)'
    BY <1>4, <2>1 DEF Saving
  <2>3. \A i \in DOMAIN shown'[r] : shown'[r][i].type # "complete"
    BY <1>1, <1>3, <1>4, <2>1, NotComplete
  <2> QED
    BY <2>2, <2>3, SavedLater
<1>13. LinesOK(r, shown[r], results[r], Done(r), relay[r] = "over")'
  <2>1. CASE relay[r] = "reading"
    <3>1. shown'[r] = Append(shown[r], l)
      BY <1>1, <1>2, <1>4, <2>1 DEF HeardOK
    <3>2. LinesOK(r, shown[r], results[r], Done(r), FALSE)
      BY <1>1, <2>1 DEF LinesOK
    <3>3. LinesOK(r, shown'[r], results'[r], Done(r), FALSE)
      BY <1>3, <1>5, <3>1, <3>2
    <3> QED
      BY <1>9, <3>3 DEF LinesOK
  <2>2. CASE relay[r] # "reading"
    <3>1. shown'[r] = shown[r]
      BY <1>4, <2>2
    <3> QED
      BY <1>3, <1>4, <1>5, <1>9, <3>1 DEF LinesOK
  <2> QED
    BY <2>1, <2>2
<1> QED
  BY <1>6, <1>7, <1>8, <1>10, <1>11, <1>12, <1>13, OneMoves DEF RequestOK

\* What leads does not move.
LEMMA LeadsStay ==
    ASSUME GroupedInv, NEW r \in Requests, UNCHANGED leadsVars,
           relay'[r] = "idle" => relay[r] = "idle"
    PROVE  /\ LimitsOK' /\ StageOK(r)' /\ Done(r)' = Done(r) /\ (AllThrough(r)' <=> AllThrough(r))
           /\ UNCHANGED <<slots, permits, run, worker, results>>
<1>1. UNCHANGED <<slots, permits, run, worker, results>>
  BY DEF leadsVars
<1>2. LimitsOK'
  BY <1>1, LimitsStay DEF Streaming, Searching, GroupedInv
<1>3. StageOK(r)'
  BY <1>1 DEF GroupedInv, RequestOK, StageOK
<1> QED
  BY <1>1, <1>2, <1>3, DoneStays

\* Groups and names, with one more line that is no group.
LEMMA EndingAdds ==
    ASSUME NEW lines \in Seq(LineType), NEW type \in {"complete", "error"}, NEW heard,
           NEW after, after = (IF heard THEN Append(lines, Ending(type)) ELSE lines)
    PROVE  Groups(after) = Groups(lines) /\ Names(lines) \subseteq Names(after)
<1>1. Ending(type) \in LineType /\ Ending(type).type = type
  BY EndingLine
<1> DEFINE l == Ending(type)
<1>2. /\ Names(Append(lines, l)) = Names(lines) \cup {l.company}
      /\ Groups(Append(lines, l)) = Groups(lines) \cup (IF l.type = "group" THEN {l.company} ELSE {})
  <2> HIDE DEF l
  <2> QED
    BY <1>1, LineAppended DEF l
<1>3. l.type # "group"
  BY <1>1
<1> QED
  BY <1>2, <1>3

LEMMA FoundByTyped ==
    ASSUME GroupedTyped, NEW r \in Requests
    PROVE  FoundBy(r) \in SUBSET (Hits \cup {"none"})
<1>1. \A lines \in Seq(LineType) : Groups(lines) \subseteq Hits \cup {"none"}
  <2> SUFFICES ASSUME NEW lines \in Seq(LineType), NEW i \in DOMAIN lines PROVE lines[i].company \in Hits \cup {"none"}
    BY DEF Groups
  <2>1. lines[i] \in LineType
    OBVIOUS
  <2> QED
    BY <2>1 DEF LineType
<1>2. results[r] \in Seq(LineType) /\ shown[r] \in Seq(LineType)
  BY DEF GroupedTyped
<1> QED
  BY <1>1, <1>2 DEF FoundBy

(***************************************************************************)
(* The relay tells an end of its own.                                      *)
(***************************************************************************)
LEMMA RelayEndsKeeps ==
    ASSUME GroupedInv, NEW r \in Requests, NEW type \in {"complete", "error"},
           relay[r] \in {"reading", "saving", "appending"}, relay' = [relay EXCEPT ![r] = "over"],
           shown' = Show(r, Ending(type)), UNCHANGED <<leadsVars, browser>>,
           NEW saved \in GroupRow, row' = [row EXCEPT ![r] = saved],
           IF type = "error" THEN saved = row[r]
           ELSE relay[r] = "appending" /\ saved = [saved |-> "full", hits |-> FoundBy(r)]
    PROVE  GroupedInv'
<1>1. /\ GroupedTyped /\ LimitsOK /\ RequestOK(r) /\ SavedOK(r)
      /\ LinesOK(r, shown[r], results[r], Done(r), relay[r] = "over") /\ shown[r] \in Seq(LineType)
      /\ relay \in [Requests -> RelayStages] /\ row \in [Requests -> GroupRow]
  BY DEF GroupedInv, RequestOK, GroupedTyped
<1>2. /\ relay' \in [Requests -> RelayStages] /\ relay'[r] = "over" /\ \A q \in Requests \ {r} : relay'[q] = relay[q]
      /\ row' \in [Requests -> GroupRow] /\ row'[r] = saved /\ \A q \in Requests \ {r} : row'[q] = row[q]
  BY <1>1 DEF RelayStages
<1>3. Ending(type) \in LineType /\ Ending(type).type = type
  BY EndingLine
<1>4. /\ shown' \in [Requests -> Seq(LineType)] /\ \A q \in Requests \ {r} : shown'[q] = shown[q]
      /\ shown'[r] = IF r \in browser THEN Append(shown[r], Ending(type)) ELSE shown[r]
  BY <1>1, <1>3, LineShown
<1>5. /\ LimitsOK' /\ StageOK(r)' /\ Done(r)' = Done(r) /\ (AllThrough(r)' <=> AllThrough(r))
      /\ UNCHANGED <<slots, permits, run, worker, results>>
  BY <1>2, LeadsStay
<1>6. \A q \in Requests \ {r} : Alone(q)
  BY <1>2, <1>4, <1>5 DEF Alone
<1>7. GroupedTyped'
  BY <1>1, <1>2, <1>4, <1>5 DEF GroupedTyped
<1>8. HeardOK(r)'
  BY <1>2 DEF HeardOK
<1>9. /\ Groups(shown'[r]) = Groups(shown[r]) /\ Names(shown[r]) \subseteq Names(shown'[r])
      /\ FoundBy(r)' = FoundBy(r)
  <2>1. Groups(shown'[r]) = Groups(shown[r]) /\ Names(shown[r]) \subseteq Names(shown'[r])
    BY <1>1, <1>4, EndingAdds
  <2> QED
    BY <1>5, <2>1 DEF FoundBy
<1>10. \A i \in DOMAIN shown[r] : shown[r][i].type # "complete"
  BY <1>1 DEF LinesOK, Terminal
<1>11. SavedOK(r)'
  <2>1. Saving(r)' => Saving(r)
    BY <1>2 DEF Saving
  <2>2. Saving(r)' => /\ run'[r] \in {"closing", "over"} /\ AllThrough(r)'
                      /\ r \notin Plain => Companies[r] \subseteq Names(shown'[r])
    BY <1>1, <1>5, <1>9, <2>1 DEF SavedOK
  <2>3. CASE type = "error"
    <3>1. \A i \in DOMAIN shown'[r] : shown'[r][i].type # "complete"
      BY <1>1, <1>3, <1>4, <1>10, <2>3, NotComplete
    <3> QED
      BY <2>2, <3>1 DEF SavedOK
  <2>4. CASE type = "complete"
    <3>1. row'[r].saved = "full" /\ row'[r].hits = FoundBy(r)'
      BY <1>2, <1>9, <2>4
    <3> QED
      BY <2>2, <3>1 DEF SavedOK
  <2> QED
    BY <2>3, <2>4
<1>12. LinesOK(r, shown[r], results[r], Done(r), relay[r] = "over")'
  <2>1. LinesOK(r, shown[r], results[r], Done(r), FALSE) /\ Done(r) \in SUBSET Companies[r]
    BY <1>1 DEF LinesOK, Done
  <2>2. LinesOK(r, shown'[r], results[r], Done(r), TRUE)
    BY <1>1, <1>4, <2>1, LinesEnd
  <2> QED
    BY <1>2, <1>5, <2>2 DEF LinesOK
<1> QED
  BY <1>5, <1>6, <1>7, <1>8, <1>11, <1>12, OneMoves DEF RequestOK

LEMMA AppendResultsKeeps ==
    ASSUME GroupedInv, NEW r \in Requests, AppendResults(r)
    PROVE  GroupedInv'
<1> DEFINE saved == [saved |-> "full", hits |-> FoundBy(r)]
<1>1. /\ relay' = [relay EXCEPT ![r] = "over"]
      /\ row' = [row EXCEPT ![r] = saved] /\ shown' = Show(r, Ending("complete")) /\ relay[r] = "appending"
      /\ UNCHANGED <<leadsVars, browser>>
  BY DEF AppendResults
<1>2. saved \in GroupRow
  BY FoundByTyped DEF GroupRow, GroupedInv
<1> HIDE DEF saved
<1>3. saved = [saved |-> "full", hits |-> FoundBy(r)]
  BY DEF saved
<1> QED
  BY <1>1, <1>2, <1>3, RelayEndsKeeps

LEMMA ToldError ==
    ASSUME GroupedInv, NEW r \in Requests, relay[r] \in {"reading", "saving", "appending"},
           shown' = Show(r, Ending("error")), relay' = [relay EXCEPT ![r] = "over"], UNCHANGED <<leadsVars, browser, row>>
    PROVE  GroupedInv'
<1>1. row \in [Requests -> GroupRow] /\ row[r] \in GroupRow
  BY DEF GroupedInv, GroupedTyped
<1>2. row' = [row EXCEPT ![r] = row[r]]
  BY <1>1
<1> QED
  BY <1>1, <1>2, RelayEndsKeeps

LEMMA SaveRowKeeps ==
    ASSUME GroupedInv, NEW r \in Requests, SaveRow(r)
    PROVE  GroupedInv'
<1>1. /\ GroupedTyped /\ LimitsOK /\ RequestOK(r) /\ SavedOK(r)
      /\ LinesOK(r, shown[r], results[r], Done(r), relay[r] = "over")
      /\ relay \in [Requests -> RelayStages] /\ row \in [Requests -> GroupRow]
  BY DEF GroupedInv, RequestOK, GroupedTyped
<1>2. /\ relay[r] = "saving" /\ relay' = [relay EXCEPT ![r] = "appending"] /\ UNCHANGED <<leadsVars, browser, shown>>
      /\ row' = [row EXCEPT ![r].saved = "bare"]
  BY DEF SaveRow
<1>3. PICK s \in {"none", "bare", "full"}, h \in SUBSET (Hits \cup {"none"}) : row[r] = [saved |-> s, hits |-> h]
  BY <1>1 DEF GroupRow
<1>4. row'[r] = [saved |-> "bare", hits |-> h] /\ \A q \in Requests \ {r} : row'[q] = row[q]
  BY <1>1, <1>2, <1>3
<1>5. row' \in [Requests -> GroupRow]
  <2>1. row' = [row EXCEPT ![r] = [saved |-> "bare", hits |-> h]]
    <3>1. [row[r] EXCEPT !.saved = "bare"] = [saved |-> "bare", hits |-> h]
      BY <1>3
    <3>2. row' = [row EXCEPT ![r] = [row[r] EXCEPT !.saved = "bare"]]
      BY <1>2
    <3> QED
      BY <3>1, <3>2
  <2>2. [saved |-> "bare", hits |-> h] \in GroupRow
    BY DEF GroupRow
  <2> QED
    BY <1>1, <2>1, <2>2
<1>6. relay' \in [Requests -> RelayStages] /\ relay'[r] = "appending" /\ \A q \in Requests \ {r} : relay'[q] = relay[q]
  BY <1>1, <1>2 DEF RelayStages
<1>7. /\ LimitsOK' /\ StageOK(r)' /\ Done(r)' = Done(r) /\ (AllThrough(r)' <=> AllThrough(r))
      /\ UNCHANGED <<slots, permits, run, worker, results>>
  BY <1>2, <1>6, LeadsStay
<1>8. \A q \in Requests \ {r} : Alone(q)
  BY <1>2, <1>4, <1>6, <1>7 DEF Alone
<1>9. GroupedTyped'
  BY <1>1, <1>2, <1>5, <1>6, <1>7 DEF GroupedTyped
<1>10. HeardOK(r)'
  BY <1>6 DEF HeardOK
<1>11. SavedOK(r)'
  <2>1. \A i \in DOMAIN shown[r] : shown[r][i].type # "complete"
    BY <1>1, <1>2 DEF LinesOK, Terminal
  <2>2. Saving(r)
    BY <1>2 DEF Saving
  <2> QED
    BY <1>1, <1>2, <1>7, <2>1, <2>2 DEF SavedOK
<1>12. LinesOK(r, shown[r], results[r], Done(r), relay[r] = "over")'
  BY <1>1, <1>2, <1>7, LinesStay
<1> QED
  BY <1>7, <1>8, <1>9, <1>10, <1>11, <1>12, OneMoves DEF RequestOK

LEMMA BrowserLeavesKeeps ==
    ASSUME GroupedInv, NEW r \in Requests, BrowserLeaves(r)
    PROVE  GroupedInv'
<1>1. /\ GroupedTyped /\ LimitsOK /\ RequestOK(r) /\ SavedOK(r) /\ HeardOK(r)
      /\ relay \in [Requests -> RelayStages] /\ browser \subseteq Requests
  BY DEF GroupedInv, RequestOK, GroupedTyped
<1>2. /\ relay[r] \notin {"idle", "over"} /\ browser' = browser \ {r} /\ UNCHANGED <<leadsVars, shown, row>>
      /\ relay' = IF relay[r] = "reading" /\ r \notin Plain THEN [relay EXCEPT ![r] = "over"] ELSE relay
  BY DEF BrowserLeaves, Listening
<1>3. /\ relay' \in [Requests -> RelayStages] /\ \A q \in Requests \ {r} : relay'[q] = relay[q]
      /\ relay'[r] = IF relay[r] = "reading" /\ r \notin Plain THEN "over" ELSE relay[r]
  BY <1>1, <1>2 DEF RelayStages
<1>4. /\ LimitsOK' /\ StageOK(r)' /\ Done(r)' = Done(r) /\ (AllThrough(r)' <=> AllThrough(r))
      /\ UNCHANGED <<slots, permits, run, worker, results>>
  BY <1>2, <1>3, LeadsStay
<1>5. \A q \in Requests \ {r} : Alone(q)
  BY <1>2, <1>3, <1>4 DEF Alone
<1>6. GroupedTyped'
  BY <1>1, <1>2, <1>3, <1>4 DEF GroupedTyped
<1>7. HeardOK(r)'
  BY <1>2, <1>3 DEF HeardOK
<1>8. SavedOK(r)'
  <2>1. Saving(r)' => Saving(r)
    BY <1>2, <1>3 DEF Saving
  <2>2. FoundBy(r)' = FoundBy(r)
    BY <1>2, <1>4 DEF FoundBy
  <2> QED
    BY <1>1, <1>2, <1>4, <2>1, <2>2 DEF SavedOK
<1>9. LinesOK(r, shown[r], results[r], Done(r), relay[r] = "over")'
  BY <1>1, <1>2, <1>4, LinesStay
<1> QED
  BY <1>4, <1>5, <1>6, <1>7, <1>8, <1>9, OneMoves DEF RequestOK

(***************************************************************************)
(* A stream whose reader hung up.                                          *)
(***************************************************************************)
LEMMA CancelledWorkersAre ==
    ASSUME worker \in [Workers -> WorkerStages], NEW S \in SUBSET Workers
    PROVE  /\ CancelledWorkers(S) \in [Workers -> WorkerStages]
           /\ \A w \in Workers \ S : CancelledWorkers(S)[w] = worker[w]
           /\ \A w \in S : /\ CancelledWorkers(S)[w] \in {"none", "cancelled", "over"}
                           /\ CancelledWorkers(S)[w] = "cancelled"
                                 <=> worker[w] \in {"searching", "reading", "cancelled"}
           /\ \A w \in S : worker[w] \in {"none", "over"} => CancelledWorkers(S)[w] = worker[w]
<1>1. CancelledWorkers(S) =
          [w \in Workers |->
              IF w \notin S \/ worker[w] \in {"none", "over"} THEN worker[w]
              ELSE IF worker[w] = "waiting" THEN "over" ELSE "cancelled"]
  BY DEF CancelledWorkers
<1>2. \A w \in Workers : worker[w] \in WorkerStages
  OBVIOUS
<1>3. CancelledWorkers(S) \in [Workers -> WorkerStages]
  BY <1>1, <1>2 DEF WorkerStages
<1>4. \A w \in Workers \ S : CancelledWorkers(S)[w] = worker[w]
  BY <1>1
<1>5. \A w \in S : /\ CancelledWorkers(S)[w] \in {"none", "cancelled", "over"}
                   /\ CancelledWorkers(S)[w] = "cancelled" <=> worker[w] \in {"searching", "reading", "cancelled"}
  BY <1>1, <1>2 DEF WorkerStages
<1>6. \A w \in S : worker[w] \in {"none", "over"} => CancelledWorkers(S)[w] = worker[w]
  BY <1>1
<1> QED
  BY <1>3, <1>4, <1>5, <1>6

LEMMA HangUpKeeps ==
    ASSUME GroupedInv, NEW r \in Requests, HangUp(r)
    PROVE  GroupedInv'
<1>1. /\ GroupedTyped /\ LimitsOK /\ RequestOK(r) /\ StageOK(r) /\ HeardOK(r)
      /\ LinesOK(r, shown[r], results[r], Done(r), relay[r] = "over")
      /\ run \in [Requests -> RunStages] /\ worker \in [Workers -> WorkerStages]
  BY DEF GroupedInv, RequestOK, GroupedTyped
<1>2. /\ r \notin Plain /\ relay[r] # "reading" /\ run[r] \in {"embedding", "running"}
      /\ run' = [run EXCEPT ![r] = "closing"] /\ worker' = CancelledWorkers(WorkersOf(r))
      /\ UNCHANGED <<slots, permits, results, relay, browser, shown, row>>
  BY DEF HangUp, Listening, relayVars
<1>3. run' \in [Requests -> RunStages] /\ run'[r] = "closing" /\ \A q \in Requests \ {r} : run'[q] = run[q]
  BY <1>1, <1>2 DEF RunStages
<1>4. /\ worker' \in [Workers -> WorkerStages] /\ \A w \in Workers \ WorkersOf(r) : worker'[w] = worker[w]
      /\ \A w \in WorkersOf(r) : /\ worker'[w] \in {"none", "cancelled", "over"}
                                 /\ worker'[w] = "cancelled" <=> worker[w] \in {"searching", "reading", "cancelled"}
      /\ \A w \in WorkersOf(r) : worker[w] \in {"none", "over"} => worker'[w] = worker[w]
  <2>1. WorkersOf(r) \in SUBSET Workers
    BY GroupedSizes
  <2> QED
    BY <1>1, <1>2, <2>1, CancelledWorkersAre
<1>5. \A q \in Requests \ {r} : \A w \in WorkersOf(q) : worker'[w] = worker[w]
  <2> SUFFICES ASSUME NEW q \in Requests \ {r}, NEW w \in WorkersOf(q) PROVE worker'[w] = worker[w]
    OBVIOUS
  <2>1. w \in Workers /\ w[1] = q
    BY GroupedSizes
  <2>2. w \notin WorkersOf(r)
    BY <2>1, GroupedSizes
  <2> QED
    BY <1>4, <2>1, <2>2
<1>6. \A q \in Requests \ {r} : Alone(q)
  BY <1>2, <1>3, <1>5 DEF Alone
<1>7. GroupedTyped'
  BY <1>1, <1>2, <1>3, <1>4 DEF GroupedTyped
<1>8. LimitsOK'
  <2>1. Streaming' = Streaming
    BY <1>2, <1>3 DEF Streaming
  <2>2. \A w \in Workers : worker'[w] \in {"searching", "reading", "cancelled"}
                              <=> worker[w] \in {"searching", "reading", "cancelled"}
    <3> SUFFICES ASSUME NEW w \in Workers
                 PROVE  worker'[w] \in {"searching", "reading", "cancelled"}
                              <=> worker[w] \in {"searching", "reading", "cancelled"}
      OBVIOUS
    <3>1. CASE w \in WorkersOf(r)
      BY <1>4, <3>1
    <3>2. CASE w \notin WorkersOf(r)
      BY <1>4, <3>2
    <3> QED
      BY <3>1, <3>2
  <2>3. Searching' = Searching
    BY <2>2 DEF Searching
  <2> QED
    BY <1>1, <1>2, <2>1, <2>3, LimitsStay
<1>9. Done(r) \subseteq Done(r)'
  <2>1. \A c \in Companies[r] : <<r, c>> \in WorkersOf(r)
    BY DEF WorkersOf
  <2> QED
    BY <1>4, <2>1 DEF Done
<1>10. relay[r] # "idle"
  BY <1>1, <1>2 DEF StageOK
<1>11. StageOK(r)'
  BY <1>2, <1>3, <1>4, <1>10 DEF StageOK
<1>12. HeardOK(r)'
  BY <1>2, <1>10 DEF HeardOK
<1>13. SavedOK(r)'
  <2>1. ~Saving(r) /\ \A i \in DOMAIN shown[r] : shown[r][i].type # "complete"
    BY <1>1, <1>2, NothingSaved
  <2>2. ~Saving(r)'
    BY <1>2, <2>1 DEF Saving
  <2> QED
    BY <1>2, <2>1, <2>2, SavedLater
<1>14. LinesOK(r, shown[r], results[r], Done(r), relay[r] = "over")'
  <2>1. LinesOK(r, shown[r], results[r], Done(r)', relay[r] = "over")
    BY <1>1, <1>9 DEF LinesOK
  <2> QED
    BY <1>2, <2>1 DEF LinesOK
<1> QED
  BY <1>6, <1>7, <1>8, <1>11, <1>12, <1>13, <1>14, OneMoves DEF RequestOK

LEMMA CloseStreamKeeps ==
    ASSUME GroupedInv, NEW r \in Requests, CloseStream(r)
    PROVE  GroupedInv'
<1>1. /\ GroupedTyped /\ LimitsOK /\ RequestOK(r) /\ StageOK(r) /\ HeardOK(r) /\ SavedOK(r)
      /\ run \in [Requests -> RunStages]
  BY DEF GroupedInv, RequestOK, GroupedTyped
<1>2. /\ run[r] = "closing" /\ run' = [run EXCEPT ![r] = "over"] /\ slots' = slots - 1
      /\ UNCHANGED <<permits, worker, results, relay, browser, shown, row>>
  BY DEF CloseStream, relayVars
<1>3. run' \in [Requests -> RunStages] /\ run'[r] = "over" /\ \A q \in Requests \ {r} : run'[q] = run[q]
  BY <1>1, <1>2 DEF RunStages
<1>4. \A q \in Requests \ {r} : Alone(q)
  BY <1>2, <1>3 DEF Alone
<1>5. GroupedTyped'
  BY <1>1, <1>2, <1>3 DEF GroupedTyped
<1>6. r \notin Plain
  BY <1>1, <1>2 DEF StageOK
<1>7. LimitsOK'
  <2>1. r \in Streaming /\ Streaming' = Streaming \ {r}
    BY <1>2, <1>3, <1>6 DEF Streaming
  <2>2. Searching' = Searching
    BY <1>2 DEF Searching
  <2> QED
    BY <1>1, <1>2, <2>1, <2>2, SlotBack
<1>8. Done(r)' = Done(r) /\ (AllThrough(r)' <=> AllThrough(r))
  BY <1>2, DoneStays
<1>9. StageOK(r)'
  BY <1>1, <1>2, <1>3 DEF StageOK
<1>10. HeardOK(r)'
  BY <1>1, <1>2, <1>8 DEF HeardOK
<1>11. SavedOK(r)'
  BY <1>1, <1>2, <1>3, <1>8 DEF SavedOK, Saving, FoundBy
<1>12. LinesOK(r, shown[r], results[r], Done(r), relay[r] = "over")'
  BY <1>1, <1>2, <1>8, LinesStay
<1> QED
  BY <1>4, <1>5, <1>7, <1>9, <1>10, <1>11, <1>12, OneMoves DEF RequestOK

(***************************************************************************)
(* The searches.                                                           *)
(***************************************************************************)
LEMMA WorkerIs ==
    ASSUME GroupedInv, NEW w \in Workers
    PROVE  /\ w[1] \in Requests /\ w \in WorkersOf(w[1]) /\ w[2] \in Companies[w[1]] /\ w = <<w[1], w[2]>>
           /\ worker[w] \in {"waiting", "searching", "reading"} => run[w[1]] = "running"
           /\ worker[w] # "over" => ~AllThrough(w[1]) /\ w[2] \notin Done(w[1])
<1>1. PICK r \in Requests : \E c \in Companies[r] : w = <<r, c>> /\ w \in WorkersOf(r)
  BY GroupedSizes
<1>2. PICK c \in Companies[r] : w = <<r, c>> /\ w \in WorkersOf(r)
  BY <1>1
<1>3. w[1] = r /\ w[2] = c
  BY <1>2
<1>4. StageOK(r) /\ run[r] \in RunStages
  BY DEF GroupedInv, RequestOK, GroupedTyped
<1>5. worker[w] \in {"waiting", "searching", "reading"} => run[r] = "running"
  BY <1>2, <1>4 DEF StageOK, RunStages
<1>6. worker[w] # "over" => ~AllThrough(r) /\ c \notin Done(r)
  BY <1>2 DEF AllThrough, Done
<1> QED
  BY <1>2, <1>3, <1>5, <1>6

\* One search moves; those of other requests do not.
LEMMA OneWorker ==
    ASSUME GroupedInv, NEW w \in Workers, NEW s \in WorkerStages, worker' = [worker EXCEPT ![w] = s]
    PROVE  /\ worker' \in [Workers -> WorkerStages] /\ worker'[w] = s /\ \A v \in Workers \ {w} : worker'[v] = worker[v]
           /\ \A q \in Requests \ {w[1]} : \A v \in WorkersOf(q) : worker'[v] = worker[v]
           /\ s # "over" /\ worker[w] # "over" => Done(w[1])' = Done(w[1])
           /\ s = "over" => Done(w[1])' = Done(w[1]) \cup {w[2]}
<1>1. worker \in [Workers -> WorkerStages]
  BY DEF GroupedInv, GroupedTyped
<1>2. worker' \in [Workers -> WorkerStages] /\ worker'[w] = s /\ \A v \in Workers \ {w} : worker'[v] = worker[v]
  BY <1>1
<1>3. \A q \in Requests \ {w[1]} : \A v \in WorkersOf(q) : worker'[v] = worker[v]
  <2> SUFFICES ASSUME NEW q \in Requests \ {w[1]}, NEW v \in WorkersOf(q) PROVE worker'[v] = worker[v]
    OBVIOUS
  <2>1. v \in Workers /\ v[1] = q
    BY GroupedSizes
  <2> QED
    BY <1>2, <2>1
<1>4. \A c \in Companies[w[1]] : /\ <<w[1], c>> \in Workers /\ (<<w[1], c>> = w <=> c = w[2])
  <2>1. w[1] \in Requests /\ w = <<w[1], w[2]>>
    BY WorkerIs
  <2> SUFFICES ASSUME NEW c \in Companies[w[1]] PROVE <<w[1], c>> \in Workers /\ (<<w[1], c>> = w <=> c = w[2])
    OBVIOUS
  <2>2. <<w[1], c>> \in WorkersOf(w[1])
    BY DEF WorkersOf
  <2> QED
    BY <2>1, <2>2, GroupedSizes
<1>5. w[2] \in Companies[w[1]]
  BY WorkerIs
<1>6. s # "over" /\ worker[w] # "over" => Done(w[1])' = Done(w[1])
  BY <1>2, <1>4 DEF Done
<1>7. s = "over" => Done(w[1])' = Done(w[1]) \cup {w[2]}
  BY <1>2, <1>4, <1>5 DEF Done
<1> QED
  BY <1>2, <1>3, <1>6, <1>7

LEMMA SearchMovesKeeps ==
    ASSUME GroupedInv, NEW w \in Workers, worker[w] \in {"waiting", "searching"}, NEW s \in {"searching", "reading"},
           worker' = [worker EXCEPT ![w] = s], UNCHANGED <<run, results, relayVars>>, LimitsOK'
    PROVE  GroupedInv'
<1> DEFINE r == w[1]
<1>1. /\ r \in Requests /\ w \in WorkersOf(r) /\ run[r] = "running" /\ ~AllThrough(r)
  BY WorkerIs
<1>2. /\ worker' \in [Workers -> WorkerStages] /\ worker'[w] = s /\ \A v \in Workers \ {w} : worker'[v] = worker[v]
      /\ \A q \in Requests \ {r} : \A v \in WorkersOf(q) : worker'[v] = worker[v]
      /\ Done(r)' = Done(r)
  BY OneWorker DEF WorkerStages
<1> HIDE DEF r
<1>3. UNCHANGED <<relay, browser, shown, row>>
  BY DEF relayVars
<1>4. GroupedTyped /\ RequestOK(r) /\ StageOK(r) /\ HeardOK(r)
  BY <1>1 DEF GroupedInv, RequestOK
<1>5. \A q \in Requests \ {r} : Alone(q)
  BY <1>2, <1>3 DEF Alone
<1>6. GroupedTyped'
  BY <1>2, <1>3, <1>4 DEF GroupedTyped
<1>7. \A v \in WorkersOf(r) : v \in Workers /\ (worker'[v] = worker[v] \/ worker'[v] \in {"searching", "reading"})
  BY <1>1, <1>2, GroupedSizes
<1>8. StageOK(r)'
  BY <1>1, <1>3, <1>4, <1>7 DEF StageOK
<1>9. HeardOK(r)'
  BY <1>2, <1>3, <1>4, <1>7 DEF HeardOK
<1>10. SavedOK(r)'
  <2>1. ~Saving(r) /\ \A i \in DOMAIN shown[r] : shown[r][i].type # "complete"
    BY <1>1, <1>4, NothingSaved
  <2>2. ~Saving(r)'
    BY <1>3, <2>1 DEF Saving
  <2> QED
    BY <1>1, <1>3, <2>1, <2>2, SavedLater
<1>11. LinesOK(r, shown[r], results[r], Done(r), relay[r] = "over")'
  BY <1>1, <1>2, <1>3, <1>4, LinesStay
<1> QED
  BY <1>1, <1>5, <1>6, <1>8, <1>9, <1>10, <1>11, OneMoves DEF RequestOK

LEMMA TakePermitKeeps ==
    ASSUME GroupedInv, NEW w \in Workers, TakePermit(w)
    PROVE  GroupedInv'
<1> DEFINE s == IF w[1] \in FilterOnly THEN "reading" ELSE "searching"
<1>1. /\ worker[w] = "waiting" /\ permits > 0 /\ permits' = permits - 1 /\ worker' = [worker EXCEPT ![w] = s]
      /\ UNCHANGED <<slots, run, results, relayVars>>
  BY DEF TakePermit
<1>2. s \in {"searching", "reading"}
  OBVIOUS
<1> HIDE DEF s
<1>3. worker'[w] = s /\ \A v \in Workers \ {w} : worker'[v] = worker[v]
  BY <1>1, <1>2, OneWorker DEF WorkerStages
<1>4. LimitsOK'
  <2>1. w \notin Searching /\ Searching' = Searching \cup {w}
    BY <1>1, <1>2, <1>3 DEF Searching
  <2>2. Streaming' = Streaming
    BY <1>1 DEF Streaming
  <2> QED
    BY <1>1, <2>1, <2>2, PermitTaken DEF GroupedInv
<1> QED
  BY <1>1, <1>2, <1>4, SearchMovesKeeps

LEMMA RankedKeeps ==
    ASSUME GroupedInv, NEW w \in Workers, Ranked(w)
    PROVE  GroupedInv'
<1>1. /\ worker[w] = "searching" /\ worker' = [worker EXCEPT ![w] = "reading"]
      /\ UNCHANGED <<slots, permits, run, results, relayVars>>
  BY DEF Ranked
<1>2. worker'[w] = "reading" /\ \A v \in Workers \ {w} : worker'[v] = worker[v]
  BY <1>1, OneWorker DEF WorkerStages
<1>3. LimitsOK'
  <2>1. Searching' = Searching
    BY <1>1, <1>2 DEF Searching
  <2>2. Streaming' = Streaming
    BY <1>1 DEF Streaming
  <2> QED
    BY <1>1, <2>1, <2>2, LimitsStay DEF GroupedInv
<1> QED
  BY <1>1, <1>3, SearchMovesKeeps

LEMMA ThroughKeeps ==
    ASSUME GroupedInv, NEW w \in Workers, worker[w] \in {"searching", "reading"}, NEW type \in {"group", "item_error"},
           Through(w, Line(type, w[2]))
    PROVE  GroupedInv'
<1> DEFINE r == w[1]
           l == Line(type, w[2])
<1>1. /\ r \in Requests /\ w \in WorkersOf(r) /\ w[2] \in Companies[r] /\ run[r] = "running" /\ ~AllThrough(r)
      /\ w[2] \notin Done(r)
  BY WorkerIs
<1>2. /\ worker' = [worker EXCEPT ![w] = "over"] /\ permits' = permits + 1
      /\ results' = [results EXCEPT ![r] = Append(results[r], l)] /\ UNCHANGED <<slots, run, relay, browser, shown, row>>
  BY DEF Through, relayVars
<1>3. /\ worker' \in [Workers -> WorkerStages] /\ worker'[w] = "over"
      /\ \A v \in Workers \ {w} : worker'[v] = worker[v]
      /\ \A q \in Requests \ {r} : \A v \in WorkersOf(q) : worker'[v] = worker[v]
      /\ Done(r)' = Done(r) \cup {w[2]}
  BY <1>2, OneWorker DEF WorkerStages
<1>4. l \in LineType /\ l.company = w[2]
  BY <1>1, GroupedSizes DEF Line, LineType
<1> HIDE DEF r
<1>5. /\ GroupedTyped /\ LimitsOK /\ RequestOK(r) /\ StageOK(r) /\ HeardOK(r)
      /\ LinesOK(r, shown[r], results[r], Done(r), relay[r] = "over")
      /\ results \in [Requests -> Seq(LineType)] /\ results[r] \in Seq(LineType)
  BY <1>1 DEF GroupedInv, RequestOK, GroupedTyped
<1>6. /\ Append(results[r], l) \in Seq(LineType)
      /\ Names(Append(results[r], l)) = Names(results[r]) \cup {w[2]}
  <2> HIDE DEF l
  <2> QED
    BY <1>4, <1>5, LineAppended
<1>7. /\ results' \in [Requests -> Seq(LineType)] /\ results'[r] = Append(results[r], l)
      /\ \A q \in Requests \ {r} : results'[q] = results[q]
  BY <1>1, <1>2, <1>5, <1>6
<1>8. \A q \in Requests \ {r} : Alone(q)
  BY <1>2, <1>3, <1>7 DEF Alone
<1>9. GroupedTyped'
  BY <1>2, <1>3, <1>5, <1>7 DEF GroupedTyped
<1>10. LimitsOK'
  <2>1. w \in Searching /\ Searching' = Searching \ {w}
    BY <1>3 DEF Searching
  <2>2. Streaming' = Streaming
    BY <1>2 DEF Streaming
  <2> QED
    BY <1>2, <1>5, <2>1, <2>2, PermitBack
<1>11. \A v \in WorkersOf(r) : v \in Workers /\ (worker'[v] = worker[v] \/ worker'[v] = "over")
  BY <1>3, GroupedSizes, <1>1
<1>12. StageOK(r)'
  BY <1>1, <1>2, <1>5, <1>11 DEF StageOK
<1>13. HeardOK(r)'
  <2>1. relay[r] = "reading" /\ r \notin Plain => Done(r)' \subseteq Names(shown'[r]) \cup Names(results'[r])
    BY <1>2, <1>3, <1>5, <1>6, <1>7 DEF HeardOK
  <2> QED
    BY <1>2, <1>5, <1>11, <2>1 DEF HeardOK
<1>14. SavedOK(r)'
  <2>1. ~Saving(r) /\ \A i \in DOMAIN shown[r] : shown[r][i].type # "complete"
    BY <1>1, <1>5, NothingSaved
  <2>2. ~Saving(r)'
    BY <1>2, <2>1 DEF Saving
  <2> QED
    BY <1>1, <1>2, <2>1, <2>2, SavedLater
<1>15. LinesOK(r, shown[r], results[r], Done(r), relay[r] = "over")'
  <2>1. LinesOK(r, shown[r], Append(results[r], l), Done(r) \cup {w[2]}, relay[r] = "over")
    <3>1. Done(r) \in SUBSET Companies[r] /\ w[2] \in Companies[r] \ Done(r)
      BY <1>1 DEF Done
    <3> QED
      BY <1>1, <1>5, <3>1, LineFound
  <2> QED
    BY <1>2, <1>3, <1>7, <2>1 DEF LinesOK
<1> QED
  BY <1>1, <1>8, <1>9, <1>10, <1>12, <1>13, <1>14, <1>15, OneMoves DEF RequestOK

LEMMA UnwindKeeps ==
    ASSUME GroupedInv, NEW w \in Workers, Unwind(w)
    PROVE  GroupedInv'
<1> DEFINE r == w[1]
<1>1. /\ worker[w] = "cancelled" /\ worker' = [worker EXCEPT ![w] = "over"] /\ permits' = permits + 1
      /\ UNCHANGED <<slots, run, results, relay, browser, shown, row>>
  BY DEF Unwind, relayVars
<1>2. r \in Requests /\ w \in WorkersOf(r) /\ ~AllThrough(r)
  BY <1>1, WorkerIs
<1>3. /\ worker' \in [Workers -> WorkerStages] /\ worker'[w] = "over"
      /\ \A v \in Workers \ {w} : worker'[v] = worker[v]
      /\ \A q \in Requests \ {r} : \A v \in WorkersOf(q) : worker'[v] = worker[v]
      /\ Done(r)' = Done(r) \cup {w[2]}
  BY <1>1, OneWorker DEF WorkerStages
<1> HIDE DEF r
<1>4. /\ GroupedTyped /\ LimitsOK /\ RequestOK(r) /\ StageOK(r) /\ HeardOK(r)
      /\ LinesOK(r, shown[r], results[r], Done(r), relay[r] = "over")
  BY <1>2 DEF GroupedInv, RequestOK
<1>5. \A q \in Requests \ {r} : Alone(q)
  BY <1>1, <1>3 DEF Alone
<1>6. GroupedTyped'
  BY <1>1, <1>3, <1>4 DEF GroupedTyped
<1>7. LimitsOK'
  <2>1. w \in Searching /\ Searching' = Searching \ {w}
    BY <1>1, <1>3 DEF Searching
  <2>2. Streaming' = Streaming
    BY <1>1 DEF Streaming
  <2> QED
    BY <1>1, <1>4, <2>1, <2>2, PermitBack
<1>8. \A v \in WorkersOf(r) : v \in Workers /\ (worker'[v] = worker[v] \/ worker'[v] = "over")
  BY <1>2, <1>3, GroupedSizes
<1>9. run[r] \notin {"new", "asked", "embedding", "running"}
  BY <1>1, <1>2, <1>4 DEF StageOK
<1>10. StageOK(r)'
  BY <1>1, <1>4, <1>8, <1>9 DEF StageOK
<1>11. HeardOK(r)'
  <2>1. r \notin Plain => relay[r] # "reading"
    BY <1>1, <1>2, <1>4 DEF HeardOK
  <2> QED
    BY <1>1, <1>4, <2>1 DEF HeardOK
<1>12. SavedOK(r)'
  <2>1. ~Saving(r) /\ \A i \in DOMAIN shown[r] : shown[r][i].type # "complete"
    BY <1>2, <1>4, NothingSaved
  <2>2. ~Saving(r)'
    BY <1>1, <2>1 DEF Saving
  <2> QED
    BY <1>1, <1>2, <2>1, <2>2, SavedLater
<1>13. LinesOK(r, shown[r], results[r], Done(r), relay[r] = "over")'
  <2>1. LinesOK(r, shown[r], results[r], Done(r)', relay[r] = "over")
    BY <1>3, <1>4 DEF LinesOK
  <2> QED
    BY <1>1, <2>1 DEF LinesOK
<1> QED
  BY <1>2, <1>5, <1>6, <1>7, <1>10, <1>11, <1>12, <1>13, OneMoves DEF RequestOK

LEMMA GiveUpKeeps ==
    ASSUME GroupedInv, NEW w \in Workers, w[1] \in Plain, worker[w] \in {"searching", "reading"}, GiveUp(w)
    PROVE  GroupedInv'
<1> DEFINE r == w[1]
           all == CancelledWorkers(WorkersOf(r))
<1>1. /\ r \in Requests /\ w \in WorkersOf(r) /\ run[r] = "running" /\ ~AllThrough(r) /\ r \in Plain
  BY WorkerIs
<1>2. /\ run' = [run EXCEPT ![r] = "failing"] /\ worker' = [all EXCEPT ![w] = "over"] /\ permits' = permits + 1
      /\ UNCHANGED <<slots, results, relay, browser, shown, row>>
  BY DEF GiveUp, relayVars
<1> HIDE DEF r
<1>3. /\ GroupedTyped /\ LimitsOK /\ RequestOK(r) /\ StageOK(r) /\ HeardOK(r)
      /\ LinesOK(r, shown[r], results[r], Done(r), relay[r] = "over")
      /\ run \in [Requests -> RunStages] /\ worker \in [Workers -> WorkerStages]
  BY <1>1 DEF GroupedInv, RequestOK, GroupedTyped
<1>4. /\ all \in [Workers -> WorkerStages] /\ \A v \in Workers \ WorkersOf(r) : all[v] = worker[v]
      /\ \A v \in WorkersOf(r) : /\ all[v] \in {"none", "cancelled", "over"}
                                 /\ all[v] = "cancelled" <=> worker[v] \in {"searching", "reading", "cancelled"}
      /\ \A v \in WorkersOf(r) : worker[v] \in {"none", "over"} => all[v] = worker[v]
      /\ WorkersOf(r) \subseteq Workers
  <2>1. WorkersOf(r) \in SUBSET Workers
    BY <1>1, GroupedSizes
  <2> QED
    BY <1>3, <2>1, CancelledWorkersAre
<1> HIDE DEF all
<1>5. /\ worker' \in [Workers -> WorkerStages] /\ worker'[w] = "over" /\ \A v \in Workers \ {w} : worker'[v] = all[v]
  BY <1>2, <1>4 DEF WorkerStages
<1>6. run' \in [Requests -> RunStages] /\ run'[r] = "failing" /\ \A q \in Requests \ {r} : run'[q] = run[q]
  BY <1>1, <1>2, <1>3 DEF RunStages
<1>7. \A q \in Requests \ {r} : \A v \in WorkersOf(q) : worker'[v] = worker[v]
  <2> SUFFICES ASSUME NEW q \in Requests \ {r}, NEW v \in WorkersOf(q) PROVE worker'[v] = worker[v]
    OBVIOUS
  <2>1. v \in Workers /\ v[1] = q
    BY GroupedSizes
  <2>2. v \notin WorkersOf(r)
    BY <1>1, <2>1, GroupedSizes
  <2> QED
    BY <1>1, <1>4, <1>5, <2>1, <2>2
<1>8. \A q \in Requests \ {r} : Alone(q)
  BY <1>2, <1>6, <1>7 DEF Alone
<1>9. GroupedTyped'
  BY <1>2, <1>3, <1>5, <1>6 DEF GroupedTyped
<1>10. LimitsOK'
  <2>1. Streaming' = Streaming
    BY <1>1, <1>6 DEF Streaming
  <2>2. w \in Searching
    BY DEF Searching
  <2>3. \A v \in Workers \ {w} : worker'[v] \in {"searching", "reading", "cancelled"}
                              <=> worker[v] \in {"searching", "reading", "cancelled"}
    <3> SUFFICES ASSUME NEW v \in Workers \ {w}
                 PROVE  worker'[v] \in {"searching", "reading", "cancelled"}
                              <=> worker[v] \in {"searching", "reading", "cancelled"}
      OBVIOUS
    <3>1. CASE v \in WorkersOf(r)
      BY <1>4, <1>5, <3>1
    <3>2. CASE v \notin WorkersOf(r)
      BY <1>4, <1>5, <3>2
    <3> QED
      BY <3>1, <3>2
  <2>4. Searching' = Searching \ {w}
    BY <1>5, <2>3 DEF Searching
  <2> QED
    BY <1>2, <1>3, <2>1, <2>2, <2>4, PermitBack
<1>11. Done(r) \subseteq Done(r)'
  <2>1. \A c \in Companies[r] : <<r, c>> \in WorkersOf(r)
    BY DEF WorkersOf
  <2>2. \A v \in WorkersOf(r) : worker[v] = "over" => worker'[v] = "over"
    BY <1>4, <1>5
  <2> QED
    BY <2>1, <2>2 DEF Done
<1>12. StageOK(r)'
  <2>1. \A v \in WorkersOf(r) : worker'[v] \in {"none", "cancelled", "over"}
    BY <1>4, <1>5
  <2> QED
    BY <1>1, <1>2, <1>3, <1>6, <2>1 DEF StageOK
<1>13. HeardOK(r)'
  BY <1>1 DEF HeardOK
<1>14. SavedOK(r)'
  <2>1. ~Saving(r) /\ \A i \in DOMAIN shown[r] : shown[r][i].type # "complete"
    BY <1>1, <1>3, NothingSaved
  <2>2. ~Saving(r)'
    BY <1>2, <2>1 DEF Saving
  <2> QED
    BY <1>1, <1>2, <2>1, <2>2, SavedLater
<1>15. LinesOK(r, shown[r], results[r], Done(r), relay[r] = "over")'
  <2>1. LinesOK(r, shown[r], results[r], Done(r)', relay[r] = "over")
    BY <1>3, <1>11 DEF LinesOK
  <2> QED
    BY <1>2, <2>1 DEF LinesOK
<1> QED
  BY <1>1, <1>8, <1>9, <1>10, <1>12, <1>13, <1>14, <1>15, OneMoves DEF RequestOK

LEMMA GroupedInit_Inv == GroupedInit => GroupedInv
<1> SUFFICES ASSUME GroupedInit PROVE GroupedInv
  OBVIOUS
<1>1. /\ slots = 0 /\ permits = Fanout /\ run = [r \in Requests |-> "new"] /\ worker = [w \in Workers |-> "none"]
      /\ results = [r \in Requests |-> << >>] /\ relay = [r \in Requests |-> "idle"] /\ browser = Requests
      /\ shown = [r \in Requests |-> << >>] /\ row = [r \in Requests |-> [saved |-> "none", hits |-> {}]]
  BY DEF GroupedInit
<1>2. GroupedTyped
  <2>1. << >> \in Seq(LineType) /\ [saved |-> "none", hits |-> {}] \in GroupRow
    BY DEF GroupRow
  <2> QED
    BY <1>1, <2>1 DEF GroupedTyped, RunStages, WorkerStages, RelayStages
<1>3. LimitsOK
  <2>1. Streaming = {} /\ Searching = {}
    BY <1>1 DEF Streaming, Searching
  <2> QED
    BY <1>1, <2>1, FS_EmptySet, GroupedSizes DEF LimitsOK
<1>4. ASSUME NEW r \in Requests PROVE RequestOK(r)
  <2>1. /\ run[r] = "new" /\ results[r] = << >> /\ relay[r] = "idle" /\ r \in browser /\ shown[r] = << >>
        /\ row[r].saved = "none"
    BY <1>1
  <2>2. \A w \in WorkersOf(r) : worker[w] = "none"
    BY <1>1, GroupedSizes
  <2>3. StageOK(r)
    BY <2>1, <2>2 DEF StageOK
  <2>4. HeardOK(r)
    BY <2>1 DEF HeardOK
  <2>5. SavedOK(r)
    BY <2>1 DEF SavedOK, Saving
  <2>6. LinesOK(r, shown[r], results[r], Done(r), relay[r] = "over")
    BY <2>1 DEF LinesOK
  <2> QED
    BY <2>3, <2>4, <2>5, <2>6 DEF RequestOK
<1> QED
  BY <1>2, <1>3, <1>4 DEF GroupedInv

LEMMA RequestsUntouched ==
    ASSUME GroupedInv, UNCHANGED <<leadsVars, relayVars>>
    PROVE  GroupedInv'
<1>1. UNCHANGED <<slots, permits, run, worker, results, relay, browser, shown, row>>
  BY DEF leadsVars, relayVars
<1>2. GroupedTyped' /\ LimitsOK'
  BY <1>1, LimitsStay DEF GroupedInv, GroupedTyped, Streaming, Searching
<1>3. \A q \in Requests : Alone(q)
  BY <1>1 DEF Alone
<1> QED
  BY <1>2, <1>3, AloneKeeps DEF GroupedInv

LEMMA WorkerStepKeeps ==
    ASSUME GroupedInv, NEW w \in Workers, WorkerStep(w)
    PROVE  GroupedInv'
<1>1. CASE Ask(w)
  BY <1>1, RequestsUntouched DEF Ask
<1>2. CASE Read(w)
  <2>1. worker[w] = "reading" /\ Through(w, Line("group", w[2]))
    BY <1>2 DEF Read
  <2> QED
    BY <2>1, ThroughKeeps
<1>3. CASE SearchFails(w)
  <2>1. worker[w] \in {"searching", "reading"} /\ Through(w, Line("item_error", w[2]))
    BY <1>3 DEF SearchFails
  <2> QED
    BY <2>1, ThroughKeeps
<1>4. CASE PlainSearchFails(w)
  <2>1. w[1] \in Plain /\ worker[w] \in {"searching", "reading"} /\ GiveUp(w)
    BY <1>4 DEF PlainSearchFails
  <2> QED
    BY <2>1, GiveUpKeeps
<1>5. CASE CallerIsGone(w)
  <2>1. w[1] \in Plain /\ worker[w] = "searching" /\ GiveUp(w)
    BY <1>5 DEF CallerIsGone
  <2> QED
    BY <2>1, GiveUpKeeps
<1> QED
  BY <1>1, <1>2, <1>3, <1>4, <1>5, TakePermitKeeps, RankedKeeps, UnwindKeeps DEF WorkerStep

LEMMA GroupedStep == GroupedInv /\ [GroupedNext]_groupedVars => GroupedInv'
<1> SUFFICES ASSUME GroupedInv, [GroupedNext]_groupedVars PROVE GroupedInv'
  OBVIOUS
<1>1. ASSUME NEW r \in Requests, Post(r) \/ RequestStep(r) \/ RelayStep(r) \/ BrowserLeaves(r) \/ LeadsLost(r)
      PROVE  GroupedInv'
  <2>1. CASE RequestStep(r)
    BY <2>1, RefuseKeeps, BeginKeeps, EmbedQueryKeeps, EmbedFailsKeeps, EmitKeeps, CompleteKeeps, Answer503Keeps,
       HangUpKeeps, CloseStreamKeeps DEF RequestStep
  <2>2. CASE SaveFails(r) \/ LeadsLost(r)
    <3>1. /\ relay[r] \in {"reading", "saving", "appending"} /\ shown' = Show(r, Ending("error"))
          /\ relay' = [relay EXCEPT ![r] = "over"] /\ UNCHANGED <<leadsVars, browser, row>>
      BY <2>2 DEF SaveFails, LeadsLost, Listening
    <3> QED
      BY <3>1, ToldError
  <2>3. CASE SaveRow(r) \/ AppendResults(r) \/ Post(r) \/ BrowserLeaves(r)
    BY <2>3, SaveRowKeeps, AppendResultsKeeps, PostKeeps, BrowserLeavesKeeps
  <2> QED
    BY <1>1, <2>1, <2>2, <2>3 DEF RelayStep
<1>2. ASSUME NEW w \in Workers, WorkerStep(w) \/ Stray(w) PROVE GroupedInv'
  BY <1>2, WorkerStepKeeps, RequestsUntouched DEF Stray
<1>3. ASSUME NEW t \in Others, OtherStep(t) PROVE GroupedInv'
  BY <1>3, RequestsUntouched DEF OtherStep
<1>4. CASE UNCHANGED groupedVars
  BY <1>4, RequestsUntouched DEF groupedVars
<1> QED
  BY <1>1, <1>2, <1>3, <1>4 DEF GroupedNext

LEMMA GroupedFollows == WaitersInv /\ GroupedInv => GroupsAreTold
<1> SUFFICES ASSUME WaitersInv, GroupedInv PROVE GroupsAreTold
  OBVIOUS
<1>1. GroupedTypeOK
  BY DEF GroupedTypeOK, GroupedInv, GroupedTyped, LimitsOK, WaitersInv, RunStages, WorkerStages, RelayStages
<1>2. LimitsAreKept
  BY DEF GroupedInv, LimitsOK, LimitsAreKept, Streaming, Searching
<1>3. ASSUME NEW r \in Requests
      PROVE  /\ \A i, j \in DOMAIN shown[r] :
                    i < j => ~Terminal(shown[r][i]) /\ shown[r][i].company # shown[r][j].company
             /\ (\E i \in DOMAIN shown[r] : shown[r][i].type = "complete")
                    => row[r].saved = "full" /\ row[r].hits = FoundBy(r)
             /\ row[r].saved # "none" => AllThrough(r)
             /\ row[r].saved # "none" /\ r \notin Plain
                    => \A c \in Companies[r] : \E i \in DOMAIN shown[r] : shown[r][i].company = c
  <2>1. /\ SavedOK(r) /\ LinesOK(r, shown[r], results[r], Done(r), relay[r] = "over")
        /\ shown[r] \in Seq(LineType)
    BY DEF GroupedInv, RequestOK, GroupedTyped
  <2>2. \A i, j \in DOMAIN shown[r] : i < j => ~Terminal(shown[r][i])
    <3> SUFFICES ASSUME NEW i \in DOMAIN shown[r], NEW j \in DOMAIN shown[r], i < j PROVE ~Terminal(shown[r][i])
      OBVIOUS
    <3>1. i \in 1..Len(shown[r]) /\ j \in 1..Len(shown[r]) /\ i # Len(shown[r])
      BY <2>1
    <3> QED
      BY <2>1, <3>1 DEF LinesOK
  <2>3. \A i, j \in DOMAIN shown[r] : i < j => shown[r][i].company # shown[r][j].company
    BY <2>1 DEF LinesOK
  <2>4. row[r].saved # "none" => AllThrough(r) /\ (r \notin Plain => Companies[r] \subseteq Names(shown[r]))
    BY <2>1 DEF SavedOK, Saving
  <2>5. row[r].saved # "none" /\ r \notin Plain
            => \A c \in Companies[r] : \E i \in DOMAIN shown[r] : shown[r][i].company = c
    BY <2>4 DEF Names
  <2> QED
    BY <2>1, <2>2, <2>3, <2>4, <2>5 DEF SavedOK
<1> QED
  BY <1>1, <1>2, <1>3 DEF GroupsAreTold

LEMMA GroupedAlways == RequestsSpec => [](WaitersInv /\ GroupedInv)
<1>1. RequestsSpec => RequestsInit /\ [][RequestsNext]_requestVars
  BY PTL DEF RequestsSpec
<1>2. RequestsInit => WaitersInv /\ GroupedInv
  BY WaitersInit, GroupedInit_Inv DEF RequestsInit, GroupedInit
<1>3. [RequestsNext]_requestVars => [GroupedNext]_groupedVars
  BY DEF RequestsNext, requestVars, GroupedPart, HistoryPart, BatchPart
<1>4. WaitersInv /\ GroupedInv /\ [RequestsNext]_requestVars => (WaitersInv /\ GroupedInv)'
  BY <1>3, WaitersStep, GroupedStep
<1> QED
  BY <1>1, <1>2, <1>4, PTL

(***************************************************************************)
(* A grouped search tells the truth over a gate that is sound and fair,    *)
(* for every set of requests, companies and lone tasks and all limits: the *)
(* relay, the searches and _wake_next, whoever cancels or leaves.          *)
(***************************************************************************)
THEOREM GroupedSearchIsTrue == RequestsSpec => []GroupedSearchHolds
<1>1. WaitersInv /\ GroupedInv => GroupedSearchHolds
  BY WaitersInvMeans, GroupedFollows DEF GroupedSearchHolds
<1> QED
  BY <1>1, GroupedAlways, PTL
=============================================================================
