------------------------------ MODULE LeadsProofs ------------------------------
(***************************************************************************)
(* The documents of the leads store, the enrichment job that fills them    *)
(* and the card search makes of one, for any leads, operations, items,     *)
(* attempts, slots and controls.                                           *)
(*                                                                         *)
(* A document is right because of what a write makes, whatever it was made *)
(* of (DocsOK).  What an operation has in hand may be old, and the guard   *)
(* on the version lets it write only if it still fits (OpsOK).  A document *)
(* that is flagged has a vector of it, and for one that is not somebody is *)
(* on the way, or has failed or was left out (FlagsOK).  The job           *)
(* takes its items in order: those before the one in hand are told and     *)
(* with the embedder, and the sentinel is last in the queue (JobInv).  For *)
(* the streamed search an instance of StreamsProofs is taken.              *)
(***************************************************************************)
EXTENDS MCLeads, FiniteSetTheorems, TLAPS

-----------------------------------------------------------------------------
(***************************************************************************)
(* The documents: what a write makes is right, whatever it was made of.    *)
(***************************************************************************)
EntryType == [name : Ops \cup {None}, phone : Ops \cup {None}]
DocType == [stored : BOOLEAN, entries : [Endpoints -> EntryType], name : Ops \cup {None},
            phone : Ops \cup {None}, enriched : SUBSET {"linkedin", "email", "phone"},
            embedded : BOOLEAN, source : 0..3, version : Nat, behind : BOOLEAN]
VectorType == [tier : 0..3, phone : BOOLEAN]

FieldsFit(d) ==
    d.stored /\ ~d.behind =>
        \A field \in {"name", "phone"} :
            Derived(d.entries, field) # None => d[field] = Derived(d.entries, field)

DocFits(d) ==
    /\ d \in DocType /\ FieldsFit(d)
    /\ ~d.stored => d = NoDoc
    /\ d.stored <=> d.version # 0
    /\ d.stored => \E e \in Endpoints : d.entries[e] # Untold

DocsOK ==
    /\ doc \in [Leads -> DocType] /\ vector \in [Leads -> VectorType]
    /\ \A l \in Leads : DocFits(doc[l]) /\ (doc[l].embedded => vector[l] # NoVector)

(***************************************************************************)
(* The operations: what they have in hand of the document.                 *)
(***************************************************************************)
Asking == {"asked", "found", "beaten", "last", "stored"}
Slots == {"held", "woken", "outranked", "ready", "indexed"}
Behind == {"queued", "task", "over", "unembedded", "left"} \cup Slots
Waiting == {"stored", "queued", "task", "held", "woken"}

OpType == [pc : {"new", "failed"} \cup Asking \cup Behind, tries : 0..Attempts, seen : DocType,
           row : VectorType, beaten : BOOLEAN]

Home(o) == doc[LeadOf[o]]

OpFits(o) ==
    /\ At(o, {"new"}) => op[o].tries = 0
    /\ At(o, {"found"}) =>
          /\ op[o].seen.version <= Home(o).version
          /\ op[o].seen.version = Home(o).version => op[o].seen = Home(o)
    /\ At(o, {"found", "last"}) =>
          DocFits(op[o].seen) /\ (op[o].seen.embedded => vector[LeadOf[o]] # NoVector)
    /\ At(o, {"beaten", "last"}) => Home(o).stored
    /\ At(o, {"asked", "found", "beaten", "last", "failed"}) =>
          KindOf[o] \notin {"backfill", "reembed"}
    /\ At(o, {"asked"}) => op[o].tries < Attempts
    /\ At(o, {"stored"} \cup Behind) => Home(o).stored
    /\ At(o, {"outranked", "ready", "indexed"}) => op[o].row # NoVector
    /\ At(o, {"indexed"}) => vector[LeadOf[o]] # NoVector

\* EnrichmentIsKept, of one operation.
Keeps(o) ==
    HasWritten(o) =>
        /\ Home(o).entries[Endpoint(o)] # Untold
        /\ ~op[o].beaten => Enriched(o) \subseteq Home(o).enriched
        /\ KindOf[o] = "webhook" /\ ~op[o].beaten => Home(o).phone # None

OpsOK == op \in [Ops -> OpType] /\ \A o \in Ops : OpFits(o) /\ Keeps(o)

\* Who sees to it that a document gets its flag, or could not.
FlagComes(o) ==
    \/ At(o, {"ready", "indexed", "unembedded", "left"})
    \/ At(o, Waiting) /\ ~Outranked(o, Home(o))

FlagsOK ==
    (\A o \in Ops : ~op[o].beaten) =>
        \A l \in Documents : ~doc[l].embedded => \E o \in Ops : LeadOf[o] = l /\ FlagComes(o)

RecordsInv == DocsOK /\ OpsOK /\ FlagsOK

(***************************************************************************)
(* The job: items before the one in hand are told and behind, those after  *)
(* it are new.                                                             *)
(***************************************************************************)
ItemsOK ==
    /\ ingest.pc = "pending" => ingest.at = 0
    /\ ingest.pc = "running" => ingest.at # 0
    /\ \A i \in DOMAIN Items :
          /\ i > ingest.at => At(Items[i], {"new"})
          /\ i < ingest.at \/ (i = ingest.at /\ ingest.pc = "over") => At(Items[i], {"failed"} \cup Behind)
          /\ i = ingest.at /\ ingest.pc = "running" => At(Items[i], {"failed"} \cup Asking)

ToldOK ==
    /\ Len(told) = CASE ingest.pc = "pending" -> 0
                     [] ingest.pc = "running" -> ingest.at - 1
                     [] ingest.pc = "over" -> ingest.at + 1
    /\ \A i \in DOMAIN told : i <= ingest.at =>
          told[i].item = Items[i] /\ (told[i].type = "ids" => At(Items[i], Behind))
    /\ ingest.pc = "over" =>
          /\ told[ingest.at + 1] = Event("complete", None)
          /\ ingest.cancelled \/ ingest.at = Len(Items)

QueueOK ==
    /\ queue \in Seq(InJob \cup {Sentinel})
    /\ \A i \in DOMAIN queue : IF queue[i] = Sentinel THEN i = Len(queue) /\ ingest.pc = "over"
                               ELSE At(queue[i], {"queued"})
    /\ \A i, j \in DOMAIN queue : queue[i] = queue[j] => i = j
    /\ \A o \in InJob : At(o, {"queued"}) => \E i \in DOMAIN queue : queue[i] = o
    /\ consumer # "taking" => queue = << >> /\ ingest.pc = "over"
    /\ consumer = "over" => \A o \in InJob : ~At(o, {"task"} \cup Slots)
    /\ embedding.state = "closed" => consumer = "over"
    /\ \A o \in InJob : At(o, {"left"}) => embedding.state = "canceled"

JobTypes ==
    /\ faults \in 0..MaxFaults /\ controls \in 0..MaxControls
    /\ ingest \in [pc : {"pending", "running", "over"}, at : 0..Len(Items), cancelled : BOOLEAN]
    /\ told \in Seq([type : {"ids", "item_error", "complete"}, item : Ops \cup {None}])
    /\ consumer \in {"taking", "joining", "over"}
    /\ embedding \in [state : {"open", "canceled", "closed"}, paused : BOOLEAN]

JobInv == JobTypes /\ ItemsOK /\ ToldOK /\ QueueOK
LeadsInv == RecordsInv /\ JobInv

-----------------------------------------------------------------------------
(***************************************************************************)
(* What a write makes of a document.                                       *)
(***************************************************************************)
LEMMA EndpointsAre ==
    /\ Endpoints = {"search", "lookup", "match"}
    /\ \A e \in Endpoints : Tier[e] \in 1..3
  BY DEF Endpoints, Tier

LEMMA SmallMax ==
    ASSUME NEW S \in SUBSET (0..3), S # {}
    PROVE  Max(S) \in S /\ \A m \in S : m <= Max(S)
<1>1. \E n \in S : \A m \in S : n >= m
  <2>1. \A m \in S : m = 0 \/ m = 1 \/ m = 2 \/ m = 3
    OBVIOUS
  <2>2. CASE 3 \in S
    BY <2>1, <2>2
  <2>3. CASE 3 \notin S /\ 2 \in S
    BY <2>1, <2>3
  <2>4. CASE 3 \notin S /\ 2 \notin S /\ 1 \in S
    BY <2>1, <2>4
  <2>5. CASE 3 \notin S /\ 2 \notin S /\ 1 \notin S
    <3>1. PICK n \in S : TRUE
      OBVIOUS
    <3>2. \A m \in S : m = 0
      BY <2>1, <2>5
    <3> QED
      BY <3>1, <3>2
  <2> QED
    BY <2>2, <2>3, <2>4, <2>5
<1>2. Max(S) \in S /\ \A m \in S : Max(S) >= m
  BY <1>1 DEF Max
<1> QED
  BY <1>2

LEMMA BestTierIs ==
    ASSUME NEW entries
    PROVE  /\ BestTier(entries) \in 0..3
           /\ \A e \in Endpoints : entries[e] # Untold => BestTier(entries) # 0
<1> DEFINE S == {0} \cup {Tier[e] : e \in Answers(entries)}
<1>1. S \in SUBSET (0..3) /\ S # {}
  BY EndpointsAre DEF Answers
<1>2. BestTier(entries) = Max(S)
  BY DEF BestTier
<1>3. Max(S) \in S /\ \A m \in S : m <= Max(S)
  <2> HIDE DEF S
  <2> QED
    BY <1>1, SmallMax
<1>4. ASSUME NEW e \in Endpoints, entries[e] # Untold PROVE Max(S) # 0
  <2>1. Tier[e] \in S /\ Tier[e] \in 1..3
    BY <1>4, EndpointsAre DEF Answers
  <2>2. Tier[e] <= Max(S) /\ Max(S) \in 0..3
    <3> HIDE DEF S
    <3> QED
      BY <2>1, <1>1, <1>3
  <2> HIDE DEF S
  <2> QED
    BY <2>1, <2>2
<1> HIDE DEF S
<1> QED
  BY <1>1, <1>2, <1>3, <1>4

\* A field is told by an answer that tells it.
LEMMA DerivedIs ==
    ASSUME NEW entries \in [Endpoints -> EntryType], NEW field \in {"name", "phone"}
    PROVE  /\ Derived(entries, field) \in Ops \cup {None}
           /\ \A e \in Endpoints : entries[e][field] # None => Derived(entries, field) # None
<1>0. \A e \in Endpoints : entries[e][field] \in Ops \cup {None}
  BY DEF EntryType
<1> DEFINE having == {e \in Endpoints : entries[e][field] # None}
           best == CHOOSE e \in having : \A f \in having : Tier[f] <= Tier[e]
<1>1. CASE having = {}
  BY <1>1 DEF Derived
<1>2. CASE having # {}
  <2>1. \E e \in having : \A f \in having : Tier[f] <= Tier[e]
    <3>0. \A f \in having : f = "search" \/ f = "lookup" \/ f = "match"
      BY EndpointsAre
    <3>1. Tier["search"] = 1 /\ Tier["lookup"] = 2 /\ Tier["match"] = 3
      BY DEF Tier
    <3> HIDE DEF having
    <3>2. CASE "match" \in having
      BY <3>0, <3>1, <3>2
    <3>3. CASE "match" \notin having /\ "lookup" \in having
      BY <3>0, <3>1, <3>3
    <3>4. CASE "match" \notin having /\ "lookup" \notin having
      BY <1>2, <3>0, <3>1, <3>4
    <3> QED
      BY <3>2, <3>3, <3>4
  <2>2. best \in having
    <3> HIDE DEF having
    <3> QED
      BY <2>1
  <2>3. Derived(entries, field) = entries[best][field]
    BY <1>2 DEF Derived
  <2> QED
    BY <1>0, <2>2, <2>3
<1> QED
  BY <1>1, <1>2

LEMMA EntryIs ==
    ASSUME NEW o \in Ops, NEW entries \in [Endpoints -> EntryType],
           KindOf[o] \notin {"backfill", "reembed"}
    PROVE  /\ Endpoint(o) \in Endpoints /\ Entry(o, entries) \in EntryType /\ Entry(o, entries) # Untold
           /\ KindOf[o] = "webhook" => Entry(o, entries).phone # None
<1>1. o # None /\ KindOf[o] \in Kinds
  BY RecordsAssumption DEF None
<1>2. Endpoint(o) \in Endpoints
  BY <1>1, EndpointsAre DEF Endpoint, Kinds
<1>3. entries["match"] \in EntryType
  BY EndpointsAre
<1> QED
  BY <1>1, <1>2, <1>3 DEF Entry, EntryType, Untold

\* A document is of the type when its fields are.
DocShape(d) ==
    d = [stored |-> d.stored, entries |-> d.entries, name |-> d.name, phone |-> d.phone,
         enriched |-> d.enriched, embedded |-> d.embedded, source |-> d.source,
         version |-> d.version, behind |-> d.behind]

LEMMA DocTyped ==
    ASSUME NEW d, DocShape(d), d.stored \in BOOLEAN, d.entries \in [Endpoints -> EntryType],
           d.name \in Ops \cup {None}, d.phone \in Ops \cup {None},
           d.enriched \in SUBSET {"linkedin", "email", "phone"},
           d.embedded \in BOOLEAN, d.source \in 0..3, d.version \in Nat, d.behind \in BOOLEAN
    PROVE  d \in DocType
  BY DEF DocType, DocShape

LEMMA DocFields ==
    ASSUME NEW d \in DocType
    PROVE  /\ d = [stored |-> d.stored, entries |-> d.entries, name |-> d.name, phone |-> d.phone,
                   enriched |-> d.enriched, embedded |-> d.embedded, source |-> d.source,
                   version |-> d.version, behind |-> d.behind]
           /\ d.stored \in BOOLEAN /\ d.entries \in [Endpoints -> EntryType]
           /\ d.name \in Ops \cup {None} /\ d.phone \in Ops \cup {None}
           /\ d.enriched \in SUBSET {"linkedin", "email", "phone"}
           /\ d.embedded \in BOOLEAN /\ d.source \in 0..3 /\ d.version \in Nat /\ d.behind \in BOOLEAN
  BY DEF DocType

\* More answers, never fewer.
Grown(old, new) ==
    /\ new.stored /\ new.version = old.version + 1
    /\ \A e \in Endpoints : old.entries[e] # Untold => new.entries[e] # Untold
    /\ old.enriched \subseteq new.enriched
    /\ old.phone # None => new.phone # None

LEMMA WrittenFits ==
    ASSUME NEW o \in Ops, KindOf[o] \notin {"backfill", "reembed"}, NEW old, DocFits(old),
           NEW new, new = Written(o, old)
    PROVE  /\ DocFits(new) /\ Grown(old, new) /\ new.entries[Endpoint(o)] # Untold
           /\ Enriched(o) \subseteq new.enriched
           /\ KindOf[o] = "webhook" => new.phone # None
           /\ new.embedded = Flag(o, old) /\ new.source = old.source
<1> DEFINE entries == [old.entries EXCEPT ![Endpoint(o)] = Entry(o, old.entries)]
<1>1. old \in DocType
  BY DEF DocFits
<1>2. old.entries \in [Endpoints -> EntryType] /\ old.version \in Nat /\ old.embedded \in BOOLEAN
  BY <1>1 DEF DocType
<1>3. /\ Endpoint(o) \in Endpoints /\ Entry(o, old.entries) \in EntryType
      /\ Entry(o, old.entries) # Untold
      /\ KindOf[o] = "webhook" => Entry(o, old.entries).phone # None
  BY <1>2, EntryIs
<1>4. /\ entries \in [Endpoints -> EntryType] /\ entries[Endpoint(o)] # Untold
      /\ entries[Endpoint(o)] = Entry(o, old.entries)
      /\ \A e \in Endpoints : old.entries[e] # Untold => entries[e] # Untold
  BY <1>2, <1>3
<1> HIDE DEF entries
<1>5. new = [old EXCEPT !.stored = TRUE, !.entries = entries,
                !.name = Kept(entries, "name", old.name), !.phone = Kept(entries, "phone", old.phone),
                !.enriched = old.enriched \cup Enriched(o), !.embedded = Flag(o, old),
                !.version = old.version + 1, !.behind = FALSE]
  BY DEF Written, entries
<1>6. /\ new.stored = TRUE /\ new.entries = entries
      /\ new.name = Kept(entries, "name", old.name) /\ new.phone = Kept(entries, "phone", old.phone)
      /\ new.enriched = old.enriched \cup Enriched(o) /\ new.embedded = Flag(o, old)
      /\ new.version = old.version + 1 /\ new.behind = FALSE /\ new.source = old.source
  BY <1>1, <1>5 DEF DocType
<1>7. /\ Kept(entries, "name", old.name) \in Ops \cup {None}
      /\ Kept(entries, "phone", old.phone) \in Ops \cup {None}
  BY <1>1, <1>4, DerivedIs DEF Kept, DocType
<1>8. Flag(o, old) \in BOOLEAN /\ Enriched(o) \subseteq {"linkedin", "email", "phone"}
  BY <1>2 DEF Flag, Enriched
<1>9. new \in DocType
  <2> DEFINE na == Kept(entries, "name", old.name)
             ph == Kept(entries, "phone", old.phone)
             ri == old.enriched \cup Enriched(o)
             em == Flag(o, old)
             ve == old.version + 1
  <2>1. na \in Ops \cup {None} /\ ph \in Ops \cup {None} /\ em \in BOOLEAN /\ old.source \in 0..3
    BY <1>1, <1>7, <1>8, DocFields
  <2>2. ri \in SUBSET {"linkedin", "email", "phone"} /\ ve \in Nat
    BY <1>1, <1>8, DocFields
  <2>3. new = [stored |-> TRUE, entries |-> entries, name |-> na, phone |-> ph, enriched |-> ri,
               embedded |-> em, source |-> old.source, version |-> ve, behind |-> FALSE]
    BY <1>1, <1>5, DocFields
  <2> HIDE DEF na, ph, ri, em, ve
  <2>4. DocShape(new)
    BY <2>3 DEF DocShape
  <2>5. /\ new.stored \in BOOLEAN /\ new.entries \in [Endpoints -> EntryType]
        /\ new.name \in Ops \cup {None} /\ new.phone \in Ops \cup {None}
        /\ new.enriched \in SUBSET {"linkedin", "email", "phone"}
        /\ new.embedded \in BOOLEAN /\ new.source \in 0..3 /\ new.version \in Nat
        /\ new.behind \in BOOLEAN
    BY <1>4, <2>1, <2>2, <2>3
  <2> QED
    BY <2>4, <2>5, DocTyped
<1>10. FieldsFit(new)
  BY <1>6 DEF FieldsFit, Kept
<1>11. old.phone # None => new.phone # None
  BY <1>6 DEF Kept
<1>12. KindOf[o] = "webhook" => new.phone # None
  <2>1. KindOf[o] = "webhook" => Derived(entries, "phone") # None
    BY <1>3, <1>4, DerivedIs
  <2> QED
    BY <1>6, <2>1 DEF Kept
<1>13. DocFits(new)
  BY <1>2, <1>3, <1>4, <1>6, <1>9, <1>10 DEF DocFits
<1> QED
  BY <1>4, <1>3, <1>6, <1>11, <1>12, <1>13 DEF Grown

LEMMA AddedFits ==
    ASSUME NEW o \in Ops, KindOf[o] \notin {"backfill", "reembed"}, NEW old, DocFits(old),
           NEW now, DocFits(now), now.stored, NEW new, new = Added(o, old, now)
    PROVE  /\ DocFits(new) /\ Grown(now, new) /\ new.entries[Endpoint(o)] # Untold
           /\ new.embedded => old.embedded
<1> DEFINE entries == [now.entries EXCEPT ![Endpoint(o)] = Entry(o, old.entries)]
<1>1. old \in DocType /\ now \in DocType
  BY DEF DocFits
<1>2. /\ old.entries \in [Endpoints -> EntryType] /\ now.entries \in [Endpoints -> EntryType]
      /\ now.version \in Nat /\ old.embedded \in BOOLEAN
  BY <1>1 DEF DocType
<1>3. /\ Endpoint(o) \in Endpoints /\ Entry(o, old.entries) \in EntryType
      /\ Entry(o, old.entries) # Untold
  BY <1>2, EntryIs
<1>4. /\ entries \in [Endpoints -> EntryType] /\ entries[Endpoint(o)] # Untold
      /\ \A e \in Endpoints : now.entries[e] # Untold => entries[e] # Untold
  BY <1>2, <1>3
<1>5. new = [now EXCEPT !.entries = entries, !.embedded = Flag(o, old),
                        !.version = now.version + 1, !.behind = TRUE]
  BY <1>1 DEF Added, DocType
<1> HIDE DEF entries
<1>6. /\ new.stored = now.stored /\ new.entries = entries /\ new.phone = now.phone
      /\ new.enriched = now.enriched /\ new.embedded = Flag(o, old)
      /\ new.version = now.version + 1 /\ new.behind = TRUE /\ new.source = now.source
  BY <1>1, <1>5 DEF DocType
<1>7. Flag(o, old) \in BOOLEAN /\ (Flag(o, old) => old.embedded)
  BY <1>2 DEF Flag
<1>8. new \in DocType
  <2> DEFINE em == Flag(o, old)
             ve == now.version + 1
  <2>1. em \in BOOLEAN /\ ve \in Nat
    BY <1>2, <1>7
  <2>2. new = [stored |-> now.stored, entries |-> entries, name |-> now.name, phone |-> now.phone,
               enriched |-> now.enriched, embedded |-> em, source |-> now.source, version |-> ve,
               behind |-> TRUE]
    BY ZenonT(60), <1>1, <1>5, DocFields
  <2> HIDE DEF em, ve
  <2>3. DocShape(new)
    BY <2>2 DEF DocShape
  <2>4. /\ now.stored \in BOOLEAN
        /\ now.name \in Ops \cup {None} /\ now.phone \in Ops \cup {None}
        /\ now.enriched \in SUBSET {"linkedin", "email", "phone"} /\ now.source \in 0..3
    BY <1>1, DocFields
  <2>5. /\ new.stored \in BOOLEAN /\ new.entries \in [Endpoints -> EntryType]
        /\ new.name \in Ops \cup {None} /\ new.phone \in Ops \cup {None}
        /\ new.enriched \in SUBSET {"linkedin", "email", "phone"}
        /\ new.embedded \in BOOLEAN /\ new.source \in 0..3 /\ new.version \in Nat
        /\ new.behind \in BOOLEAN
    BY <1>4, <2>1, <2>2, <2>4
  <2> QED
    BY <2>3, <2>5, DocTyped
<1>9. FieldsFit(new)
  BY <1>6 DEF FieldsFit
<1>10. DocFits(new)
  BY <1>2, <1>3, <1>4, <1>6, <1>8, <1>9 DEF DocFits
<1> QED
  BY <1>4, <1>6, <1>7, <1>10 DEF Grown

LEMMA MarkedFits ==
    ASSUME NEW now, DocFits(now), now.stored, NEW source \in 0..3, NEW new, new = Marked(now, source)
    PROVE  DocFits(new) /\ Grown(now, new) /\ new.embedded
<1>1. now \in DocType /\ now.version \in Nat /\ source \in 0..3
  BY DEF DocFits, DocType
<1>2. /\ new.stored = now.stored /\ new.entries = now.entries /\ new.name = now.name
      /\ new.phone = now.phone /\ new.enriched = now.enriched /\ new.embedded = TRUE
      /\ new.version = now.version + 1 /\ new.behind = now.behind /\ new.source = source
  BY <1>1 DEF Marked, DocType
<1>3. new \in DocType
  <2>1. DocShape(new)
    <3>1. DocShape(now)
      BY <1>1, DocFields DEF DocShape
    <3> QED
      BY <3>1 DEF DocShape, Marked
  <2>2. /\ now.stored \in BOOLEAN /\ now.entries \in [Endpoints -> EntryType]
        /\ now.name \in Ops \cup {None} /\ now.phone \in Ops \cup {None}
        /\ now.enriched \in SUBSET {"linkedin", "email", "phone"} /\ now.behind \in BOOLEAN
    BY <1>1, DocFields
  <2>3. new.version \in Nat
    BY <1>1, <1>2
  <2>4. new.source \in 0..3 /\ new.embedded \in BOOLEAN
    BY <1>2
  <2> QED
    BY <1>2, <2>1, <2>2, <2>3, <2>4, DocTyped
<1>4. FieldsFit(new)
  <2>1. /\ FieldsFit(now) /\ \A field \in {"name", "phone"} : new[field] = now[field]
    BY <1>2 DEF DocFits
  <2> QED
    BY <1>2, <2>1 DEF FieldsFit
<1>5. DocFits(new)
  BY <1>1, <1>2, <1>3, <1>4 DEF DocFits
<1> QED
  BY <1>2, <1>5 DEF Grown

-----------------------------------------------------------------------------
(***************************************************************************)
(* The steps of the operations.                                            *)
(***************************************************************************)
LEMMA Rows ==
    ASSUME RecordsInv, NEW o \in Ops
    PROVE  /\ LeadOf[o] \in Leads /\ KindOf[o] \in Kinds /\ Precedence(o) \in 0..3
           /\ op[o] \in OpType /\ OpFits(o) /\ Keeps(o)
           /\ DocFits(Home(o)) /\ Home(o) \in DocType
           /\ vector[LeadOf[o]] \in VectorType
           /\ Home(o).embedded => vector[LeadOf[o]] # NoVector
<1>1. LeadOf[o] \in Leads /\ KindOf[o] \in Kinds
  BY RecordsAssumption
<1>2. Precedence(o) \in 0..3
  BY <1>1 DEF Precedence, Endpoint, Kinds, Tier
<1> QED
  BY <1>1, <1>2 DEF RecordsInv, DocsOK, OpsOK, DocFits, Home

OpShape(r) ==
    r = [pc |-> r.pc, tries |-> r.tries, seen |-> r.seen, row |-> r.row, beaten |-> r.beaten]

LEMMA OpFields ==
    ASSUME NEW r \in OpType
    PROVE  /\ OpShape(r)
           /\ r.pc \in {"new", "failed"} \cup Asking \cup Behind
           /\ r.tries \in 0..Attempts /\ r.seen \in DocType
           /\ r.row \in VectorType /\ r.beaten \in BOOLEAN
  BY DEF OpType, OpShape

LEMMA OpTyped ==
    ASSUME NEW r, NEW q \in {"new", "failed"} \cup Asking \cup Behind, NEW t \in 0..Attempts,
           NEW s \in DocType, NEW w \in VectorType, NEW b,  b \in BOOLEAN,
           r = [pc |-> q, tries |-> t, seen |-> s, row |-> w, beaten |-> b]
    PROVE  /\ r \in OpType
           /\ r.pc = q /\ r.tries = t /\ r.seen = s /\ r.row = w /\ r.beaten = b
  BY DEF OpType

\* An operation that does not move, while its document may grow.
LEMMA Unhurt ==
    ASSUME RecordsInv, NEW o \in Ops, op'[o] = op[o],
           Home(o)' = Home(o) \/ Grown(Home(o), Home(o)'),
           vector[LeadOf[o]] # NoVector => vector'[LeadOf[o]] # NoVector
    PROVE  OpFits(o)' /\ Keeps(o)'
<1> DEFINE d == Home(o)
<1>0. PICK r, e : r = op[o] /\ e = doc'[LeadOf[o]]
  OBVIOUS
<1>1. OpFits(o) /\ Keeps(o) /\ r \in OpType /\ d \in DocType
  BY <1>0, Rows
<1>2. Home(o)' = e /\ (e = d \/ Grown(d, e)) /\ op'[o] = r /\ op[o] = r
  BY <1>0 DEF Home
<1>3. d.stored => e.stored
  BY <1>2 DEF Grown
<1>4. d.version \in Nat /\ r.seen.version \in Nat
  BY <1>1 DEF DocType, OpType
<1>5. /\ r.seen.version <= d.version => r.seen.version <= e.version
      /\ r.seen.version <= d.version /\ r.seen.version = e.version => e = d
  BY <1>2, <1>4 DEF Grown
<1>6. OpFits(o)'
  <2>1. Home(o) = d
    OBVIOUS
  <2> HIDE DEF d
  <2> QED
    BY <1>1, <1>2, <1>3, <1>5, <2>1 DEF OpFits, At
<1>7. ASSUME HasWritten(o)
      PROVE  /\ e.entries[Endpoint(o)] # Untold
             /\ ~r.beaten => Enriched(o) \subseteq e.enriched
             /\ KindOf[o] = "webhook" /\ ~r.beaten => e.phone # None
  <2>1. Endpoint(o) \in Endpoints
    <3>1. KindOf[o] \in Kinds
      BY Rows
    <3> QED
      BY <1>7, <3>1, EndpointsAre DEF HasWritten, Endpoint, Kinds
  <2>2. /\ d.entries[Endpoint(o)] # Untold
        /\ ~r.beaten => Enriched(o) \subseteq d.enriched
        /\ KindOf[o] = "webhook" /\ ~r.beaten => d.phone # None
    BY <1>1, <1>2, <1>7 DEF Keeps
  <2> HIDE DEF d
  <2> QED
    BY <1>2, <2>1, <2>2 DEF Grown
<1>8. HasWritten(o)' <=> HasWritten(o)
  BY <1>2 DEF HasWritten, At
<1>9. Keeps(o)'
  BY <1>2, <1>7, <1>8 DEF Keeps
<1> QED
  BY <1>6, <1>9

\* An operation that moves while the documents and the vectors stay.
Moves(o) ==
    /\ op'[o].beaten = op[o].beaten
    /\ OpFits(o)'
    /\ HasWritten(o)' => HasWritten(o)
    /\ FlagComes(o) => FlagComes(o)'

LEMMA Moved ==
    ASSUME RecordsInv, op' \in [Ops -> OpType], UNCHANGED <<doc, vector>>,
           \A o \in Ops : op'[o] = op[o] \/ Moves(o)
    PROVE  RecordsInv'
<1>1. DocsOK'
  BY DEF RecordsInv, DocsOK
<1>2. ASSUME NEW o \in Ops PROVE OpFits(o)' /\ Keeps(o)'
  <2>1. CASE op'[o] = op[o]
    <3>1. Home(o)' = Home(o) /\ vector' = vector
      BY DEF Home
    <3> QED
      BY <2>1, <3>1, Unhurt
  <2>2. CASE Moves(o)
    <3>1. Home(o)' = Home(o)
      BY DEF Home
    <3> QED
      BY <2>2, <3>1, Rows DEF Moves, Keeps
  <2> QED
    BY <2>1, <2>2
<1>3. OpsOK'
  BY <1>2 DEF OpsOK
<1>4. ASSUME NEW o \in Ops, FlagComes(o) PROVE FlagComes(o)'
  <2>1. CASE op'[o] = op[o]
    BY <1>4, <2>1 DEF FlagComes, At, Home, Outranked, Precedence, Endpoint, Tier
  <2>2. CASE Moves(o)
    BY <1>4, <2>2 DEF Moves
  <2> QED
    BY <2>1, <2>2
<1>5. ASSUME \A o \in Ops : ~(op'[o].beaten) PROVE \A o \in Ops : ~(op[o].beaten)
  BY <1>5 DEF Moves
<1>6. FlagsOK'
  <2>1. FlagsOK
    BY DEF RecordsInv
  <2> QED
    BY <1>4, <1>5, <2>1 DEF FlagsOK, Documents
<1> QED
  BY <1>1, <1>3, <1>6 DEF RecordsInv

\* An operation that only gets a new label.
Labels == {<<"new", "asked">>, <<"stored", "queued">>, <<"queued", "task">>, <<"task", "held">>,
           <<"held", "woken">>, <<"task", "left">>, <<"woken", "left">>, <<"asked", "failed">>}

Relabelled(o, q) ==
    /\ op'[o] = [op[o] EXCEPT !.pc = q] /\ <<op[o].pc, q>> \in Labels
    /\ q \in {"asked", "failed"} => KindOf[o] \notin {"backfill", "reembed"}

LEMMA Relabel ==
    ASSUME RecordsInv, op' = [o \in Ops |-> op'[o]], UNCHANGED <<doc, vector>>,
           \A o \in Ops : op'[o] = op[o] \/ \E q \in {"asked", "queued", "task", "held", "woken", "left", "failed"} : Relabelled(o, q)
    PROVE  RecordsInv'
<1>1. ASSUME NEW o \in Ops, NEW q \in {"asked", "queued", "task", "held", "woken", "left", "failed"}, Relabelled(o, q)
      PROVE  op'[o] \in OpType /\ Moves(o)
  <2>0. PICK r, s : r = op[o] /\ s = op'[o]
    OBVIOUS
  <2>1. /\ op[o] = r /\ op'[o] = s /\ s = [r EXCEPT !.pc = q] /\ <<r.pc, q>> \in Labels /\ r \in OpType
        /\ q \in {"asked", "failed"} => KindOf[o] \notin {"backfill", "reembed"}
    BY <1>1, <2>0, Rows DEF Relabelled
  <2>2. /\ s = [pc |-> q, tries |-> r.tries, seen |-> r.seen, row |-> r.row, beaten |-> r.beaten]
        /\ r.tries \in 0..Attempts /\ r.seen \in DocType /\ r.row \in VectorType /\ r.beaten \in BOOLEAN
        /\ q \in {"new", "failed"} \cup Asking \cup Behind
    <3>1. OpShape(r)
      BY <2>1, OpFields
    <3>2. s = [pc |-> q, tries |-> r.tries, seen |-> r.seen, row |-> r.row, beaten |-> r.beaten]
      BY <2>1, <3>1 DEF OpShape
    <3> QED
      BY <2>1, <3>2, OpFields DEF Asking, Behind, Slots
  <2>3. /\ s \in OpType
        /\ s.pc = q /\ s.tries = r.tries /\ s.seen = r.seen /\ s.row = r.row /\ s.beaten = r.beaten
    BY <2>2, OpTyped
  <2>4. \/ r.pc = "new" /\ q = "asked"
        \/ r.pc = "asked" /\ q = "failed"
        \/ r.pc = "stored" /\ q = "queued"
        \/ r.pc = "queued" /\ q = "task"
        \/ r.pc = "task" /\ q = "held"
        \/ r.pc = "held" /\ q = "woken"
        \/ r.pc \in {"task", "woken"} /\ q = "left"
    BY <2>1 DEF Labels
  <2>5. Home(o)' = Home(o) /\ OpFits(o) /\ Attempts \in Nat \ {0} /\ r.tries \in 0..Attempts
    BY <2>2, Rows, RecordsAssumption DEF Home
  <2>6. OpFits(o)'
    BY <2>1, <2>3, <2>4, <2>5 DEF OpFits, At, Asking, Behind, Slots
  <2>7. HasWritten(o)' => HasWritten(o)
    BY <2>1, <2>3, <2>4 DEF HasWritten, At
  <2>8. FlagComes(o) => FlagComes(o)'
    BY <2>1, <2>3, <2>4, <2>5 DEF FlagComes, At, Waiting
  <2> QED
    BY <2>1, <2>3, <2>6, <2>7, <2>8 DEF Moves
<1>2. op' \in [Ops -> OpType]
  <2>1. ASSUME NEW o \in Ops PROVE op'[o] \in OpType
    BY <1>1, Rows
  <2> QED
    BY <2>1
<1> QED
  BY <1>1, <1>2, Moved

\* One operation gets a new state.
LEMMA One ==
    ASSUME RecordsInv, NEW o \in Ops, NEW s \in OpType, op' = [op EXCEPT ![o] = s]
    PROVE  /\ op' \in [Ops -> OpType] /\ op'[o] = s
           /\ \A p \in Ops : p # o => op'[p] = op[p]
<1>1. op \in [Ops -> OpType]
  BY DEF RecordsInv, OpsOK
<1> QED
  BY <1>1

LEMMA OneMoved ==
    ASSUME RecordsInv, NEW o \in Ops, NEW s \in OpType, op' = [op EXCEPT ![o] = s],
           UNCHANGED <<doc, vector>>, Moves(o)
    PROVE  RecordsInv'
  BY One, Moved

\* A new label for one.
LEMMA Labelled ==
    ASSUME RecordsInv, NEW o \in Ops, NEW q \in {"new", "failed"} \cup Asking \cup Behind, Goto(o, q)
    PROVE  /\ op' = [op EXCEPT ![o] = [op[o] EXCEPT !.pc = q]]
           /\ op'[o] = [op[o] EXCEPT !.pc = q]
           /\ op'[o] \in OpType /\ op' \in [Ops -> OpType]
           /\ op'[o].pc = q /\ op'[o].tries = op[o].tries /\ op'[o].seen = op[o].seen
           /\ op'[o].row = op[o].row /\ op'[o].beaten = op[o].beaten
           /\ \A p \in Ops : p # o => op'[p] = op[p]
<1>0. PICK r, s : r = op[o] /\ s = [op[o] EXCEPT !.pc = q]
  OBVIOUS
<1>1. r \in OpType /\ op \in [Ops -> OpType]
  BY <1>0 DEF RecordsInv, OpsOK
<1>2. /\ s = [pc |-> q, tries |-> r.tries, seen |-> r.seen, row |-> r.row, beaten |-> r.beaten]
      /\ r.tries \in 0..Attempts /\ r.seen \in DocType /\ r.row \in VectorType /\ r.beaten \in BOOLEAN
  <2>1. OpShape(r)
    BY <1>1, OpFields
  <2>2. s = [pc |-> q, tries |-> r.tries, seen |-> r.seen, row |-> r.row, beaten |-> r.beaten]
    BY <1>0, <2>1 DEF OpShape
  <2> QED
    BY <1>1, <2>2, OpFields
<1>3. /\ s \in OpType
      /\ s.pc = q /\ s.tries = r.tries /\ s.seen = r.seen /\ s.row = r.row /\ s.beaten = r.beaten
  BY <1>2, OpTyped
<1>4. op' = [op EXCEPT ![o] = s]
  BY <1>0 DEF Goto
<1>5. op'[o] = s /\ op' \in [Ops -> OpType] /\ \A p \in Ops : p # o => op'[p] = op[p]
  BY <1>1, <1>3, <1>4
<1> QED
  BY <1>0, <1>3, <1>4, <1>5

LEMMA RelabelOne ==
    ASSUME RecordsInv, UNCHANGED <<doc, vector>>, NEW o \in Ops,
           NEW q \in {"asked", "queued", "task", "held", "woken", "left", "failed"},
           Goto(o, q), <<op[o].pc, q>> \in Labels,
           q \in {"asked", "failed"} => KindOf[o] \notin {"backfill", "reembed"}
    PROVE  RecordsInv'
<1>1. q \in {"new", "failed"} \cup Asking \cup Behind
  BY DEF Asking, Behind, Slots
<1>2. Relabelled(o, q) /\ (\A p \in Ops : p # o => op'[p] = op[p]) /\ op' \in [Ops -> OpType]
  BY <1>1, Labelled DEF Relabelled
<1> QED
  BY <1>2, Relabel

LEMMA AskEffect ==
    ASSUME RecordsInv, NEW o \in Ops, Ask(o)
    PROVE  RecordsInv'
<1>1. /\ op[o].pc = "new" /\ KindOf[o] \notin {"backfill", "reembed"}
      /\ Goto(o, "asked") /\ UNCHANGED <<doc, vector>>
  BY DEF Ask, At
<1> QED
  BY <1>1, RelabelOne DEF Labels

LEMMA ApolloFailsEffect ==
    ASSUME RecordsInv, NEW o \in Ops, ApolloFails(o)
    PROVE  RecordsInv'
<1>1. op[o].pc = "asked" /\ Goto(o, "failed") /\ UNCHANGED <<doc, vector>>
  BY DEF ApolloFails, At
<1>2. KindOf[o] \notin {"backfill", "reembed"}
  BY <1>1, Rows DEF OpFits, At
<1> QED
  BY <1>1, <1>2, RelabelOne DEF Labels

LEMMA SelectEffect ==
    ASSUME RecordsInv, NEW o \in Ops, Select(o)
    PROVE  RecordsInv'
<1>1. /\ op[o].pc = "new" /\ KindOf[o] \in {"backfill", "reembed"} /\ Home(o).stored
      /\ Goto(o, "stored") /\ UNCHANGED <<doc, vector>>
  BY DEF Select, At, Home
<1>2. "stored" \in {"new", "failed"} \cup Asking \cup Behind
  BY DEF Asking
<1>3. /\ op'[o].pc = "stored" /\ op'[o].beaten = op[o].beaten /\ op'[o] \in OpType
      /\ op' = [op EXCEPT ![o] = op'[o]]
  BY <1>1, <1>2, Labelled
<1>4. Home(o)' = Home(o)
  BY <1>1 DEF Home
<1>5. OpFits(o)'
  BY <1>1, <1>3, <1>4 DEF OpFits, At, Behind, Slots
<1>6. HasWritten(o)' => HasWritten(o)
  BY <1>1 DEF HasWritten
<1>7. FlagComes(o) => FlagComes(o)'
  BY <1>1 DEF FlagComes, At, Waiting
<1> QED
  BY <1>1, <1>3, <1>5, <1>6, <1>7, OneMoved DEF Moves

\* What an operation becomes, field by field.
LEMMA Remade ==
    ASSUME RecordsInv, NEW o \in Ops, NEW w, op' = [op EXCEPT ![o] = w], OpShape(w),
           w.pc \in {"new", "failed"} \cup Asking \cup Behind, w.tries \in 0..Attempts,
           w.seen \in DocType, w.row \in VectorType, w.beaten \in BOOLEAN
    PROVE  /\ op' \in [Ops -> OpType] /\ w \in OpType /\ op'[o] = w
           /\ \A p \in Ops : p # o => op'[p] = op[p]
<1>1. w \in OpType
  BY DEF OpType, OpShape
<1> QED
  BY <1>1, One

LEMMA Plain ==
    /\ NoVector \in VectorType /\ NoDoc \in DocType
    /\ \A d : DocFits(d) => Row(d) \in VectorType /\ (d.stored => Row(d) # NoVector)
<1>1. NoVector \in VectorType
  BY DEF NoVector, VectorType
<1>2. NoDoc \in DocType
  <2>1. [e \in Endpoints |-> Untold] \in [Endpoints -> EntryType]
    BY DEF EntryType, Untold
  <2>2. /\ NoDoc.stored = FALSE /\ NoDoc.entries = [e \in Endpoints |-> Untold]
        /\ NoDoc.name = None /\ NoDoc.phone = None /\ NoDoc.enriched = {}
        /\ NoDoc.embedded = FALSE /\ NoDoc.source = 0 /\ NoDoc.version = 0 /\ NoDoc.behind = FALSE
    BY DEF NoDoc
  <2>3. DocShape(NoDoc)
    BY DEF DocShape, NoDoc
  <2>4. /\ NoDoc.stored \in BOOLEAN /\ NoDoc.entries \in [Endpoints -> EntryType]
        /\ NoDoc.name \in Ops \cup {None} /\ NoDoc.phone \in Ops \cup {None}
        /\ NoDoc.enriched \in SUBSET {"linkedin", "email", "phone"}
        /\ NoDoc.embedded \in BOOLEAN /\ NoDoc.source \in 0..3 /\ NoDoc.version \in Nat
        /\ NoDoc.behind \in BOOLEAN
    <3>1. NoDoc.stored \in BOOLEAN /\ NoDoc.embedded \in BOOLEAN /\ NoDoc.behind \in BOOLEAN
      BY <2>2
    <3>2. NoDoc.name \in Ops \cup {None} /\ NoDoc.phone \in Ops \cup {None}
      BY <2>2
    <3>3. NoDoc.source \in 0..3 /\ NoDoc.version \in Nat
      BY <2>2
    <3> QED
      BY <2>1, <2>2, <3>1, <3>2, <3>3
  <2> QED
    BY <2>3, <2>4, DocTyped
<1>3. ASSUME NEW d, DocFits(d) PROVE Row(d) \in VectorType /\ (d.stored => Row(d) # NoVector)
  <2>1. BestTier(d.entries) \in 0..3 /\ (d.stored => BestTier(d.entries) # 0)
    BY <1>3, BestTierIs DEF DocFits
  <2>2. Row(d).tier = BestTier(d.entries) /\ Row(d) \in VectorType
    BY <2>1 DEF Row, VectorType
  <2> QED
    BY <2>1, <2>2 DEF NoVector
<1> QED
  BY <1>1, <1>2, <1>3

LEMMA FindEffect ==
    ASSUME RecordsInv, NEW o \in Ops, Find(o)
    PROVE  /\ RecordsInv' /\ op'[o].pc \in Asking
           /\ \A p \in Ops : p # o => op'[p] = op[p]
<1>0. PICK r, d : r = op[o] /\ d = doc[LeadOf[o]]
  OBVIOUS
<1>1. /\ r \in OpType /\ DocFits(d) /\ OpFits(o) /\ Home(o) = d /\ d \in DocType
      /\ d.embedded => vector[LeadOf[o]] # NoVector
  BY <1>0, Rows DEF Home
<1>2. /\ r.pc = "asked" /\ UNCHANGED <<doc, vector>>
      /\ op' = [op EXCEPT ![o] = [r EXCEPT !.pc = "found", !.tries = r.tries + 1, !.seen = d]]
  BY <1>0 DEF Find, At
<1>3. r.tries \in 0..Attempts /\ r.tries < Attempts /\ KindOf[o] \notin {"backfill", "reembed"}
  BY <1>0, <1>1, <1>2, OpFields DEF OpFits, At
<1>4. r.tries + 1 \in 0..Attempts
  BY <1>3, RecordsAssumption
<1>5. PICK w : w = [r EXCEPT !.pc = "found", !.tries = r.tries + 1, !.seen = d]
  OBVIOUS
<1>6. OpShape(w) /\ w.pc = "found" /\ w.tries = r.tries + 1 /\ w.seen = d /\ w.row = r.row /\ w.beaten = r.beaten
  <2>1. OpShape(r)
    BY <1>1, OpFields
  <2> QED
    BY <1>5, <2>1 DEF OpShape
<1>7. /\ op' \in [Ops -> OpType] /\ w \in OpType /\ op'[o] = w
      /\ op' = [op EXCEPT ![o] = w] /\ \A p \in Ops : p # o => op'[p] = op[p]
  <2>1. op' = [op EXCEPT ![o] = w]
    BY <1>2, <1>5
  <2>2. /\ w.pc \in {"new", "failed"} \cup Asking \cup Behind /\ w.tries \in 0..Attempts
        /\ w.seen \in DocType /\ w.row \in VectorType /\ w.beaten \in BOOLEAN
    BY <1>1, <1>4, <1>6, OpFields DEF Asking
  <2> QED
    BY <1>6, <2>1, <2>2, Remade
<1>8. Home(o)' = d /\ vector' = vector /\ d.version \in Nat
  BY <1>0, <1>1, <1>2 DEF Home, DocType
<1>9. OpFits(o)'
  BY <1>1, <1>3, <1>6, <1>7, <1>8 DEF OpFits, At, Behind, Slots
<1>10. Moves(o)
  <2>1. ~HasWritten(o)'
    BY <1>6, <1>7 DEF HasWritten, At
  <2>2. ~FlagComes(o)
    BY <1>0, <1>2 DEF FlagComes, At, Waiting
  <2> QED
    BY <1>0, <1>6, <1>7, <1>9, <2>1, <2>2 DEF Moves
<1>11. RecordsInv'
  BY <1>2, <1>6, <1>7, <1>10, OneMoved
<1> QED
  BY <1>6, <1>7, <1>11 DEF Asking

LEMMA FindLastEffect ==
    ASSUME RecordsInv, NEW o \in Ops, FindLast(o)
    PROVE  /\ RecordsInv' /\ op'[o].pc \in Asking
           /\ \A p \in Ops : p # o => op'[p] = op[p]
<1>0. PICK r, d : r = op[o] /\ d = doc[LeadOf[o]]
  OBVIOUS
<1>1. /\ r \in OpType /\ DocFits(d) /\ OpFits(o) /\ Home(o) = d /\ d \in DocType
      /\ d.embedded => vector[LeadOf[o]] # NoVector
  BY <1>0, Rows DEF Home
<1>2. /\ r.pc = "beaten" /\ UNCHANGED <<doc, vector>>
      /\ op' = [op EXCEPT ![o] = [r EXCEPT !.pc = "last", !.seen = d]]
  BY <1>0 DEF FindLast, At
<1>3. KindOf[o] \notin {"backfill", "reembed"} /\ d.stored
  BY <1>0, <1>1, <1>2 DEF OpFits, At
<1>5. PICK w : w = [r EXCEPT !.pc = "last", !.seen = d]
  OBVIOUS
<1>6. OpShape(w) /\ w.pc = "last" /\ w.tries = r.tries /\ w.seen = d /\ w.row = r.row /\ w.beaten = r.beaten
  <2>1. OpShape(r)
    BY <1>1, OpFields
  <2> QED
    BY <1>5, <2>1 DEF OpShape
<1>7. /\ op' \in [Ops -> OpType] /\ w \in OpType /\ op'[o] = w
      /\ op' = [op EXCEPT ![o] = w] /\ \A p \in Ops : p # o => op'[p] = op[p]
  <2>1. op' = [op EXCEPT ![o] = w]
    BY <1>2, <1>5
  <2>2. /\ w.pc \in {"new", "failed"} \cup Asking \cup Behind /\ w.tries \in 0..Attempts
        /\ w.seen \in DocType /\ w.row \in VectorType /\ w.beaten \in BOOLEAN
    BY <1>1, <1>6, OpFields DEF Asking
  <2> QED
    BY <1>6, <2>1, <2>2, Remade
<1>8. Home(o)' = d /\ vector' = vector
  BY <1>0, <1>1, <1>2 DEF Home
<1>9. OpFits(o)'
  BY <1>1, <1>3, <1>6, <1>7, <1>8 DEF OpFits, At, Behind, Slots
<1>10. Moves(o)
  <2>1. ~HasWritten(o)'
    BY <1>6, <1>7 DEF HasWritten, At
  <2>2. ~FlagComes(o)
    BY <1>0, <1>2 DEF FlagComes, At, Waiting
  <2> QED
    BY <1>0, <1>6, <1>7, <1>9, <2>1, <2>2 DEF Moves
<1>11. RecordsInv'
  BY <1>2, <1>6, <1>7, <1>10, OneMoved
<1> QED
  BY <1>6, <1>7, <1>11 DEF Asking

LEMMA ReadToEmbedEffect ==
    ASSUME RecordsInv, NEW o \in Ops, ReadToEmbed(o), At(o, {"stored", "task", "woken"})
    PROVE  /\ RecordsInv' /\ op'[o].pc \in {"outranked", "ready"}
           /\ \A p \in Ops : p # o => op'[p] = op[p]
<1>0. PICK r, d : r = op[o] /\ d = doc[LeadOf[o]]
  OBVIOUS
<1>1. /\ r \in OpType /\ DocFits(d) /\ OpFits(o) /\ Home(o) = d /\ d \in DocType
  BY <1>0, Rows DEF Home
<1> DEFINE q == IF Outranked(o, d) THEN "outranked" ELSE "ready"
<1>2. /\ r.pc \in {"stored", "task", "woken"} /\ UNCHANGED <<doc, vector>>
      /\ op' = [op EXCEPT ![o] = [r EXCEPT !.pc = q, !.row = Row(d)]]
  BY <1>0 DEF ReadToEmbed, At
<1>3. d.stored /\ Row(d) \in VectorType /\ Row(d) # NoVector
  <2>1. d.stored
    BY <1>0, <1>1, <1>2 DEF OpFits, At, Behind, Slots
  <2> QED
    BY <1>1, <2>1, Plain
<1>4. q \in {"outranked", "ready"} /\ (q = "outranked" <=> Outranked(o, d))
  OBVIOUS
<1> HIDE DEF q
<1>5. PICK w : w = [r EXCEPT !.pc = q, !.row = Row(d)]
  OBVIOUS
<1>6. OpShape(w) /\ w.pc = q /\ w.tries = r.tries /\ w.seen = r.seen /\ w.row = Row(d) /\ w.beaten = r.beaten
  <2>1. OpShape(r)
    BY <1>1, OpFields
  <2> QED
    BY <1>5, <2>1 DEF OpShape
<1>7. /\ op' \in [Ops -> OpType] /\ w \in OpType /\ op'[o] = w
      /\ op' = [op EXCEPT ![o] = w] /\ \A p \in Ops : p # o => op'[p] = op[p]
  <2>1. op' = [op EXCEPT ![o] = w]
    BY <1>2, <1>5
  <2>2. /\ w.pc \in {"new", "failed"} \cup Asking \cup Behind /\ w.tries \in 0..Attempts
        /\ w.seen \in DocType /\ w.row \in VectorType /\ w.beaten \in BOOLEAN
    BY <1>1, <1>3, <1>4, <1>6, OpFields DEF Behind, Slots
  <2> QED
    BY <1>6, <2>1, <2>2, Remade
<1>8. Home(o)' = d /\ vector' = vector
  BY <1>0, <1>1, <1>2 DEF Home
<1>9. OpFits(o)'
  BY <1>3, <1>4, <1>6, <1>7, <1>8 DEF OpFits, At, Behind, Slots
<1>10. Moves(o)
  <2>1. HasWritten(o)' => HasWritten(o)
    BY <1>0, <1>2 DEF HasWritten, At
  <2>2. FlagComes(o) => FlagComes(o)'
    BY <1>0, <1>1, <1>2, <1>4, <1>7 DEF FlagComes, At, Waiting
  <2> QED
    BY <1>0, <1>6, <1>7, <1>9, <2>1, <2>2 DEF Moves
<1>11. RecordsInv'
  BY <1>2, <1>6, <1>7, <1>10, OneMoved
<1> QED
  BY <1>4, <1>6, <1>7, <1>11

LEMMA LeaveEffect ==
    ASSUME RecordsInv, NEW o \in Ops, NEW q \in {"over", "unembedded"}, Leave(o, q),
           UNCHANGED <<doc, vector>>, At(o, {"outranked"}) \/ (At(o, {"ready"}) /\ q = "unembedded")
    PROVE  /\ RecordsInv' /\ op'[o].pc = q
           /\ \A p \in Ops : p # o => op'[p] = op[p]
<1>0. PICK r : r = op[o]
  OBVIOUS
<1>1. /\ r \in OpType /\ OpFits(o)
  BY <1>0, Rows
<1>2. op' = [op EXCEPT ![o] = [r EXCEPT !.pc = q, !.row = NoVector]]
  BY <1>0 DEF Leave
<1>5. PICK w : w = [r EXCEPT !.pc = q, !.row = NoVector]
  OBVIOUS
<1>6. OpShape(w) /\ w.pc = q /\ w.tries = r.tries /\ w.seen = r.seen /\ w.row = NoVector /\ w.beaten = r.beaten
  <2>1. OpShape(r)
    BY <1>1, OpFields
  <2> QED
    BY <1>5, <2>1 DEF OpShape
<1>7. /\ op' \in [Ops -> OpType] /\ w \in OpType /\ op'[o] = w
      /\ op' = [op EXCEPT ![o] = w] /\ \A p \in Ops : p # o => op'[p] = op[p]
  <2>1. op' = [op EXCEPT ![o] = w]
    BY <1>2, <1>5
  <2>2. /\ w.pc \in {"new", "failed"} \cup Asking \cup Behind /\ w.tries \in 0..Attempts
        /\ w.seen \in DocType /\ w.row \in VectorType /\ w.beaten \in BOOLEAN
    BY <1>1, <1>6, OpFields, Plain DEF Behind, Slots
  <2> QED
    BY <1>6, <2>1, <2>2, Remade
<1>8. Home(o)' = Home(o) /\ (r.pc = "outranked" \/ (r.pc = "ready" /\ q = "unembedded"))
  BY <1>0 DEF Home, At
<1>9. OpFits(o)'
  BY <1>0, <1>1, <1>6, <1>7, <1>8 DEF OpFits, At, Behind, Slots
<1>10. Moves(o)
  <2>1. HasWritten(o)' => HasWritten(o)
    BY <1>0, <1>8 DEF HasWritten, At
  <2>2. FlagComes(o) => FlagComes(o)'
    BY <1>0, <1>6, <1>7, <1>8 DEF FlagComes, At, Waiting
  <2> QED
    BY <1>0, <1>6, <1>7, <1>9, <2>1, <2>2 DEF Moves
<1>11. RecordsInv'
  BY <1>6, <1>7, <1>10, OneMoved
<1> QED
  BY <1>6, <1>7, <1>11

LEMMA CheckDriftEffect ==
    ASSUME RecordsInv, NEW o \in Ops, CheckDrift(o)
    PROVE  /\ RecordsInv' /\ op'[o].pc \in {"ready", "over"}
           /\ \A p \in Ops : p # o => op'[p] = op[p]
<1>1. op[o].pc = "outranked" /\ UNCHANGED <<doc, vector>> /\ (Goto(o, "ready") \/ Leave(o, "over"))
  BY DEF CheckDrift, At
<1>2. CASE Leave(o, "over")
  BY <1>1, <1>2, LeaveEffect DEF At
<1>3. CASE Goto(o, "ready")
  <2>1. "ready" \in {"new", "failed"} \cup Asking \cup Behind
    BY DEF Behind, Slots
  <2>2. /\ op'[o].pc = "ready" /\ op'[o].beaten = op[o].beaten /\ op'[o] \in OpType
        /\ op'[o].row = op[o].row
        /\ op' = [op EXCEPT ![o] = op'[o]] /\ \A p \in Ops : p # o => op'[p] = op[p]
    BY ZenonT(60), <1>3, <2>1, Labelled
  <2>3. Home(o)' = Home(o) /\ OpFits(o)
    BY <1>1, Rows DEF Home
  <2>4. OpFits(o)'
    BY <1>1, <2>2, <2>3 DEF OpFits, At, Behind, Slots
  <2>5. HasWritten(o)' => HasWritten(o)
    BY <1>1 DEF HasWritten, At
  <2>6. FlagComes(o) => FlagComes(o)'
    BY <2>2 DEF FlagComes, At
  <2>7. RecordsInv'
    BY <1>1, <2>2, <2>4, <2>5, <2>6, OneMoved DEF Moves
  <2> QED
    BY <2>2, <2>7
<1> QED
  BY <1>1, <1>2, <1>3

\* A document that gets new content while one operation moves.
LEMMA DocMoved ==
    ASSUME RecordsInv, NEW o \in Ops, NEW new, DocFits(new), Grown(Home(o), new),
           doc' = [doc EXCEPT ![LeadOf[o]] = new], vector' = vector,
           new.embedded => vector[LeadOf[o]] # NoVector,
           op' \in [Ops -> OpType], \A p \in Ops : p # o => op'[p] = op[p],
           OpFits(o)', Keeps(o)'
    PROVE  /\ DocsOK' /\ OpsOK'
           /\ \A l \in Leads : l # LeadOf[o] => doc'[l] = doc[l]
<1>1. LeadOf[o] \in Leads /\ doc \in [Leads -> DocType] /\ vector \in [Leads -> VectorType]
  BY Rows DEF RecordsInv, DocsOK
<1>2. new \in DocType
  BY DEF DocFits
<1>3. doc' \in [Leads -> DocType] /\ doc'[LeadOf[o]] = new
  BY <1>1, <1>2
<1>4. \A l \in Leads : l # LeadOf[o] => doc'[l] = doc[l]
  BY <1>1
<1>5. ASSUME NEW l \in Leads
      PROVE  DocFits(doc'[l]) /\ (doc'[l].embedded => vector'[l] # NoVector)
  BY <1>3, <1>4 DEF RecordsInv, DocsOK
<1>6. DocsOK'
  BY <1>1, <1>3, <1>5 DEF DocsOK, FieldsFit, Derived, DocFits
<1>7. ASSUME NEW p \in Ops PROVE OpFits(p)' /\ Keeps(p)'
  <2>1. CASE p = o
    BY <2>1
  <2>2. CASE p # o
    <3>1. op'[p] = op[p] /\ LeadOf[p] \in Leads
      BY <2>2, Rows
    <3>2. Home(p)' = Home(p) \/ Grown(Home(p), Home(p)')
      BY <1>3, <1>4, <3>1 DEF Home
    <3> QED
      BY <3>1, <3>2, Unhurt
  <2> QED
    BY <2>1, <2>2
<1>8. OpsOK'
  BY <1>7 DEF OpsOK
<1> QED
  BY <1>4, <1>6, <1>8

LEMMA WriteEffect ==
    ASSUME RecordsInv, NEW o \in Ops, Write(o)
    PROVE  /\ RecordsInv' /\ op'[o].pc \in Asking
           /\ \A p \in Ops : p # o => op'[p] = op[p]
<1>0. PICK r, d : r = op[o] /\ d = doc[LeadOf[o]]
  OBVIOUS
<1>1. /\ r \in OpType /\ DocFits(d) /\ OpFits(o) /\ Home(o) = d /\ d \in DocType
      /\ d.embedded => vector[LeadOf[o]] # NoVector
      /\ LeadOf[o] \in Leads /\ KindOf[o] \in Kinds
  BY <1>0, Rows DEF Home
<1>2. r.pc = "found" /\ vector' = vector
  BY <1>0 DEF Write, At
<1>3. /\ r.seen.version <= d.version /\ (r.seen.version = d.version => r.seen = d)
      /\ KindOf[o] \notin {"backfill", "reembed"}
  BY <1>0, <1>1, <1>2 DEF OpFits, At
<1>4. d.version \in Nat /\ r.seen.version \in Nat /\ r.tries \in 0..Attempts
  BY <1>1, OpFields DEF DocType
<1>5. CASE Unchanged(o)
  <2>1. r.seen = d
    BY <1>0, <1>3, <1>5 DEF Unchanged
  <2>2. PICK new : new = Written(o, d)
    OBVIOUS
  <2>3. /\ doc' = [doc EXCEPT ![LeadOf[o]] = new]
        /\ op' = [op EXCEPT ![o] = [r EXCEPT !.pc = "stored", !.tries = 0, !.seen = NoDoc]]
    BY <1>0, <1>5, <2>1, <2>2 DEF Write
  <2>4. /\ DocFits(new) /\ Grown(d, new) /\ new.entries[Endpoint(o)] # Untold
        /\ Enriched(o) \subseteq new.enriched
        /\ KindOf[o] = "webhook" => new.phone # None
        /\ new.embedded = Flag(o, d) /\ new.source = d.source
    BY <1>1, <1>3, <2>2, WrittenFits
  <2>5. PICK w : w = [r EXCEPT !.pc = "stored", !.tries = 0, !.seen = NoDoc]
    OBVIOUS
  <2>6. /\ OpShape(w) /\ w.pc = "stored" /\ w.tries = 0 /\ w.seen = NoDoc /\ w.row = r.row
        /\ w.beaten = r.beaten
    <3>1. OpShape(r)
      BY <1>1, OpFields
    <3> QED
      BY <2>5, <3>1 DEF OpShape
  <2>7. /\ op' \in [Ops -> OpType] /\ w \in OpType /\ op'[o] = w
        /\ op' = [op EXCEPT ![o] = w] /\ \A p \in Ops : p # o => op'[p] = op[p]
    <3>1. op' = [op EXCEPT ![o] = w]
      BY <2>3, <2>5
    <3>2. /\ w.pc \in {"new", "failed"} \cup Asking \cup Behind /\ w.tries \in 0..Attempts
          /\ w.seen \in DocType /\ w.row \in VectorType /\ w.beaten \in BOOLEAN
      BY <1>1, <1>4, <2>6, OpFields, Plain, RecordsAssumption DEF Asking
    <3> QED
      BY <2>6, <3>1, <3>2, Remade
  <2>8. Home(o)' = new /\ new.stored
    <3>1. doc \in [Leads -> DocType]
      BY DEF RecordsInv, DocsOK
    <3> QED
      BY <1>1, <2>3, <2>4, <3>1 DEF Home, Grown
  <2>9. OpFits(o)'
    BY <2>6, <2>7, <2>8 DEF OpFits, At, Behind, Slots
  <2>10. Keeps(o)'
    BY <2>4, <2>8 DEF Keeps
  <2>11. new.embedded => vector[LeadOf[o]] # NoVector
    BY <1>1, <2>4 DEF Flag
  <2>12. DocsOK' /\ OpsOK' /\ \A l \in Leads : l # LeadOf[o] => doc'[l] = doc[l]
    BY <1>1, <1>2, <2>3, <2>4, <2>7, <2>9, <2>10, <2>11, DocMoved
  <2>13. ASSUME NEW p \in Ops, FlagComes(p) PROVE FlagComes(p)'
    <3>1. p # o
      BY <1>0, <1>2, <2>13 DEF FlagComes, At, Waiting
    <3>2. op'[p] = op[p] /\ Home(p)'.source = Home(p).source
      <4>1. CASE LeadOf[p] = LeadOf[o]
        BY <2>4, <2>7, <2>8, <3>1, <4>1, <1>1 DEF Home
      <4>2. CASE LeadOf[p] # LeadOf[o]
        <5>1. LeadOf[p] \in Leads
          BY Rows
        <5> QED
          BY <2>7, <2>12, <3>1, <4>2, <5>1 DEF Home
      <4> QED
        BY <4>1, <4>2
    <3> QED
      BY <2>13, <3>2 DEF FlagComes, At, Outranked
  <2>14. ASSUME d.embedded, ~new.embedded PROVE FlagComes(o)'
    <3>1. SUFFICES ASSUME Outranked(o, new) PROVE FALSE
      BY <2>6, <2>7, <2>8 DEF FlagComes, At, Waiting, Outranked, Precedence, Endpoint, Tier
    <3>2. d.source \in 0..3 /\ d.source # 0 /\ Precedence(o) < d.source
      BY <1>1, <2>4, <3>1, DocFields DEF Outranked
    <3>3. CASE KindOf[o] = "webhook"
      BY <3>2, <3>3 DEF Precedence, Endpoint, Tier
    <3>4. CASE KindOf[o] # "webhook"
      <4>1. Precedence(o) = Tier[Endpoint(o)]
        BY <1>3 DEF Precedence
      <4> QED
        BY <2>4, <2>14, <3>2, <3>4, <4>1 DEF Flag
    <3> QED
      BY <3>3, <3>4
  <2>15. FlagsOK'
    <3>1. SUFFICES ASSUME \A p \in Ops : ~(op'[p].beaten), NEW l \in Leads, doc'[l].stored,
                          ~(doc'[l].embedded)
                   PROVE  \E p \in Ops : LeadOf[p] = l /\ FlagComes(p)'
      BY DEF FlagsOK, Documents
    <3>2. \A p \in Ops : ~op[p].beaten
      BY <1>0, <2>6, <2>7, <3>1
    <3>3. FlagsOK
      BY DEF RecordsInv
    <3>4. CASE doc[l].stored /\ ~doc[l].embedded
      BY <2>13, <3>2, <3>3, <3>4 DEF FlagsOK, Documents
    <3>5. CASE l = LeadOf[o] /\ d.embedded
      <4>1. FlagComes(o)'
        BY <2>8, <2>14, <3>1, <3>5 DEF Home
      <4> QED
        BY <3>5, <4>1
    <3>6. CASE l = LeadOf[o] /\ ~d.stored
      <4>1. d.source = 0
        BY <1>1, <3>6 DEF DocFits, NoDoc
      <4>2. FlagComes(o)'
        BY <2>4, <2>6, <2>7, <2>8, <4>1 DEF FlagComes, At, Waiting, Outranked
      <4> QED
        BY <3>6, <4>2
    <3>7. CASE l # LeadOf[o]
      BY <2>12, <3>1, <3>4, <3>7
    <3> QED
      BY <1>0, <3>4, <3>5, <3>6, <3>7
  <2> QED
    BY <2>6, <2>7, <2>12, <2>15 DEF RecordsInv, Asking
<1>6. CASE ~Unchanged(o)
  <2> DEFINE q == IF r.tries < Attempts THEN "asked" ELSE "beaten"
  <2>1. /\ op' = [op EXCEPT ![o] = [r EXCEPT !.seen = NoDoc, !.pc = q]]
        /\ UNCHANGED <<doc, vector>>
    BY <1>0, <1>6 DEF Write
  <2>2. q \in {"asked", "beaten"} /\ (q = "asked" => r.tries < Attempts)
    OBVIOUS
  <2> HIDE DEF q
  <2>3. d.stored
    <3>1. d.version # 0
      BY <1>0, <1>3, <1>4, <1>6 DEF Unchanged
    <3> QED
      BY <1>1, <3>1 DEF DocFits
  <2>4. PICK w : w = [r EXCEPT !.seen = NoDoc, !.pc = q]
    OBVIOUS
  <2>5. /\ OpShape(w) /\ w.pc = q /\ w.tries = r.tries /\ w.seen = NoDoc /\ w.row = r.row
        /\ w.beaten = r.beaten
    <3>1. OpShape(r)
      BY <1>1, OpFields
    <3> QED
      BY <2>4, <3>1 DEF OpShape
  <2>6. /\ op' \in [Ops -> OpType] /\ w \in OpType /\ op'[o] = w
        /\ op' = [op EXCEPT ![o] = w] /\ \A p \in Ops : p # o => op'[p] = op[p]
    <3>1. op' = [op EXCEPT ![o] = w]
      BY <2>1, <2>4
    <3>2. /\ w.pc \in {"new", "failed"} \cup Asking \cup Behind /\ w.tries \in 0..Attempts
          /\ w.seen \in DocType /\ w.row \in VectorType /\ w.beaten \in BOOLEAN
      BY <1>1, <2>2, <2>5, OpFields, Plain DEF Asking
    <3> QED
      BY <2>5, <3>1, <3>2, Remade
  <2>7. Home(o)' = d
    BY <1>0, <2>1 DEF Home
  <2>8. OpFits(o)'
    BY <1>3, <2>2, <2>3, <2>5, <2>6, <2>7 DEF OpFits, At, Behind, Slots
  <2>9. Moves(o)
    <3>1. ~HasWritten(o)'
      BY <2>2, <2>5, <2>6 DEF HasWritten, At
    <3>2. ~FlagComes(o)
      BY <1>0, <1>2 DEF FlagComes, At, Waiting
    <3> QED
      BY <1>0, <2>5, <2>6, <2>8, <3>1, <3>2 DEF Moves
  <2>10. RecordsInv'
    BY <2>1, <2>6, <2>9, OneMoved
  <2> QED
    BY <2>2, <2>5, <2>6, <2>10 DEF Asking
<1> QED
  BY <1>5, <1>6

LEMMA WriteLastEffect ==
    ASSUME RecordsInv, NEW o \in Ops, WriteLast(o)
    PROVE  /\ RecordsInv' /\ op'[o].pc \in Asking
           /\ \A p \in Ops : p # o => op'[p] = op[p]
<1>0. PICK r, d : r = op[o] /\ d = doc[LeadOf[o]]
  OBVIOUS
<1>1. /\ r \in OpType /\ DocFits(d) /\ OpFits(o) /\ Home(o) = d
      /\ LeadOf[o] \in Leads /\ doc \in [Leads -> DocType]
  BY <1>0, Rows DEF Home, RecordsInv, DocsOK
<1>2. r.pc = "last" /\ vector' = vector
  BY <1>0 DEF WriteLast, At
<1>3. /\ DocFits(r.seen) /\ (r.seen.embedded => vector[LeadOf[o]] # NoVector) /\ d.stored
      /\ KindOf[o] \notin {"backfill", "reembed"}
  BY <1>0, <1>1, <1>2 DEF OpFits, At
<1>4. PICK new : new = Added(o, r.seen, d)
  OBVIOUS
<1>5. /\ doc' = [doc EXCEPT ![LeadOf[o]] = new]
      /\ op' = [op EXCEPT ![o] = [r EXCEPT !.pc = "stored", !.tries = 0, !.seen = NoDoc, !.beaten = TRUE]]
  BY <1>0, <1>4 DEF WriteLast
<1>6. /\ DocFits(new) /\ Grown(d, new) /\ new.entries[Endpoint(o)] # Untold
      /\ new.embedded => r.seen.embedded
  BY <1>1, <1>3, <1>4, AddedFits
<1>7. PICK w : w = [r EXCEPT !.pc = "stored", !.tries = 0, !.seen = NoDoc, !.beaten = TRUE]
  OBVIOUS
<1>8. /\ OpShape(w) /\ w.pc = "stored" /\ w.tries = 0 /\ w.seen = NoDoc /\ w.row = r.row
      /\ w.beaten = TRUE
  <2>1. OpShape(r)
    BY <1>1, OpFields
  <2> QED
    BY <1>7, <2>1 DEF OpShape
<1>9. /\ op' \in [Ops -> OpType] /\ op'[o] = w /\ \A p \in Ops : p # o => op'[p] = op[p]
  <2>1. op' = [op EXCEPT ![o] = w]
    BY <1>5, <1>7
  <2>2. /\ w.pc \in {"new", "failed"} \cup Asking \cup Behind /\ w.tries \in 0..Attempts
        /\ w.seen \in DocType /\ w.row \in VectorType /\ w.beaten \in BOOLEAN
    <3>1. 0 \in 0..Attempts
      BY RecordsAssumption
    <3>2. w.beaten \in BOOLEAN
      BY <1>8
    <3> QED
      BY <1>1, <1>8, <3>1, <3>2, OpFields, Plain DEF Asking
  <2> QED
    BY <1>8, <2>1, <2>2, Remade
<1>10. Home(o)' = new /\ new.stored
  BY <1>1, <1>5, <1>6 DEF Home, Grown
<1>11. OpFits(o)'
  BY <1>8, <1>9, <1>10 DEF OpFits, At, Behind, Slots
<1>12. Keeps(o)'
  BY <1>6, <1>8, <1>9, <1>10 DEF Keeps
<1>13. DocsOK' /\ OpsOK'
  BY <1>1, <1>2, <1>3, <1>5, <1>6, <1>9, <1>11, <1>12, DocMoved
<1>14. FlagsOK'
  BY <1>8, <1>9 DEF FlagsOK
<1> QED
  BY <1>8, <1>9, <1>13, <1>14 DEF RecordsInv, Asking

LEMMA UpsertEffect ==
    ASSUME RecordsInv, NEW o \in Ops, Upsert(o)
    PROVE  /\ RecordsInv' /\ op'[o].pc = "indexed"
           /\ \A p \in Ops : p # o => op'[p] = op[p]
<1>0. PICK l, w : l = LeadOf[o] /\ w = op[o].row
  OBVIOUS
<1>1. /\ op[o].pc = "ready" /\ Goto(o, "indexed") /\ doc' = doc
      /\ vector' = [vector EXCEPT ![l] = w]
  BY <1>0 DEF Upsert, At
<1>2. /\ l \in Leads /\ w \in VectorType /\ w # NoVector /\ OpFits(o) /\ Keeps(o)
      /\ vector \in [Leads -> VectorType]
  <2>1. op[o] \in OpType /\ OpFits(o)
    BY Rows
  <2>2. w # NoVector
    BY <1>0, <1>1, <2>1 DEF OpFits, At
  <2> QED
    BY <1>0, <2>1, <2>2, Rows, OpFields DEF RecordsInv, DocsOK
<1>3. /\ vector' \in [Leads -> VectorType] /\ vector'[l] # NoVector
      /\ \A m \in Leads : vector[m] # NoVector => vector'[m] # NoVector
  BY <1>1, <1>2
<1>4. DocsOK'
  BY <1>1, <1>3 DEF RecordsInv, DocsOK
<1>5. "indexed" \in {"new", "failed"} \cup Asking \cup Behind
  BY DEF Behind, Slots
<1>6. /\ op' \in [Ops -> OpType] /\ op'[o].pc = "indexed" /\ op'[o].beaten = op[o].beaten
      /\ op'[o].row = w /\ \A p \in Ops : p # o => op'[p] = op[p]
  BY <1>0, <1>1, <1>5, Labelled
<1>7. \A p \in Ops : Home(p)' = Home(p) /\ LeadOf[p] \in Leads
  BY <1>1, Rows DEF Home
<1>8. OpFits(o)' /\ Keeps(o)'
  <2>1. OpFits(o)'
    BY <1>0, <1>1, <1>2, <1>3, <1>6, <1>7 DEF OpFits, At, Behind, Slots
  <2>2. HasWritten(o)' => HasWritten(o)
    BY <1>1 DEF HasWritten, At
  <2> QED
    BY <1>2, <1>6, <1>7, <2>1, <2>2 DEF Keeps
<1>9. ASSUME NEW p \in Ops PROVE OpFits(p)' /\ Keeps(p)'
  BY <1>3, <1>6, <1>7, <1>8, Unhurt
<1>10. OpsOK'
  BY <1>6, <1>9 DEF OpsOK
<1>11. ASSUME NEW p \in Ops, FlagComes(p) PROVE FlagComes(p)'
  <2>1. CASE p = o
    BY <1>6, <2>1 DEF FlagComes, At
  <2>2. CASE p # o
    BY <1>6, <1>7, <1>11, <2>2 DEF FlagComes, At, Outranked
  <2> QED
    BY <2>1, <2>2
<1>12. FlagsOK'
  <2>1. FlagsOK
    BY DEF RecordsInv
  <2>2. (\A p \in Ops : ~(op'[p].beaten)) => \A p \in Ops : ~op[p].beaten
    BY <1>6
  <2> QED
    BY <1>1, <1>11, <2>1, <2>2 DEF FlagsOK, Documents
<1> QED
  BY <1>4, <1>6, <1>10, <1>12 DEF RecordsInv

LEMMA MarkEffect ==
    ASSUME RecordsInv, NEW o \in Ops, Mark(o)
    PROVE  /\ RecordsInv' /\ op'[o].pc = "over"
           /\ \A p \in Ops : p # o => op'[p] = op[p]
<1>0. PICK r, d : r = op[o] /\ d = doc[LeadOf[o]]
  OBVIOUS
<1>1. /\ r \in OpType /\ DocFits(d) /\ OpFits(o) /\ Keeps(o) /\ Home(o) = d
      /\ LeadOf[o] \in Leads /\ doc \in [Leads -> DocType] /\ Precedence(o) \in 0..3
  BY <1>0, Rows DEF Home, RecordsInv, DocsOK
<1>2. r.pc = "indexed" /\ vector' = vector
  BY <1>0 DEF Mark, At
<1>3. d.stored /\ vector[LeadOf[o]] # NoVector
  BY <1>0, <1>1, <1>2 DEF OpFits, At, Behind, Slots
<1>4. PICK source : source = Max({Precedence(o), r.row.tier})
  OBVIOUS
<1>5. source \in 0..3
  <2>1. r.row.tier \in 0..3
    BY <1>1, OpFields DEF VectorType
  <2>2. {Precedence(o), r.row.tier} \in SUBSET (0..3) /\ {Precedence(o), r.row.tier} # {}
    BY <1>1, <2>1
  <2>3. Max({Precedence(o), r.row.tier}) \in {Precedence(o), r.row.tier}
    BY <2>2, SmallMax
  <2> QED
    BY <1>4, <2>2, <2>3
<1>6. PICK new : new = Marked(d, source)
  OBVIOUS
<1>7. /\ doc' = [doc EXCEPT ![LeadOf[o]] = new]
      /\ op' = [op EXCEPT ![o] = [r EXCEPT !.pc = "over", !.row = NoVector]]
  BY <1>0, <1>4, <1>6 DEF Mark, Leave
<1>8. DocFits(new) /\ Grown(d, new) /\ new.embedded
  BY <1>1, <1>3, <1>5, <1>6, MarkedFits
<1>9. PICK w : w = [r EXCEPT !.pc = "over", !.row = NoVector]
  OBVIOUS
<1>10. /\ OpShape(w) /\ w.pc = "over" /\ w.tries = r.tries /\ w.seen = r.seen /\ w.row = NoVector
       /\ w.beaten = r.beaten
  <2>1. OpShape(r)
    BY <1>1, OpFields
  <2> QED
    BY <1>9, <2>1 DEF OpShape
<1>11. /\ op' \in [Ops -> OpType] /\ op'[o] = w /\ \A p \in Ops : p # o => op'[p] = op[p]
  <2>1. op' = [op EXCEPT ![o] = w]
    BY <1>7, <1>9
  <2>2. /\ w.pc \in {"new", "failed"} \cup Asking \cup Behind /\ w.tries \in 0..Attempts
        /\ w.seen \in DocType /\ w.row \in VectorType /\ w.beaten \in BOOLEAN
    BY <1>1, <1>10, OpFields, Plain DEF Behind
  <2> QED
    BY <1>10, <2>1, <2>2, Remade
<1>12. Home(o)' = new /\ new.stored
  BY <1>1, <1>7, <1>8 DEF Home, Grown
<1>13. OpFits(o)'
  BY <1>10, <1>11, <1>12 DEF OpFits, At, Behind, Slots
<1>14. Keeps(o)'
  <2>1. SUFFICES ASSUME HasWritten(o)' PROVE Keeps(o)'
    BY DEF Keeps
  <2>2. HasWritten(o)
    BY <1>0, <1>2, <2>1 DEF HasWritten, At
  <2>3. Endpoint(o) \in Endpoints
    BY <2>2, Rows, EndpointsAre DEF HasWritten, Endpoint, Kinds
  <2> QED
    BY <1>0, <1>1, <1>8, <1>10, <1>11, <1>12, <2>2, <2>3 DEF Keeps, Grown
<1>15. DocsOK' /\ OpsOK' /\ \A l \in Leads : l # LeadOf[o] => doc'[l] = doc[l]
  BY <1>1, <1>2, <1>3, <1>7, <1>8, <1>11, <1>13, <1>14, DocMoved
<1>16. FlagsOK'
  <2>1. SUFFICES ASSUME \A p \in Ops : ~(op'[p].beaten), NEW l \in Leads, doc'[l].stored,
                        ~(doc'[l].embedded)
                 PROVE  \E p \in Ops : LeadOf[p] = l /\ FlagComes(p)'
    BY DEF FlagsOK, Documents
  <2>2. l # LeadOf[o] /\ doc'[l] = doc[l]
    BY <1>8, <1>12, <1>15, <2>1 DEF Home
  <2>3. \A p \in Ops : ~op[p].beaten
    BY <1>0, <1>10, <1>11, <2>1
  <2>4. PICK p \in Ops : LeadOf[p] = l /\ FlagComes(p)
    BY <2>1, <2>2, <2>3 DEF RecordsInv, FlagsOK, Documents
  <2>5. op'[p] = op[p] /\ Home(p)' = Home(p)
    BY <1>11, <2>2, <2>4 DEF Home
  <2>6. FlagComes(p)'
    BY <2>4, <2>5 DEF FlagComes, At, Outranked
  <2> QED
    BY <2>4, <2>6
<1> QED
  BY <1>10, <1>11, <1>15, <1>16 DEF RecordsInv

-----------------------------------------------------------------------------
(***************************************************************************)
(* The job.                                                                *)
(***************************************************************************)
LEMMA JobItems ==
    /\ Len(Items) \in Nat /\ DOMAIN Items = 1..Len(Items)
    /\ \A i \in 1..Len(Items) :
          Items[i] \in Ops /\ Items[i] \in InJob /\ KindOf[Items[i]] \notin {"backfill", "reembed"}
    /\ \A o \in InJob : o \in Ops /\ \E i \in 1..Len(Items) : o = Items[i]
    /\ \A i, j \in 1..Len(Items) : Items[i] = Items[j] => i = j
    /\ Sentinel \notin Ops /\ Sentinel \notin InJob
<1>1. Items \in Seq(Ops)
  BY EnrichmentAssumption
<1>2. Len(Items) \in Nat /\ DOMAIN Items = 1..Len(Items) /\ \A i \in 1..Len(Items) : Items[i] \in Ops
  BY <1>1
<1>3. \A i \in 1..Len(Items) : Items[i] \in InJob
  BY <1>2 DEF InJob, ToSet
<1>4. \A o \in InJob : \E i \in 1..Len(Items) : o = Items[i]
  BY <1>2 DEF InJob, ToSet
<1>5. \A i, j \in 1..Len(Items) : Items[i] = Items[j] => i = j
  BY <1>2, EnrichmentAssumption DEF IsInjective
<1>6. \A i \in 1..Len(Items) : KindOf[Items[i]] \notin {"backfill", "reembed"}
  BY <1>2, EnrichmentAssumption
<1>7. Sentinel \notin Ops
  BY EnrichmentAssumption DEF Sentinel
<1> QED
  BY <1>2, <1>3, <1>4, <1>5, <1>6, <1>7

\* How an item of the job may move while the job is where it is.
ItemStays(o) ==
    \/ op'[o].pc = op[o].pc
    \/ At(o, Asking) /\ op'[o].pc \in Asking \cup {"failed"}
    \/ At(o, {"task"} \cup Slots) /\ op'[o].pc \in Slots \cup {"over", "unembedded"}
    \/ At(o, {"task"} \cup Slots) /\ op'[o].pc = "left" /\ embedding.state = "canceled"

LEMMA JobStands ==
    ASSUME JobInv, JobTypes', UNCHANGED <<told, queue, consumer>>,
           ingest'.pc = ingest.pc, ingest'.at = ingest.at, ingest.cancelled => ingest'.cancelled,
           embedding'.state = embedding.state \/ (embedding.state = "open" /\ embedding'.state = "canceled"),
           \A o \in InJob : ItemStays(o)
    PROVE  JobInv'
<1>1. /\ JobTypes /\ ItemsOK /\ ToldOK /\ QueueOK
      /\ ingest.at \in 0..Len(Items)
  BY DEF JobInv, JobTypes
<1>2. ItemsOK'
  <2>1. ASSUME NEW i \in DOMAIN Items
        PROVE  /\ i > ingest'.at => At(Items[i], {"new"})'
               /\ i < ingest'.at \/ (i = ingest'.at /\ ingest'.pc = "over") =>
                      At(Items[i], {"failed"} \cup Behind)'
               /\ i = ingest'.at /\ ingest'.pc = "running" => At(Items[i], {"failed"} \cup Asking)'
    <3>1. ItemStays(Items[i])
      BY JobItems
    <3>2. /\ i > ingest.at => At(Items[i], {"new"})
          /\ i < ingest.at \/ (i = ingest.at /\ ingest.pc = "over") =>
                 At(Items[i], {"failed"} \cup Behind)
          /\ i = ingest.at /\ ingest.pc = "running" => At(Items[i], {"failed"} \cup Asking)
      BY <1>1 DEF ItemsOK
    <3>3. /\ At(Items[i], {"new"}) => At(Items[i], {"new"})'
          /\ At(Items[i], {"failed"} \cup Behind) => At(Items[i], {"failed"} \cup Behind)'
          /\ At(Items[i], {"failed"} \cup Asking) => At(Items[i], {"failed"} \cup Asking)'
      BY <3>1 DEF ItemStays, At, Asking, Behind, Slots
    <3> QED
      BY <3>2, <3>3
  <2>2. (ingest'.pc = "pending" => ingest'.at = 0) /\ (ingest'.pc = "running" => ingest'.at # 0)
    BY <1>1 DEF ItemsOK
  <2> QED
    BY <2>1, <2>2 DEF ItemsOK
<1>3. ToldOK'
  <2>1. ASSUME NEW i \in DOMAIN told, i <= ingest.at
        PROVE  told[i].item = Items[i] /\ (told[i].type = "ids" => At(Items[i], Behind)')
    <3>1. told[i].item = Items[i] /\ (told[i].type = "ids" => At(Items[i], Behind))
      BY <1>1, <2>1 DEF ToldOK
    <3>2. i \in 1..Len(Items)
      <4>1. i \in Nat /\ i # 0
        BY <1>1 DEF JobTypes
      <4> QED
        BY <1>1, <2>1, <4>1, JobItems
    <3>3. ItemStays(Items[i])
      BY <3>2, JobItems
    <3> QED
      BY <3>1, <3>3 DEF ItemStays, At, Asking, Behind, Slots
  <2>2. ingest.pc = "over" =>
          /\ told[ingest.at + 1] = Event("complete", None)
          /\ ingest'.cancelled \/ ingest.at = Len(Items)
    BY <1>1 DEF ToldOK
  <2>3. Len(told) = CASE ingest.pc = "pending" -> 0
                      [] ingest.pc = "running" -> ingest.at - 1
                      [] ingest.pc = "over" -> ingest.at + 1
    BY <1>1 DEF ToldOK
  <2> QED
    BY <2>1, <2>2, <2>3 DEF ToldOK, Event
<1>4. QueueOK'
  <2>1. ASSUME NEW o \in InJob
        PROVE  /\ At(o, {"queued"})' <=> At(o, {"queued"})
               /\ At(o, {"task"} \cup Slots)' => At(o, {"task"} \cup Slots)
               /\ At(o, {"left"})' => At(o, {"left"}) \/ embedding.state = "canceled"
    <3>1. ItemStays(o)
      OBVIOUS
    <3> QED
      BY <3>1 DEF ItemStays, At, Asking, Slots
  <2>2. \A i \in DOMAIN queue : queue[i] # Sentinel => queue[i] \in InJob
    BY <1>1 DEF QueueOK
  <2>3. \A i \in DOMAIN queue : IF queue[i] = Sentinel THEN i = Len(queue) /\ ingest'.pc = "over"
                                ELSE At(queue[i], {"queued"})'
    BY <1>1, <2>1, <2>2 DEF QueueOK
  <2>4. \A o \in InJob : At(o, {"queued"})' => \E i \in DOMAIN queue : queue[i] = o
    BY <1>1, <2>1 DEF QueueOK
  <2>5. consumer = "over" => \A o \in InJob : ~At(o, {"task"} \cup Slots)'
    BY <1>1, <2>1 DEF QueueOK
  <2>6. embedding'.state = "closed" => consumer = "over"
    BY <1>1 DEF QueueOK
  <2>7. \A o \in InJob : At(o, {"left"})' => embedding'.state = "canceled"
    BY <1>1, <2>1 DEF QueueOK
  <2>8. /\ queue \in Seq(InJob \cup {Sentinel})
        /\ \A i, j \in DOMAIN queue : queue[i] = queue[j] => i = j
        /\ consumer # "taking" => queue = << >> /\ ingest'.pc = "over"
    BY <1>1 DEF QueueOK
  <2> QED
    BY <2>3, <2>4, <2>5, <2>6, <2>7, <2>8 DEF QueueOK, InJob
<1> QED
  BY <1>2, <1>3, <1>4 DEF JobInv

LEMMA FaultCounts ==
    ASSUME JobTypes, faults' = faults \/ Fault, UNCHANGED jobVars
    PROVE  JobTypes'
<1>1. faults' \in 0..MaxFaults
  BY RecordsAssumption DEF JobTypes, Fault
<1> QED
  BY <1>1 DEF JobTypes, jobVars

LEMMA AnswerEffect ==
    ASSUME RecordsInv, NEW o \in Ops, ApolloFails(o) \/ WriteStep(o)
    PROVE  /\ RecordsInv' /\ At(o, Asking) /\ op'[o].pc \in Asking \cup {"failed"}
           /\ \A p \in Ops : p # o => op'[p] = op[p]
           /\ faults' = faults \/ Fault
<1>1. CASE ApolloFails(o)
  <2>1. Goto(o, "failed") /\ op[o].pc = "asked" /\ Fault
    BY <1>1 DEF ApolloFails, At
  <2>2. op'[o].pc = "failed" /\ \A p \in Ops : p # o => op'[p] = op[p]
    BY <2>1, Labelled
  <2> QED
    BY <1>1, <2>1, <2>2, ApolloFailsEffect DEF At, Asking
<1>2. CASE Find(o)
  BY <1>2, FindEffect DEF Find, At, Asking
<1>3. CASE Write(o)
  BY <1>3, WriteEffect DEF Write, At, Asking
<1>4. CASE FindLast(o)
  BY <1>4, FindLastEffect DEF FindLast, At, Asking
<1>5. CASE WriteLast(o)
  BY <1>5, WriteLastEffect DEF WriteLast, At, Asking
<1> QED
  BY <1>1, <1>2, <1>3, <1>4, <1>5 DEF WriteStep

LEMMA EmbedStepEffect ==
    ASSUME RecordsInv, NEW o \in Ops, EmbedStep(o)
    PROVE  /\ RecordsInv' /\ At(o, Slots) /\ op'[o].pc \in Slots \cup {"over", "unembedded"}
           /\ \A p \in Ops : p # o => op'[p] = op[p]
           /\ faults' = faults \/ Fault
<1>1. CASE CheckDrift(o)
  <2>1. op[o].pc = "outranked" /\ (faults' = faults \/ Fault)
    BY <1>1 DEF CheckDrift, At
  <2>2. /\ RecordsInv' /\ op'[o].pc \in {"ready", "over"}
        /\ \A p \in Ops : p # o => op'[p] = op[p]
    BY <1>1, CheckDriftEffect
  <2> QED
    BY <2>1, <2>2 DEF At, Slots
<1>2. CASE Upsert(o)
  <2>1. op[o].pc = "ready" /\ faults' = faults
    BY <1>2 DEF Upsert, At
  <2> QED
    BY <1>2, <2>1, UpsertEffect DEF At, Slots
<1>3. CASE EmbedFails(o)
  <2>1. op[o].pc = "ready" /\ Fault /\ Leave(o, "unembedded") /\ UNCHANGED <<doc, vector>>
    BY <1>3 DEF EmbedFails, At
  <2>2. /\ RecordsInv' /\ op'[o].pc = "unembedded"
        /\ \A p \in Ops : p # o => op'[p] = op[p]
    BY <2>1, LeaveEffect DEF At
  <2> QED
    BY <2>1, <2>2 DEF At, Slots
<1>4. CASE Mark(o)
  <2>1. op[o].pc = "indexed" /\ faults' = faults
    BY <1>4 DEF Mark, At
  <2> QED
    BY <1>4, <2>1, MarkEffect DEF At, Slots
<1> QED
  BY <1>1, <1>2, <1>3, <1>4 DEF EmbedStep

\* A step of an item of the job beside the job.
LEMMA ItemStepEffect ==
    ASSUME LeadsInv, NEW o \in InJob, ApolloFails(o) \/ WriteStep(o) \/ EmbedStep(o), UNCHANGED jobVars
    PROVE  LeadsInv'
<1>0. /\ RecordsInv /\ JobInv /\ JobTypes /\ o \in Ops
      /\ \A p \in InJob : p \in Ops
  BY JobItems DEF LeadsInv, JobInv
<1>1. /\ RecordsInv' /\ (faults' = faults \/ Fault)
      /\ \A p \in Ops : p # o => op'[p] = op[p]
      /\ ItemStays(o)
  <2>1. CASE EmbedStep(o)
    BY <1>0, <2>1, EmbedStepEffect DEF ItemStays, At
  <2>2. CASE ApolloFails(o) \/ WriteStep(o)
    BY <1>0, <2>2, AnswerEffect DEF ItemStays, At
  <2> QED
    BY <2>1, <2>2
<1>2. \A p \in InJob : ItemStays(p)
  BY <1>0, <1>1 DEF ItemStays
<1>3. JobTypes'
  BY <1>0, <1>1, FaultCounts
<1>4. JobInv'
  BY <1>0, <1>2, <1>3, JobStands DEF jobVars
<1> QED
  BY <1>1, <1>4 DEF LeadsInv

\* The others do not touch the job.
LEMMA OtherStepEffect ==
    ASSUME LeadsInv, NEW o \in Others, OtherStep(o)
    PROVE  LeadsInv'
<1>0. /\ RecordsInv /\ JobInv /\ JobTypes /\ o \in Ops /\ o \notin InJob /\ UNCHANGED jobVars
      /\ \A p \in InJob : p \in Ops
  BY JobItems DEF LeadsInv, JobInv, Others, OtherStep
<1>1. /\ RecordsInv' /\ (faults' = faults \/ Fault)
      /\ \A p \in Ops : p # o => op'[p] = op[p]
  <2>1. CASE EmbedStep(o)
    BY <1>0, <2>1, EmbedStepEffect
  <2>2. CASE ApolloFails(o) \/ WriteStep(o)
    BY <1>0, <2>2, AnswerEffect
  <2>3. CASE Ask(o)
    <3>1. Goto(o, "asked") /\ faults' = faults
      BY <2>3 DEF Ask
    <3>2. "asked" \in {"new", "failed"} \cup Asking \cup Behind
      BY DEF Asking
    <3>3. \A p \in Ops : p # o => op'[p] = op[p]
      BY <1>0, <3>1, <3>2, Labelled
    <3> QED
      BY <1>0, <2>3, <3>1, <3>3, AskEffect
  <2>4. CASE Select(o)
    <3>1. Goto(o, "stored") /\ faults' = faults
      BY <2>4 DEF Select
    <3>2. "stored" \in {"new", "failed"} \cup Asking \cup Behind
      BY DEF Asking
    <3>3. \A p \in Ops : p # o => op'[p] = op[p]
      BY <1>0, <3>1, <3>2, Labelled
    <3> QED
      BY <1>0, <2>4, <3>1, <3>3, SelectEffect
  <2>5. CASE At(o, {"stored"}) /\ ReadToEmbed(o)
    BY <1>0, <2>5, ReadToEmbedEffect DEF At, ReadToEmbed
  <2> QED
    BY <2>1, <2>2, <2>3, <2>4, <2>5 DEF OtherStep
<1>2. \A p \in InJob : ItemStays(p)
  BY <1>0, <1>1 DEF ItemStays
<1>3. JobTypes'
  BY <1>0, <1>1, FaultCounts
<1>4. JobInv'
  BY <1>0, <1>2, <1>3, JobStands DEF jobVars
<1> QED
  BY <1>1, <1>4 DEF LeadsInv

LEMMA TaskEffect ==
    ASSUME LeadsInv, NEW o \in InJob, StartTask(o) \/ WakeTask(o)
    PROVE  LeadsInv'
<1>0. /\ RecordsInv /\ JobInv /\ JobTypes /\ o \in Ops /\ UNCHANGED jobVars /\ faults' = faults
      /\ At(o, {"task", "woken"}) /\ (\A p \in InJob : p \in Ops) /\ UNCHANGED <<doc, vector>>
  BY JobItems DEF LeadsInv, JobInv, StartTask, WakeTask, Begin, ReadToEmbed, At
<1>1. embedding.state # "closed" /\ embedding.state \in {"open", "canceled", "closed"}
  BY <1>0 DEF JobInv, QueueOK, JobTypes, At, Slots
<1>2. \/ Goto(o, "held") /\ op[o].pc = "task"
      \/ Goto(o, "left") /\ embedding.state = "canceled"
      \/ ReadToEmbed(o)
  BY <1>1 DEF StartTask, WakeTask, Begin, At
<1>3. RecordsInv' /\ ItemStays(o) /\ \A p \in Ops : p # o => op'[p] = op[p]
  <2>1. CASE Goto(o, "held") /\ op[o].pc = "task"
    <3>1. "held" \in {"new", "failed"} \cup Asking \cup Behind
      BY DEF Behind, Slots
    <3>2. op'[o].pc = "held" /\ \A p \in Ops : p # o => op'[p] = op[p]
      BY <1>0, <2>1, <3>1, Labelled
    <3>3. RecordsInv'
      BY <1>0, <2>1, RelabelOne DEF Labels
    <3> QED
      BY <2>1, <3>2, <3>3 DEF ItemStays, At, Slots
  <2>2. CASE Goto(o, "left") /\ embedding.state = "canceled"
    <3>1. "left" \in {"new", "failed"} \cup Asking \cup Behind
      BY DEF Behind
    <3>2. op'[o].pc = "left" /\ \A p \in Ops : p # o => op'[p] = op[p]
      BY <1>0, <2>2, <3>1, Labelled
    <3>3. <<op[o].pc, "left">> \in Labels
      BY <1>0 DEF At, Labels
    <3>4. RecordsInv'
      BY <1>0, <2>2, <3>3, RelabelOne
    <3> QED
      BY <1>0, <2>2, <3>2, <3>4 DEF ItemStays, At, Slots
  <2>3. CASE ReadToEmbed(o)
    <3>1. At(o, {"stored", "task", "woken"})
      BY <1>0 DEF At
    <3>2. /\ RecordsInv' /\ op'[o].pc \in {"outranked", "ready"}
          /\ \A p \in Ops : p # o => op'[p] = op[p]
      BY <1>0, <2>3, <3>1, ReadToEmbedEffect
    <3> QED
      BY <1>0, <3>2 DEF ItemStays, At, Slots
  <2> QED
    BY <1>2, <2>1, <2>2, <2>3
<1>4. \A p \in InJob : ItemStays(p)
  BY <1>0, <1>3 DEF ItemStays
<1>5. JobTypes'
  BY <1>0, FaultCounts
<1>6. JobInv'
  BY <1>0, <1>4, <1>5, JobStands DEF jobVars
<1> QED
  BY <1>3, <1>6 DEF LeadsInv

LEMMA WokenAre ==
    ASSUME LeadsInv, op' = Woken, UNCHANGED <<doc, vector>>
    PROVE  RecordsInv' /\ \A o \in InJob : ItemStays(o)
<1>0. RecordsInv
  BY DEF LeadsInv
<1>1. /\ op' = [o \in Ops |-> op'[o]]
      /\ \A o \in Ops : op'[o] = IF op[o].pc = "held" THEN [op[o] EXCEPT !.pc = "woken"] ELSE op[o]
  BY DEF Woken
<1>2. \A o \in Ops : op'[o] = op[o] \/ Relabelled(o, "woken")
  BY <1>1 DEF Relabelled, Labels
<1>3. RecordsInv'
  BY <1>0, <1>1, <1>2, Relabel
<1>4. ASSUME NEW o \in InJob PROVE ItemStays(o)
  <2>1. o \in Ops
    BY JobItems
  <2>2. CASE op[o].pc = "held"
    <3>1. op[o] \in OpType
      BY <1>0, <2>1, Rows
    <3>2. op'[o].pc = "woken"
      BY <1>1, <2>1, <2>2, <3>1 DEF OpType
    <3> QED
      BY <2>2, <3>2 DEF ItemStays, At, Slots
  <2>3. CASE op[o].pc # "held"
    BY <1>1, <2>1, <2>3 DEF ItemStays
  <2> QED
    BY <2>2, <2>3
<1> QED
  BY <1>3, <1>4

LEMMA ControlEffect ==
    ASSUME LeadsInv, Controlling
    PROVE  LeadsInv'
<1>0. RecordsInv /\ JobInv /\ JobTypes
  BY DEF LeadsInv, JobInv
<1>1. Control => controls' \in 0..MaxControls
  BY <1>0, EnrichmentAssumption DEF Control, JobTypes
<1>2. CASE CancelIngest
  <2>1. /\ UNCHANGED <<recordVars, told, queue, consumer, embedding>> /\ controls' \in 0..MaxControls
        /\ ingest' = [ingest EXCEPT !.cancelled = TRUE]
    BY <1>1, <1>2 DEF CancelIngest
  <2>2. /\ ingest' \in [pc : {"pending", "running", "over"}, at : 0..Len(Items), cancelled : BOOLEAN]
        /\ ingest'.pc = ingest.pc /\ ingest'.at = ingest.at /\ ingest'.cancelled
    BY <1>0, <2>1 DEF JobTypes
  <2>3. JobTypes'
    BY <1>0, <2>1, <2>2 DEF JobTypes, recordVars
  <2>4. \A o \in InJob : ItemStays(o)
    BY <2>1 DEF ItemStays, recordVars
  <2>5. JobInv'
    BY <1>0, <2>1, <2>2, <2>3, <2>4, JobStands
  <2>6. RecordsInv'
    <3>1. UNCHANGED <<doc, vector>> /\ \A o \in Ops : op'[o] = op[o]
      BY <2>1 DEF recordVars
    <3>2. op' \in [Ops -> OpType]
      BY <1>0, <2>1 DEF RecordsInv, OpsOK, recordVars
    <3> QED
      BY <1>0, <3>1, <3>2, Moved
  <2> QED
    BY <2>5, <2>6 DEF LeadsInv
<1>3. CASE CancelEmbedding
  <2>1. /\ UNCHANGED <<doc, vector, faults, ingest, told, queue, consumer>>
        /\ controls' \in 0..MaxControls /\ embedding.state = "open" /\ op' = Woken
        /\ embedding' = [embedding EXCEPT !.state = "canceled"]
    BY <1>1, <1>3 DEF CancelEmbedding
  <2>2. /\ embedding' \in [state : {"open", "canceled", "closed"}, paused : BOOLEAN]
        /\ embedding'.state = "canceled"
    BY <1>0, <2>1 DEF JobTypes
  <2>3. JobTypes'
    BY <1>0, <2>1, <2>2 DEF JobTypes
  <2>4. RecordsInv' /\ \A o \in InJob : ItemStays(o)
    BY <2>1, WokenAre
  <2>5. JobInv'
    BY <1>0, <2>1, <2>2, <2>3, <2>4, JobStands
  <2> QED
    BY <2>4, <2>5 DEF LeadsInv
<1>4. ASSUME NEW paused \in BOOLEAN, SetPaused(paused) PROVE LeadsInv'
  <2>1. /\ UNCHANGED <<doc, vector, faults, ingest, told, queue, consumer>>
        /\ controls' \in 0..MaxControls /\ (op' = op \/ op' = Woken)
        /\ embedding' = [embedding EXCEPT !.paused = paused]
    BY <1>1, <1>4 DEF SetPaused
  <2>2. /\ embedding' \in [state : {"open", "canceled", "closed"}, paused : BOOLEAN]
        /\ embedding'.state = embedding.state
    BY <1>0, <2>1 DEF JobTypes
  <2>3. JobTypes'
    BY <1>0, <2>1, <2>2 DEF JobTypes
  <2>4. RecordsInv' /\ \A o \in InJob : ItemStays(o)
    <3>1. CASE op' = Woken
      BY <2>1, <3>1, WokenAre
    <3>2. CASE op' = op
      <4>1. op' \in [Ops -> OpType] /\ \A o \in Ops : op'[o] = op[o]
        BY <1>0, <3>2 DEF RecordsInv, OpsOK
      <4>2. RecordsInv'
        BY <1>0, <2>1, <4>1, Moved
      <4> QED
        BY <3>2, <4>2 DEF ItemStays
    <3> QED
      BY <2>1, <3>1, <3>2
  <2>5. JobInv'
    BY <1>0, <2>1, <2>2, <2>3, <2>4, JobStands
  <2> QED
    BY <2>4, <2>5 DEF LeadsInv
<1> QED
  BY <1>2, <1>3, <1>4 DEF Controlling

LEMMA JoinEffect ==
    ASSUME LeadsInv, Join
    PROVE  LeadsInv'
<1>0. /\ RecordsInv /\ JobInv /\ JobTypes /\ ItemsOK /\ ToldOK /\ QueueOK
      /\ consumer = "joining" /\ consumer' = "over" /\ UNCHANGED <<recordVars, ingest, told, queue, controls>>
      /\ embedding' = [embedding EXCEPT !.state = IF @ = "open" THEN "closed" ELSE @]
      /\ \A o \in InJob : ~At(o, {"task"}) /\ o \notin InSlot
  BY DEF LeadsInv, JobInv, Join
<1>1. /\ embedding' \in [state : {"open", "canceled", "closed"}, paused : BOOLEAN]
      /\ embedding'.state = IF embedding.state = "open" THEN "closed" ELSE embedding.state
  BY <1>0 DEF JobTypes
<1>2. JobTypes'
  BY <1>0, <1>1 DEF JobTypes, recordVars
<1>3. op' = op /\ UNCHANGED <<doc, vector>>
  BY <1>0 DEF recordVars
<1>4. RecordsInv'
  <2>1. op' \in [Ops -> OpType] /\ \A o \in Ops : op'[o] = op[o]
    BY <1>0, <1>3 DEF RecordsInv, OpsOK
  <2> QED
    BY <1>0, <1>3, <2>1, Moved
<1>5. ItemsOK' /\ ToldOK'
  BY <1>0, <1>3 DEF ItemsOK, ToldOK, At, Event
<1>6. \A o \in InJob : ~At(o, {"task"} \cup Slots)
  BY <1>0 DEF InSlot, At, Slots
<1>7. queue = << >> /\ ingest.pc = "over"
  BY <1>0 DEF QueueOK
<1>8. QueueOK'
  <2>1. \A o \in InJob : At(o, {"left"}) => embedding'.state = "canceled"
    BY <1>0, <1>1 DEF QueueOK
  <2>2. /\ queue \in Seq(InJob \cup {Sentinel}) /\ DOMAIN queue = {}
        /\ \A o \in InJob : At(o, {"queued"}) => \E i \in DOMAIN queue : queue[i] = o
    BY <1>0, <1>7 DEF QueueOK
  <2> QED
    BY <1>0, <1>3, <1>6, <1>7, <2>1, <2>2 DEF QueueOK, At, InJob
<1> QED
  BY <1>2, <1>4, <1>5, <1>8 DEF LeadsInv, JobInv

LEMMA TakeEffect ==
    ASSUME LeadsInv, TakeItem
    PROVE  LeadsInv'
<1>0. /\ RecordsInv /\ JobInv /\ JobTypes /\ ItemsOK /\ ToldOK /\ QueueOK
      /\ consumer = "taking" /\ queue # << >> /\ queue' = Tail(queue)
      /\ UNCHANGED <<doc, vector, faults, ingest, told, embedding, controls>>
  BY DEF LeadsInv, JobInv, TakeItem
<1>1. PICK q, h : q = queue' /\ h = Head(queue)
  OBVIOUS
<1>2. /\ queue \in Seq(InJob \cup {Sentinel}) /\ Len(queue) \in Nat \ {0} /\ h = queue[1]
      /\ h \in InJob \cup {Sentinel}
      /\ q \in Seq(InJob \cup {Sentinel}) /\ Len(q) = Len(queue) - 1 /\ DOMAIN q = 1..Len(q)
      /\ DOMAIN queue = 1..Len(queue)
      /\ \A i \in 1..Len(q) : q[i] = queue[i + 1]
  <2>1. queue \in Seq(InJob \cup {Sentinel})
    BY <1>0 DEF QueueOK
  <2> QED
    BY <1>0, <1>1, <2>1
<1>3. /\ \A i \in 1..Len(queue) : IF queue[i] = Sentinel THEN i = Len(queue) /\ ingest.pc = "over"
                                  ELSE At(queue[i], {"queued"})
      /\ \A i, j \in 1..Len(queue) : queue[i] = queue[j] => i = j
      /\ \A o \in InJob : At(o, {"queued"}) => \E i \in 1..Len(queue) : queue[i] = o
      /\ embedding.state # "closed"
      /\ \A o \in InJob : At(o, {"left"}) => embedding.state = "canceled"
  BY <1>0, <1>2 DEF QueueOK
<1>4. CASE h = Sentinel
  <2>1. consumer' = "joining" /\ op' = op
    BY <1>1, <1>4 DEF TakeItem
  <2>2. Len(queue) = 1 /\ ingest.pc = "over"
    <3>1. 1 \in 1..Len(queue) /\ queue[1] = Sentinel
      BY <1>2, <1>4
    <3> QED
      BY <1>3, <3>1
  <2>3. q = << >>
    BY <1>2, <2>2
  <2>4. RecordsInv'
    <3>1. op' \in [Ops -> OpType] /\ \A o \in Ops : op'[o] = op[o]
      BY <1>0, <2>1 DEF RecordsInv, OpsOK
    <3> QED
      BY <1>0, <3>1, Moved
  <2>5. JobTypes'
    BY <1>0, <2>1 DEF JobTypes
  <2>6. ItemsOK' /\ ToldOK'
    BY <1>0, <2>1 DEF ItemsOK, ToldOK, At, Event
  <2>7. \A o \in InJob : ~At(o, {"queued"})
    <3>1. SUFFICES ASSUME NEW o \in InJob, At(o, {"queued"}) PROVE FALSE
      OBVIOUS
    <3>2. PICK i \in 1..Len(queue) : queue[i] = o
      BY <1>3, <3>1
    <3>3. i = 1 /\ queue[1] = Sentinel
      BY <1>2, <1>4, <2>2
    <3> QED
      BY <3>2, <3>3, JobItems
  <2>8. QueueOK'
    BY <1>0, <1>1, <1>2, <1>3, <2>1, <2>2, <2>3, <2>7 DEF QueueOK, At, InJob
  <2> QED
    BY <2>4, <2>5, <2>6, <2>8 DEF LeadsInv, JobInv
<1>5. CASE h # Sentinel
  <2>1. Goto(h, "task") /\ consumer' = consumer /\ h \in InJob /\ h \in Ops /\ op[h].pc = "queued"
    <3>1. Goto(h, "task") /\ consumer' = consumer
      BY <1>1, <1>5 DEF TakeItem
    <3>2. 1 \in 1..Len(queue) /\ queue[1] = h
      BY <1>2
    <3>3. At(h, {"queued"})
      BY <1>3, <1>5, <3>2
    <3> QED
      BY <1>2, <1>5, <3>1, <3>3, JobItems DEF At
  <2>2. "task" \in {"new", "failed"} \cup Asking \cup Behind
    BY DEF Behind
  <2>3. op'[h].pc = "task" /\ \A p \in Ops : p # h => op'[p] = op[p]
    BY <1>0, <2>1, <2>2, Labelled
  <2>4. RecordsInv'
    BY <1>0, <2>1, RelabelOne DEF Labels
  <2>5. JobTypes'
    BY <1>0, <2>1 DEF JobTypes
  <2>6. \A o \in InJob :
          /\ At(o, {"new"})' <=> At(o, {"new"})
          /\ At(o, Behind)' <=> At(o, Behind)
          /\ At(o, {"failed"})' <=> At(o, {"failed"})
          /\ At(o, Asking)' <=> At(o, Asking)
          /\ At(o, {"left"})' <=> At(o, {"left"})
    <3>1. SUFFICES ASSUME NEW o \in InJob, o = h
                   PROVE  /\ At(o, {"new"})' <=> At(o, {"new"})
                          /\ At(o, Behind)' <=> At(o, Behind)
                          /\ At(o, {"failed"})' <=> At(o, {"failed"})
                          /\ At(o, Asking)' <=> At(o, Asking)
                          /\ At(o, {"left"})' <=> At(o, {"left"})
      BY <2>3, JobItems DEF At
    <3> QED
      BY <2>1, <2>3, <3>1 DEF At, Behind, Asking, Slots
  <2>7. ItemsOK'
    <3>1. \A i \in DOMAIN Items :
            /\ i > ingest.at => At(Items[i], {"new"})'
            /\ i < ingest.at \/ (i = ingest.at /\ ingest.pc = "over") =>
                   At(Items[i], {"failed"})' \/ At(Items[i], Behind)'
            /\ i = ingest.at /\ ingest.pc = "running" => At(Items[i], {"failed"})' \/ At(Items[i], Asking)'
      BY <1>0, <2>6, JobItems DEF ItemsOK, At
    <3> QED
      BY <1>0, <3>1 DEF ItemsOK, At
  <2>8. ToldOK'
    <3>1. ASSUME NEW i \in DOMAIN told, i <= ingest.at
          PROVE  told[i].item = Items[i] /\ (told[i].type = "ids" => At(Items[i], Behind)')
      <4>1. told[i].item = Items[i] /\ (told[i].type = "ids" => At(Items[i], Behind))
        BY <1>0, <3>1 DEF ToldOK
      <4>2. i \in 1..Len(Items)
        <5>1. i \in Nat /\ i # 0 /\ ingest.at \in 0..Len(Items)
          BY <1>0 DEF JobTypes
        <5> QED
          BY <3>1, <5>1, JobItems
      <4> QED
        BY <2>6, <4>1, <4>2, JobItems
    <3> QED
      BY <1>0, <3>1 DEF ToldOK, Event
  <2>9. QueueOK'
    <3>1. ASSUME NEW i \in 1..Len(q)
          PROVE  IF q[i] = Sentinel THEN i = Len(q) /\ ingest.pc = "over" ELSE At(q[i], {"queued"})'
      <4>1. i + 1 \in 1..Len(queue) /\ q[i] = queue[i + 1] /\ q[i] # h /\ q[i] \in InJob \cup {Sentinel}
        <5>1. i + 1 \in 1..Len(queue) /\ 1 \in 1..Len(queue) /\ i + 1 # 1
          BY <1>2
        <5>2. q[i] = queue[i + 1] /\ h = queue[1]
          BY <1>2
        <5> QED
          BY <1>2, <1>3, <5>1, <5>2
      <4>2. CASE q[i] = Sentinel
        BY <1>2, <1>3, <4>1, <4>2
      <4>3. CASE q[i] # Sentinel
        <5>1. At(q[i], {"queued"}) /\ q[i] \in Ops
          BY <1>3, <4>1, <4>3, JobItems
        <5> QED
          BY <2>3, <4>1, <4>3, <5>1 DEF At
      <4> QED
        BY <4>2, <4>3
    <3>2. ASSUME NEW i \in 1..Len(q), NEW j \in 1..Len(q), q[i] = q[j] PROVE i = j
      <4>1. i + 1 \in 1..Len(queue) /\ j + 1 \in 1..Len(queue) /\ queue[i + 1] = queue[j + 1]
        BY <1>2, <3>2
      <4>2. i + 1 = j + 1
        BY <1>3, <4>1
      <4> QED
        BY <4>2
    <3>3. ASSUME NEW o \in InJob, At(o, {"queued"})' PROVE \E i \in 1..Len(q) : q[i] = o
      <4>1. o # h /\ At(o, {"queued"})
        BY <2>3, <3>3, JobItems DEF At
      <4>2. PICK i \in 1..Len(queue) : queue[i] = o
        BY <1>3, <4>1
      <4>3. i # 1 /\ i - 1 \in 1..Len(q) /\ q[i - 1] = o
        BY <1>2, <4>1, <4>2
      <4> QED
        BY <4>3
    <3>4. \A o \in InJob : At(o, {"left"})' => embedding.state = "canceled"
      BY <1>3, <2>6
    <3>5. /\ \A i \in DOMAIN q : IF q[i] = Sentinel THEN i = Len(q) /\ ingest.pc = "over"
                                 ELSE At(q[i], {"queued"})'
          /\ \A i, j \in DOMAIN q : q[i] = q[j] => i = j
          /\ \A o \in InJob : At(o, {"queued"})' => \E i \in DOMAIN q : q[i] = o
      BY <1>2, <3>1, <3>2, <3>3
    <3>6. q = queue' /\ ingest' = ingest /\ embedding' = embedding /\ consumer' = "taking"
      BY <1>0, <1>1, <2>1
    <3> HIDE <1>1
    <3> QED
      BY <1>2, <1>3, <3>4, <3>5, <3>6 DEF QueueOK, InJob
  <2> QED
    BY <2>4, <2>5, <2>7, <2>8, <2>9 DEF LeadsInv, JobInv
<1> QED
  BY <1>4, <1>5

EventType == [type : {"ids", "item_error", "complete"}, item : Ops \cup {None}]

\* The job between two items: those so far are told and queued.
Settled(ops, events, q) ==
    /\ \A i \in 1..Len(Items) :
          IF i > ingest.at THEN ops[Items[i]].pc = "new"
          ELSE ops[Items[i]].pc \in {"failed"} \cup Behind
    /\ events \in Seq(EventType) /\ Len(told) + Len(events) = ingest.at
    /\ \A i \in 1..ingest.at :
          /\ (told \o events)[i].item = Items[i]
          /\ (told \o events)[i].type = "ids" => ops[Items[i]].pc \in Behind
    /\ q \in Seq(InJob)
    /\ \A i \in 1..Len(q) : ops[q[i]].pc = "queued"
    /\ \A i, j \in 1..Len(q) : q[i] = q[j] => i = j
    /\ \A o \in InJob : ops[o].pc = "queued" => \E i \in 1..Len(q) : q[i] = o
    /\ \A o \in InJob : ops[o].pc = "left" => embedding.state = "canceled"
    /\ ops \in [Ops -> OpType]
    /\ \A o \in Ops : ops[o] = op[o] \/ (op[o].pc = "stored" /\ ops[o] = [op[o] EXCEPT !.pc = "queued"])

LEMMA Appending ==
    ASSUME NEW T, NEW s \in Seq(T), NEW t \in Seq(T), NEW e \in T, NEW r, r = s \o Append(t, e)
    PROVE  /\ r \in Seq(T) /\ Len(r) = Len(s) + Len(t) + 1
           /\ \A i \in 1..(Len(s) + Len(t)) : r[i] = (s \o t)[i]
           /\ r[Len(s) + Len(t) + 1] = e
<1>1. PICK u : u = Append(t, e)
  OBVIOUS
<1>2. /\ u \in Seq(T) /\ Len(u) = Len(t) + 1 /\ u[Len(t) + 1] = e
      /\ \A i \in 1..Len(t) : u[i] = t[i]
  BY <1>1
<1>3. /\ r = s \o u /\ r \in Seq(T) /\ Len(r) = Len(s) + Len(u)
      /\ Len(s) \in Nat /\ Len(t) \in Nat
  BY <1>1, <1>2
<1>4. ASSUME NEW i \in 1..(Len(s) + Len(t)) PROVE r[i] = (s \o t)[i]
  <2>0. i \in Int /\ Len(s) \in Int
    BY <1>3
  <2>1. CASE i <= Len(s)
    BY <1>2, <1>3, <2>1
  <2>2. CASE i > Len(s)
    <3>1. PICK j : j = i - Len(s)
      OBVIOUS
    <3>2. j \in 1..Len(t) /\ i \in 1..(Len(s) + Len(u))
      BY <1>2, <1>3, <2>2, <3>1
    <3>3. r[i] = u[j]
      BY <1>2, <1>3, <2>2, <3>1, <3>2
    <3>4. (s \o t)[i] = t[j]
      BY <1>3, <2>2, <3>1, <3>2
    <3> QED
      BY <1>2, <3>2, <3>3, <3>4
  <2>3. i <= Len(s) \/ i > Len(s)
    BY <2>0
  <2> QED
    BY <2>1, <2>2, <2>3
<1>5. r[Len(s) + Len(t) + 1] = e
  BY <1>2, <1>3
<1> QED
  BY <1>2, <1>3, <1>4, <1>5

LEMMA ProceedEffect ==
    ASSUME RecordsInv, JobTypes, NEW ops, NEW events, NEW q, Settled(ops, events, q),
           Proceed(ops, events, q), UNCHANGED <<doc, vector, faults, consumer, embedding, controls>>,
           consumer = "taking", embedding.state # "closed"
    PROVE  LeadsInv'
<1> USE DEF EventType
<1>0. PICK at : at = ingest.at
  OBVIOUS
<1>1. /\ at \in 0..Len(Items) /\ told \in Seq(EventType) /\ events \in Seq(EventType)
      /\ Len(Items) \in Nat /\ Len(told) \in Nat /\ Len(events) \in Nat /\ Len(told) + Len(events) = at
      /\ ingest \in [pc : {"pending", "running", "over"}, at : 0..Len(Items), cancelled : BOOLEAN]
  BY <1>0, JobItems DEF JobTypes, Settled
<1>2. PICK t : t = told'
  OBVIOUS
<1>3. /\ \A i \in 1..Len(Items) :
            IF i > at THEN ops[Items[i]].pc = "new" ELSE ops[Items[i]].pc \in {"failed"} \cup Behind
      /\ \A i \in 1..at : /\ (told \o events)[i].item = Items[i]
                          /\ (told \o events)[i].type = "ids" => ops[Items[i]].pc \in Behind
      /\ q \in Seq(InJob)
      /\ \A i \in 1..Len(q) : ops[q[i]].pc = "queued"
      /\ \A i, j \in 1..Len(q) : q[i] = q[j] => i = j
      /\ \A o \in InJob : ops[o].pc = "queued" => \E i \in 1..Len(q) : q[i] = o
      /\ \A o \in InJob : ops[o].pc = "left" => embedding.state = "canceled"
      /\ ops \in [Ops -> OpType]
      /\ \A o \in Ops : ops[o] = op[o] \/ (op[o].pc = "stored" /\ ops[o] = [op[o] EXCEPT !.pc = "queued"])
  BY <1>0 DEF Settled
<1>4. CASE ingest.cancelled \/ at = Len(Items)
  <2>1. /\ ingest' = [ingest EXCEPT !.pc = "over"] /\ t = told \o Append(events, Event("complete", None))
        /\ queue' = Append(q, Sentinel) /\ op' = ops
    BY <1>0, <1>2, <1>4 DEF Proceed
  <2>2. /\ ingest'.pc = "over" /\ ingest'.at = at /\ ingest'.cancelled = ingest.cancelled
        /\ ingest' \in [pc : {"pending", "running", "over"}, at : 0..Len(Items), cancelled : BOOLEAN]
    BY <1>0, <1>1, <2>1
  <2>3. Event("complete", None) \in EventType
    BY DEF Event
  <2>4. /\ t \in Seq(EventType) /\ Len(t) = at + 1
        /\ \A i \in 1..at : t[i] = (told \o events)[i]
        /\ t[at + 1] = Event("complete", None)
    BY SMTT(60), <1>1, <2>1, <2>3, Appending
  <2>5. JobTypes'
    BY <1>2, <2>2, <2>4 DEF JobTypes
  <2>6. RecordsInv'
    <3>1. \A o \in Ops : op'[o] = op[o] \/ Relabelled(o, "queued")
      BY <1>3, <2>1 DEF Relabelled, Labels
    <3>2. op' = [o \in Ops |-> op'[o]]
      BY <1>3, <2>1
    <3> QED
      BY <3>1, <3>2, Relabel
  <2>7. ItemsOK'
    BY <1>1, <1>3, <2>1, <2>2, JobItems DEF ItemsOK, At
  <2>8. ToldOK'
    <3>1. DOMAIN t = 1..(at + 1)
      BY <1>1, <2>4
    <3>2. ASSUME NEW i \in DOMAIN t, i <= at
          PROVE  t[i].item = Items[i] /\ (t[i].type = "ids" => At(Items[i], Behind)')
      BY SMTT(60), <1>1, <1>3, <2>1, <2>4, <3>1, <3>2 DEF At
    <3> QED
      BY <1>2, <1>4, <2>2, <2>4, <3>2 DEF ToldOK, Event
  <2>9. QueueOK'
    <3>1. PICK p : p = queue'
      OBVIOUS
    <3>2. /\ p \in Seq(InJob \cup {Sentinel}) /\ Len(p) = Len(q) + 1 /\ DOMAIN p = 1..Len(p)
          /\ p[Len(p)] = Sentinel /\ \A i \in 1..Len(q) : p[i] = q[i] /\ q[i] \in InJob
          /\ Len(q) \in Nat
      <4>1. q \in Seq(InJob \cup {Sentinel})
        BY <1>3
      <4> QED
        BY <1>3, <2>1, <3>1, <4>1
    <3>3. ASSUME NEW i \in DOMAIN p
          PROVE  IF p[i] = Sentinel THEN i = Len(p) /\ ingest'.pc = "over" ELSE At(p[i], {"queued"})'
      <4>1. CASE i = Len(p)
        BY <2>2, <3>2, <4>1
      <4>2. CASE i # Len(p)
        <5>1. i \in 1..Len(q)
          BY <3>2, <4>2
        <5> QED
          BY <1>3, <2>1, <3>2, <5>1, JobItems DEF At
      <4> QED
        BY <4>1, <4>2
    <3>4. ASSUME NEW i \in DOMAIN p, NEW j \in DOMAIN p, p[i] = p[j] PROVE i = j
      <4>1. (i = Len(p) \/ i \in 1..Len(q)) /\ (j = Len(p) \/ j \in 1..Len(q))
        BY <3>2
      <4>2. i \in 1..Len(q) => p[i] # Sentinel
        BY <3>2, JobItems
      <4>3. j \in 1..Len(q) => p[j] # Sentinel
        BY <3>2, JobItems
      <4>4. i \in 1..Len(q) /\ j \in 1..Len(q) => q[i] = q[j]
        BY <3>2, <3>4
      <4> QED
        BY <1>3, <3>2, <3>4, <4>1, <4>2, <4>3, <4>4
    <3>5. ASSUME NEW o \in InJob, At(o, {"queued"})' PROVE \E i \in DOMAIN p : p[i] = o
      <4>1. PICK i \in 1..Len(q) : q[i] = o
        BY <1>3, <2>1, <3>5 DEF At
      <4>2. i \in DOMAIN p /\ p[i] = o
        BY <3>2, <4>1
      <4> QED
        BY <4>2
    <3>6. \A o \in InJob : At(o, {"left"})' => embedding'.state = "canceled"
      BY <1>3, <2>1 DEF At
    <3> QED
      BY <3>1, <3>2, <3>3, <3>4, <3>5, <3>6 DEF QueueOK, InJob
  <2> QED
    BY <2>5, <2>6, <2>7, <2>8, <2>9 DEF LeadsInv, JobInv
<1>5. CASE ~(ingest.cancelled \/ at = Len(Items))
  <2>0. PICK n : n = Items[at + 1]
    OBVIOUS
  <2>1. /\ ingest' = [ingest EXCEPT !.pc = "running", !.at = @ + 1] /\ t = told \o events
        /\ queue' = q /\ op' = [ops EXCEPT ![n].pc = "asked"]
    BY <1>0, <1>2, <1>5, <2>0 DEF Proceed
  <2>2. /\ ingest'.pc = "running" /\ ingest'.at = at + 1 /\ at + 1 \in 0..Len(Items)
        /\ ingest' \in [pc : {"pending", "running", "over"}, at : 0..Len(Items), cancelled : BOOLEAN]
    <3>1. at + 1 \in 0..Len(Items)
      BY <1>1, <1>5
    <3>2. ingest' = [ingest EXCEPT !.pc = "running", !.at = at + 1]
      BY <1>0, <2>1
    <3>3. ingest'.pc = "running" /\ ingest'.at = at + 1
      BY <1>1, <3>2
    <3> QED
      BY <1>1, <3>1, <3>2, <3>3
  <2>3. /\ at + 1 \in 1..Len(Items) /\ n \in Ops /\ n \in InJob /\ ops[n].pc = "new" /\ ops[n] = op[n]
        /\ KindOf[n] \notin {"backfill", "reembed"}
    <3>1. at + 1 \in 1..Len(Items) /\ at + 1 > at
      BY <1>1, <2>2
    <3>2. n \in Ops /\ n \in InJob /\ ops[n].pc = "new" /\ KindOf[n] \notin {"backfill", "reembed"}
      BY <1>3, <2>0, <3>1, JobItems
    <3>3. op[n] \in OpType
      BY <3>2, Rows
    <3>4. ops[n] = op[n]
      <4>1. ops[n] = [op[n] EXCEPT !.pc = "queued"] => ops[n].pc = "queued"
        BY <3>3 DEF OpType
      <4> QED
        BY <1>3, <3>2, <4>1
    <3> QED
      BY <3>1, <3>2, <3>4
  <2>4. t \in Seq(EventType) /\ Len(t) = at /\ DOMAIN t = 1..at
    BY <1>1, <2>1
  <2>5. JobTypes'
    BY <1>2, <2>2, <2>4 DEF JobTypes
  <2>6. /\ op'[n] = [op[n] EXCEPT !.pc = "asked"] /\ op'[n].pc = "asked"
        /\ \A o \in Ops : o # n => op'[o] = ops[o]
        /\ op' = [o \in Ops |-> op'[o]]
    <3>1. ops[n] \in OpType
      BY <1>3, <2>3
    <3>2. op'[n] = [ops[n] EXCEPT !.pc = "asked"] /\ \A o \in Ops : o # n => op'[o] = ops[o]
      BY <1>3, <2>1, <2>3
    <3>3. op' = [o \in Ops |-> op'[o]]
      BY <1>3, <2>1
    <3> QED
      BY <2>3, <3>1, <3>2, <3>3 DEF OpType
  <2>7. RecordsInv'
    <3>1. Relabelled(n, "asked")
      BY <2>3, <2>6 DEF Relabelled, Labels
    <3>2. \A o \in Ops : o # n => op'[o] = op[o] \/ Relabelled(o, "queued")
      BY <1>3, <2>6 DEF Relabelled, Labels
    <3> QED
      BY <2>6, <3>1, <3>2, Relabel
  <2>8. ItemsOK'
    <3>1. ASSUME NEW i \in DOMAIN Items
          PROVE  /\ i > at + 1 => At(Items[i], {"new"})'
                 /\ i < at + 1 => At(Items[i], {"failed"} \cup Behind)'
                 /\ i = at + 1 => At(Items[i], {"failed"} \cup Asking)'
      <4>1. i \in 1..Len(Items) /\ Items[i] \in Ops /\ (i # at + 1 => Items[i] # n)
        BY <2>0, <2>3, JobItems
      <4>2. i = at + 1 => op'[Items[i]].pc = "asked"
        BY <2>0, <2>6
      <4>3. i # at + 1 => op'[Items[i]] = ops[Items[i]]
        BY <2>6, <4>1
      <4> QED
        BY <1>1, <1>3, <4>1, <4>2, <4>3 DEF At, Asking
    <3>2. ingest'.pc # "pending" /\ ingest'.pc # "over" /\ ingest'.at # 0
      BY <1>1, <2>2
    <3> QED
      BY <2>2, <3>1, <3>2 DEF ItemsOK
  <2>9. ToldOK'
    <3>1. ASSUME NEW i \in DOMAIN t
          PROVE  t[i].item = Items[i] /\ (t[i].type = "ids" => At(Items[i], Behind)')
      <4>1. i \in 1..at /\ i \in 1..Len(Items)
        BY <1>1, <2>4
      <4>2. Items[i] \in Ops /\ Items[i] # n
        BY <1>1, <2>0, <2>3, <4>1, JobItems
      <4> QED
        BY <1>3, <2>1, <2>6, <4>1, <4>2 DEF At
    <3> QED
      BY <1>1, <1>2, <2>2, <2>4, <3>1 DEF ToldOK, Event
  <2>10. QueueOK'
    <3>1. \A o \in InJob : o # n => op'[o] = ops[o]
      BY <2>6, JobItems
    <3>2. /\ q \in Seq(InJob \cup {Sentinel}) /\ DOMAIN q = 1..Len(q)
          /\ \A i \in 1..Len(q) : q[i] \in InJob /\ q[i] # n /\ q[i] # Sentinel
      BY <1>3, <2>3, JobItems
    <3>3. \A i \in 1..Len(q) : At(q[i], {"queued"})'
      BY <1>3, <3>1, <3>2 DEF At
    <3>4. ASSUME NEW o \in InJob, At(o, {"queued"})' PROVE \E i \in 1..Len(q) : q[i] = o
      <4>1. op'[o].pc = "queued"
        BY <3>4 DEF At
      <4>2. ops[o].pc = "queued"
        BY <2>6, <3>1, <4>1
      <4> QED
        BY <1>3, <4>2
    <3>5. ASSUME NEW o \in InJob, At(o, {"left"})' PROVE embedding'.state = "canceled"
      <4>1. op'[o].pc = "left"
        BY <3>5 DEF At
      <4>2. ops[o].pc = "left"
        BY <2>6, <3>1, <4>1
      <4> QED
        BY <1>3, <4>2
    <3> QED
      BY <1>3, <2>1, <3>2, <3>3, <3>4, <3>5 DEF QueueOK, InJob
  <2> QED
    BY <2>5, <2>7, <2>8, <2>9, <2>10 DEF LeadsInv, JobInv
<1> QED
  BY <1>4, <1>5

LEMMA SomeEvents ==
    /\ << >> \in Seq(EventType)
    /\ \A s \in Seq(EventType), e \in EventType :
          /\ s \o << >> = s /\ s \o <<e>> \in Seq(EventType) /\ Len(s \o <<e>>) = Len(s) + 1
          /\ \A i \in 1..Len(s) : (s \o <<e>>)[i] = s[i]
          /\ (s \o <<e>>)[Len(s) + 1] = e
          /\ <<e>> \in Seq(EventType) /\ Len(<<e>>) = 1
<1>1. ASSUME NEW s \in Seq(EventType) PROVE s \o << >> = s
  OBVIOUS
<1>2. ASSUME NEW s \in Seq(EventType), NEW e \in EventType
      PROVE /\ s \o <<e>> \in Seq(EventType) /\ Len(s \o <<e>>) = Len(s) + 1
            /\ \A i \in 1..Len(s) : (s \o <<e>>)[i] = s[i]
            /\ (s \o <<e>>)[Len(s) + 1] = e
            /\ <<e>> \in Seq(EventType) /\ Len(<<e>>) = 1
  OBVIOUS
<1> QED
  BY <1>1, <1>2

\* The queue before the ingest is over.
LEMMA OpenQueue ==
    ASSUME JobInv, ingest.pc # "over"
    PROVE  /\ queue \in Seq(InJob) /\ consumer = "taking" /\ embedding.state # "closed"
           /\ \A i \in 1..Len(queue) : op[queue[i]].pc = "queued"
           /\ \A i, j \in 1..Len(queue) : queue[i] = queue[j] => i = j
           /\ \A o \in InJob : op[o].pc = "queued" => \E i \in 1..Len(queue) : queue[i] = o
           /\ \A o \in InJob : op[o].pc = "left" => embedding.state = "canceled"
<1>1. QueueOK /\ consumer \in {"taking", "joining", "over"}
  BY DEF JobInv, JobTypes
<1>2. queue \in Seq(InJob \cup {Sentinel}) /\ DOMAIN queue = 1..Len(queue) /\ Len(queue) \in Nat
  BY <1>1 DEF QueueOK
<1>3. \A i \in 1..Len(queue) : queue[i] # Sentinel /\ At(queue[i], {"queued"}) /\ queue[i] \in InJob
  BY <1>1, <1>2 DEF QueueOK
<1>4. queue \in Seq(InJob)
  BY <1>2, <1>3
<1> QED
  BY <1>1, <1>2, <1>3, <1>4 DEF QueueOK, At

LEMMA StartEffect ==
    ASSUME LeadsInv, StartJob
    PROVE  LeadsInv'
<1>0. RecordsInv /\ JobInv /\ JobTypes /\ ItemsOK /\ ToldOK /\ ingest.pc = "pending" /\ ingest.at = 0
  BY DEF LeadsInv, JobInv, StartJob, ItemsOK
<1>1. /\ Proceed(op, << >>, queue)
      /\ UNCHANGED <<doc, vector, faults, consumer, embedding, controls>>
  BY DEF StartJob
<1>2. op \in [Ops -> OpType]
  BY <1>0 DEF RecordsInv, OpsOK
<1>3. Len(told) = 0 /\ << >> \in Seq(EventType) /\ Len(<< >>) = 0
  BY <1>0, SomeEvents DEF ToldOK
<1>4. \A i \in 1..Len(Items) : i > ingest.at /\ op[Items[i]].pc = "new"
  BY <1>0, JobItems DEF ItemsOK, At
<1>5. Settled(op, << >>, queue)
  BY <1>0, <1>2, <1>3, <1>4, OpenQueue DEF Settled
<1> QED
  BY <1>0, <1>1, <1>5, OpenQueue, ProceedEffect

\* While the job runs, the item in hand is the one being asked for.
LEMMA InHand ==
    ASSUME JobInv, NEW o \in InJob, At(o, {"stored"})
    PROVE  ingest.pc = "running" /\ o = Items[ingest.at]
<1>1. PICK i \in 1..Len(Items) : o = Items[i]
  BY JobItems
<1>2. ItemsOK /\ ingest.at \in 0..Len(Items) /\ ingest.pc \in {"pending", "running", "over"}
  BY DEF JobInv, JobTypes
<1>3. ~At(o, {"new"}) /\ ~At(o, {"failed"} \cup Behind)
  BY DEF At, Behind, Slots
<1>4. ~(i > ingest.at) /\ ~(i < ingest.at) /\ ~(i = ingest.at /\ ingest.pc = "over")
  BY <1>1, <1>2, <1>3, JobItems DEF ItemsOK
<1>5. i = ingest.at
  BY <1>2, <1>4, JobItems
<1> QED
  BY <1>1, <1>2, <1>4, <1>5, JobItems DEF ItemsOK

\* What the job has when the item in hand is behind or failed.
LEMMA Settles ==
    ASSUME LeadsInv, ingest.pc = "running", NEW ops, NEW q, NEW type \in {"ids", "item_error"},
           NEW o, o = Items[ingest.at],
           \A i \in 1..Len(Items) : i # ingest.at => ops[Items[i]] = op[Items[i]],
           ops[o].pc \in {"failed"} \cup Behind, type = "ids" => ops[o].pc \in Behind,
           q \in Seq(InJob),
           \A i \in 1..Len(q) : ops[q[i]].pc = "queued",
           \A i, j \in 1..Len(q) : q[i] = q[j] => i = j,
           \A p \in InJob : ops[p].pc = "queued" => \E i \in 1..Len(q) : q[i] = p,
           \A p \in InJob : ops[p].pc = "left" => embedding.state = "canceled",
           ops \in [Ops -> OpType],
           \A p \in Ops : ops[p] = op[p] \/ (op[p].pc = "stored" /\ ops[p] = [op[p] EXCEPT !.pc = "queued"])
    PROVE  Settled(ops, <<Event(type, o)>>, q)
<1>0. PICK at : at = ingest.at
  OBVIOUS
<1>1. JobInv /\ JobTypes /\ ItemsOK /\ ToldOK /\ at \in 0..Len(Items) /\ at # 0
  BY <1>0 DEF LeadsInv, JobInv, JobTypes, ItemsOK
<1>2. at \in 1..Len(Items) /\ o \in Ops /\ o \in InJob
  BY <1>0, <1>1, JobItems
<1>3. PICK e : e = Event(type, o)
  OBVIOUS
<1>4. e \in EventType /\ e.item = o /\ e.type = type
  BY <1>2, <1>3 DEF Event, EventType
<1>5. /\ told \in Seq(EventType) /\ Len(told) = at - 1 /\ Len(told) \in Nat
      /\ DOMAIN told = 1..(at - 1)
  <2>1. told \in Seq(EventType)
    BY <1>1 DEF JobTypes, EventType
  <2>2. Len(told) = at - 1
    BY <1>0, <1>1 DEF ToldOK
  <2> QED
    BY <2>1, <2>2
<1>6. /\ <<e>> \in Seq(EventType) /\ Len(<<e>>) = 1
      /\ \A i \in 1..Len(told) : (told \o <<e>>)[i] = told[i]
      /\ (told \o <<e>>)[Len(told) + 1] = e
  BY <1>4, <1>5, SomeEvents
<1>7. ASSUME NEW i \in 1..Len(Items)
      PROVE  IF i > at THEN ops[Items[i]].pc = "new" ELSE ops[Items[i]].pc \in {"failed"} \cup Behind
  <2>1. CASE i = at
    BY <1>0, <2>1
  <2>2. CASE i # at
    <3>1. ops[Items[i]] = op[Items[i]] /\ i \in DOMAIN Items
      BY <1>0, <2>2, JobItems
    <3>2. /\ i > at => At(Items[i], {"new"})
          /\ i < at => At(Items[i], {"failed"} \cup Behind)
      BY <1>0, <1>1, <3>1 DEF ItemsOK
    <3> QED
      BY <1>2, <2>2, <3>1, <3>2, JobItems DEF At
  <2> QED
    BY <2>1, <2>2
<1>8. ASSUME NEW i \in 1..at
      PROVE  /\ (told \o <<e>>)[i].item = Items[i]
             /\ (told \o <<e>>)[i].type = "ids" => ops[Items[i]].pc \in Behind
  <2>1. CASE i = at
    <3>1. (told \o <<e>>)[i] = e
      BY <1>5, <1>6, <1>2, <2>1
    <3> QED
      BY <1>0, <1>4, <2>1, <3>1
  <2>2. CASE i # at
    <3>1. i \in 1..Len(told) /\ i \in DOMAIN told /\ i <= at /\ i \in 1..Len(Items)
      BY <1>2, <1>5, <2>2, JobItems
    <3>2. told[i].item = Items[i] /\ (told[i].type = "ids" => At(Items[i], Behind))
      BY <1>0, <1>1, <3>1 DEF ToldOK
    <3>3. ops[Items[i]] = op[Items[i]]
      BY <1>0, <2>2, <3>1
    <3> QED
      BY <1>6, <3>1, <3>2, <3>3 DEF At
  <2> QED
    BY <2>1, <2>2
<1>9. Len(told) + Len(<<e>>) = at
  BY <1>2, <1>5, <1>6
<1> QED
  BY <1>0, <1>3, <1>6, <1>7, <1>8, <1>9 DEF Settled

LEMMA DoneEffect ==
    ASSUME LeadsInv, NEW o \in InJob, ItemDone(o)
    PROVE  LeadsInv'
<1>0. /\ RecordsInv /\ JobInv /\ JobTypes /\ op[o].pc = "stored" /\ o \in Ops
      /\ ingest.pc = "running" /\ o = Items[ingest.at] /\ ingest.at \in 0..Len(Items)
  BY InHand, JobItems DEF LeadsInv, JobInv, ItemDone, At, JobTypes
<1>1. PICK ops, q : ops = [op EXCEPT ![o].pc = "queued"] /\ q = Append(queue, o)
  OBVIOUS
<1>2. /\ Proceed(ops, <<Event("ids", o)>>, q)
      /\ UNCHANGED <<doc, vector, faults, consumer, embedding, controls>>
  BY <1>1 DEF ItemDone
<1>3. /\ op \in [Ops -> OpType]
      /\ ops \in [Ops -> OpType] /\ ops[o] = [op[o] EXCEPT !.pc = "queued"] /\ ops[o].pc = "queued"
      /\ \A p \in Ops : p # o => ops[p] = op[p]
  <2>1. op \in [Ops -> OpType] /\ op[o] \in OpType
    BY <1>0 DEF RecordsInv, OpsOK
  <2>2. PICK w : w = [op[o] EXCEPT !.pc = "queued"]
    OBVIOUS
  <2>3. w \in OpType /\ w.pc = "queued"
    <3>1. OpShape(op[o])
      BY <2>1, OpFields
    <3>2. OpShape(w) /\ w.pc = "queued" /\ w.tries = op[o].tries /\ w.seen = op[o].seen
          /\ w.row = op[o].row /\ w.beaten = op[o].beaten
      BY <2>2, <3>1 DEF OpShape
    <3>3. w.pc \in {"new", "failed"} \cup Asking \cup Behind
      BY <3>2 DEF Behind
    <3> QED
      BY <2>1, <3>2, <3>3, OpFields, OpTyped DEF OpShape
  <2>4. ops = [op EXCEPT ![o] = w]
    BY <1>1, <2>2
  <2> QED
    BY <1>0, <2>1, <2>2, <2>3, <2>4
<1>4. /\ queue \in Seq(InJob) /\ Len(queue) \in Nat
      /\ \A i \in 1..Len(queue) : op[queue[i]].pc = "queued" /\ queue[i] \in InJob /\ queue[i] # o
      /\ \A i, j \in 1..Len(queue) : queue[i] = queue[j] => i = j
      /\ \A p \in InJob : op[p].pc = "queued" => \E i \in 1..Len(queue) : queue[i] = p
      /\ \A p \in InJob : op[p].pc = "left" => embedding.state = "canceled"
  <2>1. JobInv /\ ingest.pc # "over"
    BY <1>0
  <2>2. /\ queue \in Seq(InJob) /\ \A i \in 1..Len(queue) : op[queue[i]].pc = "queued"
        /\ \A i, j \in 1..Len(queue) : queue[i] = queue[j] => i = j
        /\ \A p \in InJob : op[p].pc = "queued" => \E i \in 1..Len(queue) : queue[i] = p
        /\ \A p \in InJob : op[p].pc = "left" => embedding.state = "canceled"
    BY <2>1, OpenQueue
  <2>3. Len(queue) \in Nat /\ \A i \in 1..Len(queue) : queue[i] \in InJob
    BY <2>2
  <2>4. \A i \in 1..Len(queue) : queue[i] # o
    BY <1>0, <2>2
  <2> QED
    BY <2>2, <2>3, <2>4
<1>5. /\ q \in Seq(InJob) /\ Len(q) = Len(queue) + 1 /\ q[Len(q)] = o
      /\ \A i \in 1..Len(queue) : q[i] = queue[i]
  BY <1>1, <1>4
<1>6. \A i \in 1..Len(q) : i = Len(q) \/ i \in 1..Len(queue)
  BY <1>4, <1>5
<1>7. ASSUME NEW i \in 1..Len(q) PROVE ops[q[i]].pc = "queued"
  <2>1. CASE i = Len(q)
    BY <1>3, <1>5, <2>1
  <2>2. CASE i # Len(q)
    <3>1. q[i] = queue[i] /\ queue[i] \in Ops /\ queue[i] # o /\ op[queue[i]].pc = "queued"
      BY <1>4, <1>5, <1>6, <2>2, JobItems
    <3> QED
      BY <1>3, <3>1
  <2> QED
    BY <2>1, <2>2
<1>8. \A i, j \in 1..Len(q) : q[i] = q[j] => i = j
  BY <1>4, <1>5, <1>6
<1>9. ASSUME NEW p \in InJob, ops[p].pc = "queued" PROVE \E i \in 1..Len(q) : q[i] = p
  <2>1. CASE p = o
    <3>1. Len(q) \in 1..Len(q)
      BY <1>4, <1>5
    <3> QED
      BY <1>5, <2>1, <3>1
  <2>2. CASE p # o
    <3>1. PICK i \in 1..Len(queue) : queue[i] = p
      BY <1>3, <1>4, <1>9, <2>2, JobItems
    <3>2. i \in 1..Len(q) /\ q[i] = p
      BY <1>4, <1>5, <3>1
    <3> QED
      BY <3>2
  <2> QED
    BY <2>1, <2>2
<1>10. \A p \in InJob : ops[p].pc = "left" => embedding.state = "canceled"
  BY <1>3, <1>4, JobItems
<1>11. \A i \in 1..Len(Items) : i # ingest.at => ops[Items[i]] = op[Items[i]]
  <2>1. ingest.at \in 1..Len(Items)
    BY <1>0, JobItems DEF JobInv, ItemsOK
  <2> QED
    BY <1>0, <1>3, <2>1, JobItems
<1>12. \A p \in Ops : ops[p] = op[p] \/ (op[p].pc = "stored" /\ ops[p] = [op[p] EXCEPT !.pc = "queued"])
  BY <1>0, <1>3
<1>13. ops[o].pc \in Behind
  BY <1>3 DEF Behind
<1>14. Settled(ops, <<Event("ids", o)>>, q)
  BY <1>0, <1>3, <1>5, <1>7, <1>8, <1>9, <1>10, <1>11, <1>12, <1>13, Settles
<1> QED
  BY <1>0, <1>2, <1>14, OpenQueue, ProceedEffect

LEMMA FailedEffect ==
    ASSUME LeadsInv, NEW o \in InJob, ItemFailed(o)
    PROVE  LeadsInv'
<1>0. /\ RecordsInv /\ JobInv /\ JobTypes /\ op[o].pc = "failed" /\ o \in Ops
      /\ ingest.pc = "running" /\ o = Items[ingest.at]
  BY JobItems DEF LeadsInv, JobInv, ItemFailed, At
<1>1. /\ Proceed(op, <<Event("item_error", o)>>, queue)
      /\ UNCHANGED <<doc, vector, faults, consumer, embedding, controls>>
  BY DEF ItemFailed
<1>2. op \in [Ops -> OpType]
  BY <1>0 DEF RecordsInv, OpsOK
<1>3. Settled(op, <<Event("item_error", o)>>, queue)
  BY <1>0, <1>2, OpenQueue, Settles
<1> QED
  BY <1>0, <1>1, <1>3, OpenQueue, ProceedEffect

-----------------------------------------------------------------------------
(***************************************************************************)
(* The theorems.                                                           *)
(***************************************************************************)
LEMMA InvStarts == EnrichInit => LeadsInv
<1> SUFFICES ASSUME EnrichInit PROVE LeadsInv
  OBVIOUS
<1>1. /\ doc = [l \in Leads |-> NoDoc] /\ vector = [l \in Leads |-> NoVector]
      /\ op = [o \in Ops |-> [pc |-> "new", tries |-> 0, seen |-> NoDoc, row |-> NoVector,
                              beaten |-> FALSE]]
      /\ faults = 0 /\ controls = 0
      /\ ingest = [pc |-> "pending", at |-> 0, cancelled |-> FALSE]
      /\ told = << >> /\ queue = << >> /\ consumer = "taking"
      /\ embedding = [state |-> "open", paused |-> FALSE]
  BY DEF EnrichInit, Init
<1>2. NoDoc \in DocType /\ NoVector \in VectorType
  BY Plain
<1>3. DocFits(NoDoc) /\ NoDoc.embedded = FALSE /\ NoDoc.stored = FALSE
  BY <1>2 DEF DocFits, FieldsFit, NoDoc
<1>4. DocsOK
  BY <1>1, <1>2, <1>3 DEF DocsOK
<1>5. PICK r : r = [pc |-> "new", tries |-> 0, seen |-> NoDoc, row |-> NoVector, beaten |-> FALSE]
  OBVIOUS
<1>6. r \in OpType /\ r.pc = "new" /\ r.tries = 0
  <2>1. 0 \in 0..Attempts
    BY RecordsAssumption
  <2> QED
    BY <1>2, <1>5, <2>1 DEF OpType
<1>7. op \in [Ops -> OpType] /\ \A o \in Ops : op[o] = r
  BY <1>1, <1>5, <1>6
<1>8. ASSUME NEW o \in Ops PROVE OpFits(o) /\ Keeps(o)
  BY <1>6, <1>7 DEF OpFits, Keeps, HasWritten, At, Behind, Slots
<1>9. OpsOK
  BY <1>7, <1>8 DEF OpsOK
<1>10. FlagsOK
  BY <1>1, <1>3 DEF FlagsOK, Documents
<1>11. JobTypes
  <2>1. 0 \in 0..MaxFaults /\ 0 \in 0..MaxControls /\ 0 \in 0..Len(Items)
    BY RecordsAssumption, EnrichmentAssumption, JobItems
  <2> QED
    BY <1>1, <2>1 DEF JobTypes
<1>12. ItemsOK
  BY <1>1, <1>6, <1>7, JobItems DEF ItemsOK, At
<1>13. ToldOK
  BY <1>1, JobItems DEF ToldOK
<1>14. QueueOK
  BY <1>1, <1>6, <1>7, JobItems DEF QueueOK, At
<1> QED
  BY <1>4, <1>9, <1>10, <1>11, <1>12, <1>13, <1>14 DEF LeadsInv, RecordsInv, JobInv

LEMMA InvHolds == LeadsInv /\ [EnrichNext]_enrichVars => LeadsInv'
<1> SUFFICES ASSUME LeadsInv, [EnrichNext]_enrichVars PROVE LeadsInv'
  OBVIOUS
<1>1. CASE Job
  BY <1>1, StartEffect, TakeEffect, JoinEffect DEF Job
<1>2. CASE Controlling
  BY <1>2, ControlEffect
<1>3. ASSUME NEW o \in InJob, ItemStep(o) PROVE LeadsInv'
  BY <1>3, ItemStepEffect, DoneEffect, FailedEffect, TaskEffect DEF ItemStep
<1>4. ASSUME NEW o \in Others, OtherStep(o) PROVE LeadsInv'
  BY <1>4, OtherStepEffect
<1>5. CASE UNCHANGED enrichVars
  <2>1. /\ RecordsInv /\ JobInv /\ UNCHANGED <<doc, vector, op, faults>> /\ UNCHANGED jobVars
    BY <1>5 DEF enrichVars, recordVars, LeadsInv
  <2>2. op' \in [Ops -> OpType] /\ \A o \in Ops : op'[o] = op[o]
    BY <2>1 DEF RecordsInv, OpsOK
  <2>3. RecordsInv'
    BY <2>1, <2>2, Moved
  <2>4. JobTypes'
    BY <2>1, FaultCounts DEF JobInv
  <2>5. \A o \in InJob : ItemStays(o)
    BY <2>1 DEF ItemStays
  <2>6. JobInv'
    BY <2>1, <2>4, <2>5, JobStands DEF jobVars
  <2> QED
    BY <2>3, <2>6 DEF LeadsInv
<1> QED
  BY <1>1, <1>2, <1>3, <1>4, <1>5 DEF EnrichNext

LEMMA LeadsInvariant == EnrichSpec => []LeadsInv
<1>1. EnrichSpec => EnrichInit /\ [][EnrichNext]_enrichVars
  BY PTL DEF EnrichSpec
<1> QED
  BY <1>1, InvStarts, InvHolds, PTL

LEMMA RecordsFollow == LeadsInv => RecordsHold
<1> SUFFICES ASSUME LeadsInv PROVE RecordsHold
  OBVIOUS
<1>1. RecordsInv /\ DocsOK /\ OpsOK /\ FlagsOK /\ JobInv /\ JobTypes /\ QueueOK
  BY DEF LeadsInv, RecordsInv, JobInv
<1>2. TypeOK
  <2>1. ASSUME NEW l \in Leads
        PROVE  /\ doc[l].entries \in [Endpoints -> [name : Ops \cup {None}, phone : Ops \cup {None}]]
               /\ doc[l].source \in 0..3 /\ doc[l].version \in Nat
               /\ vector[l] \in [tier : 0..3, phone : BOOLEAN]
    <3>1. doc[l] \in DocType /\ vector[l] \in VectorType
      BY <1>1 DEF DocsOK
    <3> QED
      BY <3>1, DocFields DEF EntryType, VectorType
  <2>2. ASSUME NEW o \in Ops
        PROVE  /\ op[o].pc \in {"new", "asked", "found", "beaten", "last", "stored", "failed", "queued",
                                "task", "held", "woken", "outranked", "ready", "indexed", "over",
                                "unembedded", "left"}
               /\ op[o].tries \in 0..Attempts
    BY <1>1, Rows, OpFields DEF Asking, Behind, Slots
  <2>3. /\ faults \in 0..MaxFaults /\ controls \in 0..MaxControls
        /\ ingest.pc \in {"pending", "running", "over"} /\ ingest.at \in 0..Len(Items)
        /\ consumer \in {"taking", "joining", "over"}
        /\ embedding \in [state : {"open", "canceled", "closed"}, paused : BOOLEAN]
        /\ queue \in Seq(InJob \cup {Sentinel})
    BY <1>1 DEF JobTypes, QueueOK
  <2> QED
    BY <2>1, <2>2, <2>3 DEF TypeOK
<1>3. FieldsMatchAnswers
  BY <1>1 DEF FieldsMatchAnswers, DocsOK, DocFits, FieldsFit, Documents
<1>4. EnrichmentIsKept
  BY <1>1 DEF EnrichmentIsKept, OpsOK, Keeps, Home
<1>5. VectorFlagIsRight
  <2>1. \A l \in Documents : doc[l].embedded => vector[l] # NoVector
    BY <1>1 DEF DocsOK, Documents
  <2>2. ASSUME Quiet, \A o \in Ops : ~op[o].beaten, NEW l \in Documents PROVE doc[l].embedded
    <3>1. \A o \in Ops : ~FlagComes(o)
      BY <2>2 DEF Quiet, FlagComes, At, Waiting
    <3> QED
      BY <1>1, <2>2, <3>1 DEF FlagsOK
  <2> QED
    BY <2>1, <2>2 DEF VectorFlagIsRight
<1> QED
  BY <1>2, <1>3, <1>4, <1>5 DEF RecordsHold, RecordsConverge

LEMMA JobFollows == LeadsInv => JobAccountsForItems
<1> SUFFICES ASSUME LeadsInv PROVE JobAccountsForItems
  OBVIOUS
<1>1. RecordsInv /\ JobTypes /\ ItemsOK /\ ToldOK /\ QueueOK
  BY DEF LeadsInv, JobInv
<1>2. PICK at : at = ingest.at
  OBVIOUS
<1>3. /\ at \in 0..Len(Items) /\ ingest.pc \in {"pending", "running", "over"}
      /\ told \in Seq(EventType) /\ DOMAIN told = 1..Len(told) /\ Len(told) \in Nat
      /\ Len(Items) \in Nat
  <2>1. told \in Seq(EventType)
    BY <1>1 DEF JobTypes, EventType
  <2> QED
    BY <1>1, <1>2, <2>1, JobItems DEF JobTypes
<1>4. Len(told) = CASE ingest.pc = "pending" -> 0
                    [] ingest.pc = "running" -> at - 1
                    [] ingest.pc = "over" -> at + 1
  BY <1>1, <1>2 DEF ToldOK
<1>5. ASSUME NEW i \in DOMAIN told, told[i].type # "complete" PROVE i <= at /\ i \in 1..Len(Items)
  <2>1. CASE ingest.pc = "over"
    <3>1. i \in 1..(at + 1) /\ told[at + 1].type = "complete"
      BY <1>1, <1>2, <1>3, <1>4, <2>1 DEF ToldOK, Event
    <3>2. i # at + 1
      BY <1>5, <3>1
    <3> QED
      BY <1>3, <3>1, <3>2
  <2>2. CASE ingest.pc = "running"
    BY <1>3, <1>4, <2>2
  <2>3. CASE ingest.pc = "pending"
    BY <1>3, <1>4, <2>3
  <2> QED
    BY <1>3, <2>1, <2>2, <2>3
<1>6. ClosedMeansEmbedded
  <2>1. SUFFICES ASSUME embedding.state = "closed"
                 PROVE  /\ ingest.pc = "over" /\ queue = << >>
                        /\ \A i \in DOMAIN told : told[i].type = "ids" => At(told[i].item, {"over", "unembedded"})
    BY DEF ClosedMeansEmbedded
  <2>2. consumer = "over" /\ ingest.pc = "over" /\ queue = << >>
    BY <1>1, <2>1 DEF QueueOK
  <2>3. \A o \in InJob : ~At(o, {"queued"}) /\ ~At(o, {"task"} \cup Slots) /\ ~At(o, {"left"})
    <3>1. DOMAIN queue = {}
      BY <2>2
    <3> QED
      BY <1>1, <2>1, <2>2, <3>1 DEF QueueOK
  <2>4. ASSUME NEW i \in DOMAIN told, told[i].type = "ids" PROVE At(told[i].item, {"over", "unembedded"})
    <3>1. i <= at /\ i \in 1..Len(Items)
      BY <1>5, <2>4
    <3>2. told[i].item = Items[i] /\ At(Items[i], Behind) /\ Items[i] \in InJob
      BY <1>1, <1>2, <2>4, <3>1, JobItems DEF ToldOK
    <3> QED
      BY <2>3, <3>2 DEF At, Behind, Slots
  <2> QED
    BY <2>2, <2>4
<1>7. EveryItemIsTold
  <2>1. \A i \in DOMAIN told : told[i].type # "complete" => told[i].item = Items[i]
    BY <1>1, <1>2, <1>5 DEF ToldOK
  <2>2. ASSUME ingest.pc = "over"
        PROVE  Last(told) = Event("complete", None) /\ (~ingest.cancelled => Len(told) = Len(Items) + 1)
    <3>1. Len(told) = at + 1 /\ told[at + 1] = Event("complete", None)
          /\ (ingest.cancelled \/ at = Len(Items))
      BY <1>1, <1>2, <1>4, <2>2 DEF ToldOK
    <3>2. Last(told) = told[Len(told)]
      BY DEF Last
    <3> QED
      BY <3>1, <3>2
  <2> QED
    BY <2>1, <2>2 DEF EveryItemIsTold
<1> QED
  BY <1>6, <1>7 DEF JobAccountsForItems

(***************************************************************************)
(* However the writers and the embedders of a lead interleave, the fields  *)
(* of its document are those of all the answers, nothing paid for is lost, *)
(* and its flag is true: for every set of leads and operations, and any    *)
(* number of attempts and failures (_upsert_enriched_record and            *)
(* _mark_embedded of leads).                                               *)
(***************************************************************************)
THEOREM RecordsHoldAlways == EnrichSpec => []RecordsHold
  BY LeadsInvariant, RecordsFollow, PTL

(***************************************************************************)
(* The streams of an enrichment job account for every item: one event for  *)
(* each, in their order, and an end that says what became of them          *)
(* (_run_match_stream_job of leads).                                       *)
(***************************************************************************)
THEOREM JobAccountsAlways == EnrichSpec => []JobAccountsForItems
  BY LeadsInvariant, JobFollows, PTL

-----------------------------------------------------------------------------
(***************************************************************************)
(* The card.                                                               *)
(***************************************************************************)
Answer == Payloads \cup {Nothing}
LeadType == [responses : [Sources -> Answer], old : Answer, enriched : BOOLEAN, derived : BOOLEAN,
             name : BOOLEAN, email : {"none", "real"}, phone : BOOLEAN]

\* The derived fields tell what the answer tells.
Covers(d, p) ==
    /\ p.name = TRUE => d.name = TRUE
    /\ p.email = "real" => d.email = "real"
    /\ p.phone = TRUE => d.phone = TRUE

CardInv ==
    /\ lead \in LeadType /\ behind \in BOOLEAN
    /\ lead.old.held = TRUE => lead.responses = NoPayloads
    /\ lead.derived = TRUE => lead.old = Nothing
    /\ lead.derived = FALSE => lead.name = FALSE /\ lead.email = "none" /\ lead.phone = FALSE
    /\ lead.derived = TRUE /\ behind = FALSE => \A e \in Sources : Covers(lead, lead.responses[e])

LEMMA AnswersAre ==
    /\ Nothing.held = FALSE /\ Nothing.name = FALSE /\ Nothing.email = "none" /\ Nothing.phone = FALSE
    /\ Nothing \in Answer
    /\ \A p \in Answer : /\ p.held \in BOOLEAN /\ p.name \in BOOLEAN /\ p.phone \in BOOLEAN
                         /\ p.email \in {"none", "locked", "real"}
    /\ \A p \in Payloads : p.held = TRUE
<1>1. Nothing.held = FALSE /\ Nothing.name = FALSE /\ Nothing.email = "none" /\ Nothing.phone = FALSE
  BY DEF Nothing
<1>2. \A p \in Payloads : /\ p.held = TRUE /\ p.name \in BOOLEAN /\ p.phone \in BOOLEAN
                           /\ p.email \in {"none", "locked", "real"}
  BY DEF Payloads
<1>3. \A p \in Answer : p \in Payloads \/ p = Nothing
  BY DEF Answer
<1>4. ASSUME NEW p \in Answer
      PROVE  /\ p.held \in BOOLEAN /\ p.name \in BOOLEAN /\ p.phone \in BOOLEAN
             /\ p.email \in {"none", "locked", "real"}
  BY <1>1, <1>2, <1>3
<1> QED
  BY <1>1, <1>2, <1>4 DEF Answer

LEMMA LeadFields ==
    ASSUME NEW d \in LeadType
    PROVE  /\ d.responses \in [Sources -> Answer] /\ d.old \in Answer /\ d.enriched \in BOOLEAN
           /\ d.derived \in BOOLEAN /\ d.name \in BOOLEAN /\ d.email \in {"none", "real"}
           /\ d.phone \in BOOLEAN
  BY DEF LeadType

LEMMA FirstIs ==
    ASSUME NEW all, NEW having \in SUBSET Sources
    PROVE  IF having = {} THEN First(all, having) = Nothing
           ELSE \E e \in having : First(all, having) = all[e]
<1>1. CASE having = {}
  BY <1>1 DEF First
<1>2. CASE having # {}
  <2>1. \A e \in having : e = "match" \/ e = "byid" \/ e = "search"
    BY DEF Sources
  <2>2. Priority["match"] = 1 /\ Priority["byid"] = 2 /\ Priority["search"] = 3
    BY DEF Priority
  <2>3. \E e \in having : \A f \in having : Priority[e] <= Priority[f]
    <3>1. CASE "match" \in having
      BY <2>1, <2>2, <3>1
    <3>2. CASE "match" \notin having /\ "byid" \in having
      BY <2>1, <2>2, <3>2
    <3>3. CASE "match" \notin having /\ "byid" \notin having
      BY <1>2, <2>1, <2>2, <3>3
    <3> QED
      BY <3>1, <3>2, <3>3
  <2> QED
    BY <1>2, <2>3 DEF First
<1> QED
  BY <1>1, <1>2

\* A derived field is told if and only if some answer tells it.
LEMMA TopsAre ==
    ASSUME NEW all \in [Sources -> Answer]
    PROVE  /\ TopName(all) \in BOOLEAN /\ TopPhone(all) \in BOOLEAN
           /\ \A e \in Sources :
                 /\ all[e].name = TRUE => TopName(all) = TRUE
                 /\ all[e].email = "real" => TopEmail(all) = "real"
                 /\ all[e].phone = TRUE => TopPhone(all) = TRUE
<1>1. \A e \in Sources : all[e] \in Answer
  OBVIOUS
<1>2. TopName(all) \in BOOLEAN /\ \A e \in Sources : all[e].name = TRUE => TopName(all) = TRUE
  <2> DEFINE having == {e \in Sources : all[e].name}
  <2>1. TopName(all) = First(all, having).name
    BY DEF TopName
  <2>2. /\ having \in SUBSET Sources /\ \A e \in having : all[e].name = TRUE
        /\ \A e \in Sources : all[e].name = TRUE => e \in having
    BY <1>1, AnswersAre
  <2> HIDE DEF having
  <2>3. CASE having = {}
    BY <2>1, <2>2, <2>3, FirstIs, AnswersAre
  <2>4. CASE having # {}
    BY <2>1, <2>2, <2>4, FirstIs
  <2> QED
    BY <2>3, <2>4
<1>3. \A e \in Sources : all[e].email = "real" => TopEmail(all) = "real"
  <2> DEFINE having == {e \in Sources : all[e].email = "real"}
  <2>1. TopEmail(all) = First(all, having).email
    BY DEF TopEmail
  <2>2. /\ having \in SUBSET Sources /\ \A e \in having : all[e].email = "real"
        /\ \A e \in Sources : all[e].email = "real" => e \in having
    OBVIOUS
  <2> HIDE DEF having
  <2>3. CASE having = {}
    BY <2>2, <2>3
  <2>4. CASE having # {}
    BY <2>1, <2>2, <2>4, FirstIs
  <2> QED
    BY <2>3, <2>4
<1>4. TopPhone(all) \in BOOLEAN /\ \A e \in Sources : all[e].phone = TRUE => TopPhone(all) = TRUE
  <2> DEFINE having == {e \in Sources : all[e].phone}
  <2>1. TopPhone(all) = First(all, having).phone
    BY DEF TopPhone
  <2>2. /\ having \in SUBSET Sources /\ \A e \in having : all[e].phone = TRUE
        /\ \A e \in Sources : all[e].phone = TRUE => e \in having
    BY <1>1, AnswersAre
  <2> HIDE DEF having
  <2>3. CASE having = {}
    BY <2>1, <2>2, <2>3, FirstIs, AnswersAre
  <2>4. CASE having # {}
    BY <2>1, <2>2, <2>4, FirstIs
  <2> QED
    BY <2>3, <2>4
<1> QED
  BY <1>2, <1>3, <1>4

\* What the service serves for a document.
LEMMA ResponsesAre ==
    ASSUME NEW d \in LeadType
    PROVE  Responses(d) \in [Sources -> Answer]
<1>1. NoPayloads \in [Sources -> Answer]
  BY AnswersAre DEF NoPayloads
<1>2. "byid" \in Sources /\ "search" \in Sources
  BY DEF Sources
<1> QED
  BY <1>1, <1>2, LeadFields DEF Responses

LEMMA DisplayIs ==
    ASSUME NEW d \in LeadType, NEW s, s = Display(Served(d))
    PROVE  s = Nothing \/ \E e \in Sources : s = Responses(d)[e] /\ s.held = TRUE
<1>0. PICK all : all = Responses(d)
  OBVIOUS
<1>1. all \in [Sources -> Answer] /\ \A e \in Sources : all[e] \in Answer
  BY <1>0, ResponsesAre
<1>2. PICK t : t = Served(d)
  OBVIOUS
<1>3. \A e \in Sources : t[e] = all[e] \/ t[e] = Nothing
  BY <1>0, <1>2 DEF Served
<1>4. PICK having : having = Held(t)
  OBVIOUS
<1>5. having \in SUBSET Sources /\ \A e \in having : t[e].held
  BY <1>4 DEF Held
<1>6. s = First(t, having)
  BY <1>2, <1>4 DEF Display
<1>7. CASE having = {}
  BY <1>5, <1>6, <1>7, FirstIs, AnswersAre
<1>8. CASE having # {}
  <2>1. PICK e \in having : s = t[e]
    BY <1>5, <1>6, <1>8, FirstIs
  <2>2. t[e].held /\ e \in Sources
    BY <1>5
  <2>3. t[e] # Nothing
    BY <2>2, AnswersAre
  <2> QED
    BY <1>0, <1>1, <1>3, <2>1, <2>2, <2>3, AnswersAre
<1> QED
  BY <1>7, <1>8

LEMMA DisplayFits ==
    ASSUME NEW d \in LeadType
    PROVE  Display(Served(d)) \in Answer
<1>1. PICK s : s = Display(Served(d))
  OBVIOUS
<1>2. \A e \in Sources : Responses(d)[e] \in Answer
  BY ResponsesAre
<1>3. s = Nothing \/ \E e \in Sources : s = Responses(d)[e] /\ s.held = TRUE
  BY <1>1, DisplayIs
<1> QED
  BY <1>1, <1>2, <1>3, AnswersAre

LEMMA CardStarts == CardInit => CardInv
<1> SUFFICES ASSUME CardInit PROVE CardInv
  OBVIOUS
<1>1. PICK old \in Payloads \cup {Nothing}, enriched \in BOOLEAN,
           all \in [Sources -> {Nothing} \cup {p \in Payloads : p.name}] :
        /\ old.held => all = NoPayloads /\ (enriched \/ old \in Teasers)
        /\ lead = [responses |-> all, old |-> old, enriched |-> enriched, derived |-> FALSE,
                   name |-> FALSE, email |-> "none", phone |-> FALSE]
  BY DEF CardInit
<1>2. all \in [Sources -> Answer] /\ old \in Answer
  BY <1>1 DEF Answer
<1>3. /\ lead.responses = all /\ lead.old = old /\ lead.derived = FALSE /\ lead.name = FALSE
      /\ lead.email = "none" /\ lead.phone = FALSE
  BY <1>1
<1>4. lead \in LeadType
  BY <1>1, <1>2 DEF LeadType
<1>5. behind = FALSE
  BY DEF CardInit
<1> QED
  BY <1>1, <1>3, <1>4, <1>5 DEF CardInv

\* A write that derives the fields.
LEMMA Upserted ==
    ASSUME CardInv, NEW e \in Sources, NEW p \in Payloads, UpsertAnswer(e, p)
    PROVE  /\ CardInv' /\ lead'.derived = TRUE /\ behind' = FALSE
           /\ lead.name = TRUE => lead'.name = TRUE
           /\ lead.email = "real" => lead'.email = "real"
           /\ lead.phone = TRUE => lead'.phone = TRUE
           /\ \A f \in Sources : f # e => Covers(lead', Responses(lead)[f])
           /\ Covers(lead', p) /\ lead'.responses[e] = p
<1>0. PICK d, n, all : d = lead /\ n = lead' /\ all = [Responses(lead) EXCEPT ![e] = p]
  OBVIOUS
<1>1. d \in LeadType /\ Responses(d) \in [Sources -> Answer] /\ p \in Answer
  BY <1>0, ResponsesAre DEF CardInv, Answer
<1>2. all \in [Sources -> Answer] /\ all[e] = p /\ \A f \in Sources : f # e => all[f] = Responses(d)[f]
  BY <1>0, <1>1
<1>3. PICK w : w = WithFields(d, all)
  OBVIOUS
<1>4. w = [d EXCEPT !.derived = TRUE, !.name = d.name \/ TopName(all),
                    !.email = IF TopEmail(all) = "real" THEN "real" ELSE d.email,
                    !.phone = d.phone \/ TopPhone(all)]
  BY <1>3 DEF WithFields
<1>5. /\ TopName(all) \in BOOLEAN /\ TopPhone(all) \in BOOLEAN
      /\ \A f \in Sources :
            /\ all[f].name = TRUE => TopName(all) = TRUE
            /\ all[f].email = "real" => TopEmail(all) = "real"
            /\ all[f].phone = TRUE => TopPhone(all) = TRUE
  BY <1>2, TopsAre
<1>6. /\ d.responses \in [Sources -> Answer] /\ d.old \in Answer /\ d.enriched \in BOOLEAN
      /\ d.derived \in BOOLEAN /\ d.name \in BOOLEAN /\ d.email \in {"none", "real"}
      /\ d.phone \in BOOLEAN
  BY <1>1, LeadFields
<1>7. PICK na, em, ph : /\ na = (d.name \/ TopName(all)) /\ ph = (d.phone \/ TopPhone(all))
                        /\ em = IF TopEmail(all) = "real" THEN "real" ELSE d.email
  OBVIOUS
<1>8. /\ na \in BOOLEAN /\ ph \in BOOLEAN /\ em \in {"none", "real"}
      /\ d.name = TRUE => na = TRUE
      /\ d.phone = TRUE => ph = TRUE
      /\ d.email = "real" => em = "real"
      /\ TopName(all) = TRUE => na = TRUE
      /\ TopPhone(all) = TRUE => ph = TRUE
      /\ TopEmail(all) = "real" => em = "real"
  BY <1>5, <1>6, <1>7
<1>9. PICK rs : rs = [d.responses EXCEPT ![e] = p]
  OBVIOUS
<1>10. rs \in [Sources -> Answer] /\ rs[e] = p /\ \A f \in Sources : f # e => rs[f] = d.responses[f]
  BY <1>1, <1>6, <1>9
<1>11. n = [responses |-> rs, old |-> Nothing, enriched |-> d.enriched, derived |-> TRUE,
            name |-> na, email |-> em, phone |-> ph]
  <2>1. n = [w EXCEPT !.responses[e] = p, !.old = Nothing]
    BY <1>0, <1>3 DEF UpsertAnswer, Stored
  <2>2. d = [responses |-> d.responses, old |-> d.old, enriched |-> d.enriched, derived |-> d.derived,
             name |-> d.name, email |-> d.email, phone |-> d.phone]
    BY <1>1 DEF LeadType
  <2>3. w = [d EXCEPT !.derived = TRUE, !.name = na, !.email = em, !.phone = ph]
    BY <1>4, <1>7
  <2>4. w = [responses |-> d.responses, old |-> d.old, enriched |-> d.enriched, derived |-> TRUE,
             name |-> na, email |-> em, phone |-> ph]
    BY <2>2, <2>3
  <2>5. n = [w EXCEPT !.responses = rs, !.old = Nothing]
    BY <1>9, <2>1, <2>4
  <2> QED
    BY <2>4, <2>5
<1>12. /\ n.responses = rs /\ n.old = Nothing /\ n.derived = TRUE /\ n.name = na /\ n.email = em
       /\ n.phone = ph
  BY <1>11
<1>13. n \in LeadType
  BY <1>6, <1>8, <1>10, <1>11, AnswersAre DEF LeadType
<1>14. \A f \in Sources : Covers(n, all[f])
  BY <1>5, <1>8, <1>12 DEF Covers
<1>15. \A f \in Sources : f # e => Covers(n, d.responses[f])
  <2>1. SUFFICES ASSUME NEW f \in Sources, f # e PROVE Covers(n, d.responses[f])
    OBVIOUS
  <2>2. CASE Responses(d) = d.responses
    BY <1>2, <1>14, <2>1, <2>2
  <2>3. CASE Responses(d) # d.responses
    <3>1. d.responses = NoPayloads
      BY <2>3 DEF Responses
    <3>2. d.responses[f] = Nothing
      BY <3>1 DEF NoPayloads
    <3> QED
      BY <3>2, AnswersAre DEF Covers
  <2> QED
    BY <2>2, <2>3
<1>16. Covers(n, p) /\ \A f \in Sources : Covers(n, rs[f])
  BY <1>2, <1>10, <1>14, <1>15
<1>17. behind' = FALSE
  BY DEF UpsertAnswer
<1>18. CardInv'
  <2>1. n.old.held = FALSE
    BY <1>12, AnswersAre
  <2> QED
    BY <1>0, <1>12, <1>13, <1>16, <1>17, <2>1 DEF CardInv
<1> QED
  BY <1>0, <1>2, <1>8, <1>10, <1>12, <1>14, <1>16, <1>17, <1>18

LEMMA UpsertedBeaten ==
    ASSUME CardInv, NEW e \in Sources, NEW p \in Payloads, UpsertBeaten(e, p)
    PROVE  CardInv' /\ behind' = TRUE
<1>0. PICK d, n : d = lead /\ n = lead'
  OBVIOUS
<1>1. d \in LeadType /\ p \in Answer
  BY <1>0 DEF CardInv, Answer
<1>2. /\ d.responses \in [Sources -> Answer] /\ d.old \in Answer /\ d.enriched \in BOOLEAN
      /\ d.derived \in BOOLEAN /\ d.name \in BOOLEAN /\ d.email \in {"none", "real"}
      /\ d.phone \in BOOLEAN
  BY <1>1, LeadFields
<1>3. PICK rs : rs = [d.responses EXCEPT ![e] = p]
  OBVIOUS
<1>4. rs \in [Sources -> Answer]
  BY <1>1, <1>2, <1>3
<1>5. n = [responses |-> rs, old |-> Nothing, enriched |-> d.enriched, derived |-> d.derived,
           name |-> d.name, email |-> d.email, phone |-> d.phone]
  <2>1. n = [d EXCEPT !.responses[e] = p, !.old = Nothing]
    BY <1>0 DEF UpsertBeaten, Stored
  <2>2. d = [responses |-> d.responses, old |-> d.old, enriched |-> d.enriched, derived |-> d.derived,
             name |-> d.name, email |-> d.email, phone |-> d.phone]
    BY <1>1 DEF LeadType
  <2>3. n = [d EXCEPT !.responses = rs, !.old = Nothing]
    BY <1>3, <2>1
  <2> QED
    BY <2>2, <2>3
<1>6. n.old = Nothing /\ n.derived = d.derived /\ n.name = d.name /\ n.email = d.email /\ n.phone = d.phone
  BY <1>5
<1>7. n \in LeadType
  BY <1>2, <1>4, <1>5, AnswersAre DEF LeadType
<1>8. behind' = TRUE
  BY DEF UpsertBeaten
<1>9. n.old.held = FALSE
  BY <1>6, AnswersAre
<1> QED
  BY <1>0, <1>6, <1>7, <1>8, <1>9 DEF CardInv

LEMMA MergedIs ==
    ASSUME NEW a \in Answer, NEW told0 \in Payloads
    PROVE  Merged(a, told0) \in Payloads
<1>1. PICK m : m = Merged(a, told0)
  OBVIOUS
<1>2. a = [held |-> a.held, name |-> a.name, email |-> a.email, phone |-> a.phone]
  BY DEF Answer, Payloads, Nothing
<1>3. PICK ph, em : /\ ph = (a.phone \/ told0.phone)
                    /\ em = IF told0.email = "none" THEN a.email ELSE told0.email
  OBVIOUS
<1>4. told0 \in Answer
  BY DEF Answer
<1>5. ph \in BOOLEAN /\ em \in {"none", "locked", "real"} /\ a.name \in BOOLEAN
  BY <1>3, <1>4, AnswersAre
<1>6. m = [a EXCEPT !.held = TRUE, !.phone = ph, !.email = em]
  BY <1>1, <1>3 DEF Merged
<1>7. m = [held |-> TRUE, name |-> a.name, email |-> em, phone |-> ph]
  BY <1>2, <1>6
<1> QED
  BY <1>1, <1>5, <1>7 DEF Payloads

\* Every step is a write of one kind or the other.
LEMMA CardWrites ==
    ASSUME CardInv, CardNext
    PROVE  \E e \in Sources, p \in Payloads : UpsertAnswer(e, p) \/ UpsertBeaten(e, p)
<1>1. \A e \in Sources : MayTell(e) \subseteq Payloads
  BY DEF MayTell, Teasers
<1>2. CASE \E e \in Sources : \E p \in MayTell(e) : UpsertAnswer(e, p) \/ UpsertBeaten(e, p)
  BY <1>1, <1>2
<1>3. CASE \E said \in Payloads : Webhook(said)
  <2>1. PICK said \in Payloads : Webhook(said)
    BY <1>3
  <2>2. lead \in LeadType /\ "match" \in Sources
    BY DEF CardInv, Sources
  <2>3. Responses(lead)["match"] \in Answer
    BY <2>2, ResponsesAre
  <2>4. Merged(Responses(lead)["match"], said) \in Payloads
    BY <2>3, MergedIs
  <2> QED
    BY <2>1, <2>2, <2>4 DEF Webhook
<1> QED
  BY <1>2, <1>3 DEF CardNext

LEMMA CardStep == CardInv /\ [CardNext]_cardVars => CardInv'
<1> SUFFICES ASSUME CardInv, [CardNext]_cardVars PROVE CardInv'
  OBVIOUS
<1>1. CASE CardNext
  BY <1>1, CardWrites, Upserted, UpsertedBeaten
<1>2. CASE UNCHANGED cardVars
  BY <1>2 DEF cardVars, CardInv, Covers
<1> QED
  BY <1>1, <1>2

LEMMA CardInvariant == CardSpec => []CardInv
  BY CardStarts, CardStep, PTL DEF CardSpec

\* What is read off a card.
LEMMA CardFields ==
    ASSUME NEW d \in LeadType, NEW s, s = Display(Served(d)), NEW c, c = Card(d)
    PROVE  /\ c.name = (s.name \/ d.name) /\ c.phone = (s.phone \/ d.phone)
           /\ d.email = "real" => c.email = "real"
           /\ d.email = "none" => c.email = IF s.email = "locked" THEN "none" ELSE s.email
           /\ c.hasEmail = (d.derived /\ d.email # "none") /\ c.hasPhone = (d.derived /\ d.phone)
<1>1. PICK shown : shown = Shown(s)
  OBVIOUS
<1>2. /\ shown.name = s.name /\ shown.phone = s.phone
      /\ shown.email = IF s.email = "locked" THEN "none" ELSE s.email
  BY <1>1 DEF Shown
<1>3. c = [name     |-> shown.name \/ d.name,
           email    |-> IF d.email # "none" THEN d.email ELSE shown.email,
           phone    |-> shown.phone \/ d.phone,
           hasEmail |-> d.derived /\ d.email # "none",
           hasPhone |-> d.derived /\ d.phone]
  BY <1>1 DEF Card
<1>4. /\ c.name = (shown.name \/ d.name) /\ c.phone = (shown.phone \/ d.phone)
      /\ c.email = IF d.email # "none" THEN d.email ELSE shown.email
      /\ c.hasEmail = (d.derived /\ d.email # "none") /\ c.hasPhone = (d.derived /\ d.phone)
  BY <1>3
<1> QED
  BY <1>2, <1>4

\* The answer that is shown is one the derived fields cover.
LEMMA ShownIsCovered ==
    ASSUME CardInv, lead.derived = TRUE, behind = FALSE, NEW s, s = Display(Served(lead))
    PROVE  Covers(lead, s)
<1>1. lead \in LeadType /\ lead.old = Nothing /\ \A e \in Sources : Covers(lead, lead.responses[e])
  BY DEF CardInv
<1>2. Responses(lead) = lead.responses
  BY <1>1, AnswersAre DEF Responses
<1>3. s = Nothing \/ \E e \in Sources : s = lead.responses[e]
  <2>1. PICK d : d = lead
    OBVIOUS
  <2>2. d \in LeadType /\ s = Display(Served(d))
    BY <1>1, <2>1
  <2>3. s = Nothing \/ \E e \in Sources : s = Responses(d)[e] /\ s.held = TRUE
    BY <2>2, DisplayIs
  <2> QED
    BY <1>2, <2>1, <2>3
<1>4. Covers(lead, Nothing)
  BY AnswersAre DEF Covers
<1> QED
  BY <1>1, <1>3, <1>4

LEMMA CardInvGivesCardIsTrue == CardInv => CardIsTrue
<1> SUFFICES ASSUME CardInv PROVE CardIsTrue
  OBVIOUS
<1>1. PICK d, s, c : d = lead /\ s = Display(Served(d)) /\ c = Card(d)
  OBVIOUS
<1>2. d \in LeadType
  BY <1>1 DEF CardInv
<1>3. /\ d.derived \in BOOLEAN /\ d.name \in BOOLEAN /\ d.email \in {"none", "real"}
      /\ d.phone \in BOOLEAN
  BY <1>2, LeadFields
<1>4. s \in Answer
  BY <1>1, <1>2, DisplayFits
<1>5. s.name \in BOOLEAN /\ s.phone \in BOOLEAN /\ s.email \in {"none", "locked", "real"}
  BY <1>4, AnswersAre
<1>6. /\ c.name = (s.name \/ d.name) /\ c.phone = (s.phone \/ d.phone)
      /\ d.email = "real" => c.email = "real"
      /\ d.email = "none" => c.email = IF s.email = "locked" THEN "none" ELSE s.email
      /\ c.hasEmail = (d.derived /\ d.email # "none") /\ c.hasPhone = (d.derived /\ d.phone)
  BY <1>1, <1>2, CardFields
<1>7. c.email # "locked"
  BY <1>3, <1>5, <1>6
<1>8. ASSUME d.derived, ~behind
      PROVE  /\ c.hasEmail = (c.email = "real") /\ c.hasPhone = c.phone
             /\ \A e \in Held(d.responses) : d.responses[e].name => c.name
  <2>1. d.derived = TRUE /\ behind = FALSE
    BY <1>3, <1>8
  <2>2. Covers(d, s)
    BY <1>1, <2>1, ShownIsCovered
  <2>3. s.email = "real" => d.email = "real"
    BY <2>2 DEF Covers
  <2>4. s.phone = TRUE => d.phone = TRUE
    BY <2>2 DEF Covers
  <2>5. c.hasEmail = (c.email = "real")
    BY <1>3, <1>5, <1>6, <2>1, <2>3
  <2>6. c.hasPhone = c.phone
    BY <1>3, <1>5, <1>6, <2>1, <2>4
  <2>7. ASSUME NEW e \in Held(d.responses), d.responses[e].name PROVE c.name
    <3>1. e \in Sources
      BY DEF Held
    <3>2. Covers(d, d.responses[e])
      BY <1>1, <2>1, <3>1 DEF CardInv
    <3>3. d.responses[e].name \in BOOLEAN
      BY <1>2, <3>1, LeadFields, AnswersAre
    <3>4. d.name = TRUE
      BY <2>7, <3>2, <3>3 DEF Covers
    <3> QED
      BY <1>6, <3>4
  <2> QED
    BY <2>5, <2>6, <2>7
<1> QED
  BY <1>1, <1>7, <1>8 DEF CardIsTrue

(***************************************************************************)
(* In every state of the card the e-mail shown is not a locked one, and    *)
(* unless the last write was beaten the chips say what the card shows:     *)
(* derive_top_fields of leads and lead_to_record of search agree.          *)
(***************************************************************************)
THEOREM CardIsTrueAlways == CardSpec => []CardIsTrue
  BY CardInvariant, CardInvGivesCardIsTrue, PTL

-----------------------------------------------------------------------------
\* The fields a write derives cover what was shown before it.
LEMMA UpsertKeepsShown ==
    ASSUME CardInv, NEW e \in Sources, NEW p \in Payloads, UpsertAnswer(e, p), ~behind,
           lead.derived \/ \A f \in Held(Responses(lead)) : ~Replaces(f),
           NEW s, s = Display(Served(lead))
    PROVE  Covers(lead', s)
<1>1. PICK d, n, all : d = lead /\ n = lead' /\ all = Responses(d)
  OBVIOUS
<1>2. /\ d \in LeadType /\ d.derived \in BOOLEAN /\ behind = FALSE
      /\ all \in [Sources -> Answer]
  <2>1. d \in LeadType /\ behind \in BOOLEAN
    BY <1>1 DEF CardInv
  <2> QED
    BY <1>1, <2>1, LeadFields, ResponsesAre
<1>3. /\ d.name = TRUE => n.name = TRUE
      /\ d.email = "real" => n.email = "real"
      /\ d.phone = TRUE => n.phone = TRUE
      /\ \A f \in Sources : f # e => Covers(n, all[f])
      /\ Covers(n, p) /\ n.responses[e] = p
  BY <1>1, Upserted
<1>4. s = Nothing \/ \E f \in Sources : s = all[f] /\ s.held = TRUE
  <2>1. s = Display(Served(d))
    BY <1>1
  <2>2. s = Nothing \/ \E f \in Sources : s = Responses(d)[f] /\ s.held = TRUE
    BY <1>2, <2>1, DisplayIs
  <2> QED
    BY <1>1, <2>2
<1>5. CASE s = Nothing
  BY <1>1, <1>5, AnswersAre DEF Covers
<1>6. ASSUME NEW f \in Sources, s = all[f], s.held = TRUE
      PROVE  Covers(n, s)
  <2>1. CASE f # e
    BY <1>3, <1>6, <2>1
  <2>2. CASE f = e /\ d.derived = TRUE
    <3>1. Covers(d, s)
      BY <1>1, <1>2, <2>2, ShownIsCovered
    <3> QED
      BY <1>3, <3>1 DEF Covers
  <2>3. CASE f = e /\ d.derived = FALSE
    <3>1. f \in Held(all)
      BY <1>6 DEF Held
    <3>2. ~Replaces(f)
      BY <1>1, <2>3, <3>1
    <3>3. n.responses[e] \in {all[e], Nothing}
      BY <1>1, <2>3, <3>2 DEF Replaces
    <3>4. p # Nothing
      BY AnswersAre
    <3> QED
      BY <1>3, <1>6, <2>3, <3>3, <3>4
  <2> QED
    BY <1>2, <2>1, <2>2, <2>3
<1> QED
  BY <1>1, <1>4, <1>5, <1>6

\* Then the card loses nothing.
LEMMA CardKeeps ==
    ASSUME NEW d \in LeadType, NEW n \in LeadType, NEW b, b = Card(d), NEW a, a = Card(n),
           Covers(n, Display(Served(d))),
           d.name = TRUE => n.name = TRUE, d.email = "real" => n.email = "real",
           d.phone = TRUE => n.phone = TRUE
    PROVE  (b.name => a.name) /\ (b.phone => a.phone) /\ (b.email = "real" => a.email = "real")
<1>1. PICK s, t : s = Display(Served(d)) /\ t = Display(Served(n))
  OBVIOUS
<1>2. /\ s.name \in BOOLEAN /\ s.phone \in BOOLEAN /\ t.name \in BOOLEAN /\ t.phone \in BOOLEAN
  BY <1>1, DisplayFits, AnswersAre
<1>3. /\ d.name \in BOOLEAN /\ d.email \in {"none", "real"} /\ d.phone \in BOOLEAN
      /\ n.name \in BOOLEAN /\ n.email \in {"none", "real"} /\ n.phone \in BOOLEAN
  BY LeadFields
<1>4. /\ b.name = (s.name \/ d.name) /\ b.phone = (s.phone \/ d.phone)
      /\ d.email = "none" => b.email = IF s.email = "locked" THEN "none" ELSE s.email
  BY <1>1, CardFields
<1>5. /\ a.name = (t.name \/ n.name) /\ a.phone = (t.phone \/ n.phone)
      /\ n.email = "real" => a.email = "real"
  BY <1>1, CardFields
<1>6. /\ s.name = TRUE => n.name = TRUE
      /\ s.email = "real" => n.email = "real"
      /\ s.phone = TRUE => n.phone = TRUE
  BY <1>1 DEF Covers
<1>7. b.name => a.name
  BY <1>2, <1>3, <1>4, <1>5, <1>6
<1>8. b.phone => a.phone
  BY <1>2, <1>3, <1>4, <1>5, <1>6
<1>9. b.email = "real" => a.email = "real"
  BY <1>3, <1>4, <1>5, <1>6
<1> QED
  BY <1>7, <1>8, <1>9

ShownIsKept ==
    LET before == Card(lead) IN LET after == Card(lead)' IN
       ~behind /\ ~behind' /\ (lead.derived \/ \A e \in Held(Responses(lead)) : ~Replaces(e)) =>
        /\ (before.name => after.name) /\ (before.phone => after.phone)
        /\ (before.email = "real" => after.email = "real")

LEMMA CardStepKeepsShown == CardInv /\ [CardNext]_cardVars => [ShownIsKept]_cardVars
<1> SUFFICES ASSUME CardInv, CardNext, ~behind, ~behind',
                    lead.derived \/ \A e \in Held(Responses(lead)) : ~Replaces(e)
             PROVE  /\ (Card(lead).name => Card(lead').name)
                    /\ (Card(lead).phone => Card(lead').phone)
                    /\ (Card(lead).email = "real" => Card(lead').email = "real")
  BY DEF ShownIsKept
<1>1. PICK e \in Sources, p \in Payloads : UpsertAnswer(e, p) \/ UpsertBeaten(e, p)
  BY CardWrites
<1>2. UpsertAnswer(e, p)
  BY <1>1, UpsertedBeaten
<1>3. CardInv' /\ Covers(lead', Display(Served(lead)))
  BY <1>2, Upserted, UpsertKeepsShown
<1>4. /\ lead.name = TRUE => lead'.name = TRUE
      /\ lead.email = "real" => lead'.email = "real"
      /\ lead.phone = TRUE => lead'.phone = TRUE
  BY <1>2, Upserted
<1>5. lead \in LeadType /\ lead' \in LeadType
  BY <1>3 DEF CardInv
<1> QED
  BY <1>3, <1>4, <1>5, CardKeeps

(***************************************************************************)
(* Every step of the card keeps a name, an e-mail or a phone that was      *)
(* shown: the fields a write derives cover the answers it does not         *)
(* replace, and the ones it replaces if they were covered already.         *)
(***************************************************************************)
THEOREM NothingShownIsLostEver == CardSpec => NothingShownIsLost
<1>1. CardInv /\ [CardNext]_cardVars => [ShownIsKept]_cardVars
  BY CardStepKeepsShown
<1> QED
  BY <1>1, CardInvariant, PTL DEF CardSpec, NothingShownIsLost, ShownIsKept

-----------------------------------------------------------------------------
(***************************************************************************)
(* The streamed search.  StreamsProofs proves the inductive invariant of   *)
(* the same streams beside their relay.  It says nothing of the relay, so  *)
(* here any expression stands for what the relay keeps.                    *)
(***************************************************************************)
Relayed == INSTANCE StreamsProofs
             WITH queue <- pages, consumer <- embedder, controls <- requests,
                  relay <- part, pos <- part, follows <- part, rows <- part,
                  shown <- part, replies <- part, received <- part

\* Both instances are of the same module.
LEMMA SameInit == Search!Init => Relayed!Init
BY DEF Search!Init, Relayed!Init, Search!Streams, Relayed!Streams, Search!PageNumbers, Relayed!PageNumbers

LEMMA SameNext == Search!LeadsNext => Relayed!LeadsNext
BY DEF Search!Streams, Relayed!Streams, Search!PageNumbers, Relayed!PageNumbers, Search!Sentinel,
       Relayed!Sentinel, Search!Lossy, Relayed!Lossy, Search!Ends, Relayed!Ends, Search!Event, Relayed!Event,
       Search!Note, Relayed!Note, Search!Trimmed, Relayed!Trimmed, Search!Publish, Relayed!Publish,
       Search!Finished, Relayed!Finished, Search!Over, Relayed!Over, Search!Expirable, Relayed!Expirable,
       Search!Expire, Relayed!Expire, Search!Full, Relayed!Full, Search!Close, Relayed!Close, Search!EndWalk,
       Relayed!EndWalk, Search!AskForPage, Relayed!AskForPage, Search!StartWalk, Relayed!StartWalk,
       Search!WakeWalk, Relayed!WakeWalk, Search!Go, Relayed!Go, Search!Offer, Relayed!Offer, Search!Poll,
       Relayed!Poll, Search!Throttle, Relayed!Throttle, Search!FetchPage, Relayed!FetchPage, Search!FetchNothing,
       Relayed!FetchNothing, Search!CloseQueue, Relayed!CloseQueue, Search!Busy, Relayed!Busy, Search!SlotFree,
       Relayed!SlotFree, Search!TakeBatch, Relayed!TakeBatch, Search!Settle, Relayed!Settle, Search!Join,
       Relayed!Join, Search!AtChunk, Relayed!AtChunk, Search!Done, Relayed!Done, Search!StartBatch,
       Relayed!StartBatch, Search!WakeBatch, Relayed!WakeBatch, Search!Counted, Relayed!Counted, Search!Embedded,
       Relayed!Embedded, Search!Woken, Relayed!Woken, Search!Active, Relayed!Active, Search!CancelIngest,
       Relayed!CancelIngest, Search!CancelEmbedding, Relayed!CancelEmbedding, Search!Cancel, Relayed!Cancel,
       Search!SetPaused, Relayed!SetPaused, Search!Actions, Relayed!Actions, Search!StreamControl,
       Relayed!StreamControl, Search!Walking, Relayed!Walking, Search!Embedding, Relayed!Embedding,
       Search!Timers, Relayed!Timers, Search!LeadsNext, Relayed!LeadsNext, Search!ingestVars, Relayed!ingestVars,
       Search!embedVars, Relayed!embedVars, Search!streamVars, Relayed!streamVars, Search!Min, Relayed!Min,
       Search!Last, Relayed!Last, Search!Cardinality, Relayed!Cardinality, Search!IsFiniteSet,
       Relayed!IsFiniteSet

LEMMA SamePromise == Relayed!StreamsHold => SearchHolds
BY DEF SearchHolds,
       Search!Types, Relayed!Types, Search!StreamsOK, Relayed!StreamsOK, Search!Selected, Relayed!Selected,
       Search!StoredPages, Relayed!StoredPages, Search!Unembedded, Relayed!Unembedded, Search!WalkStaysClose,
       Relayed!WalkStaysClose, Search!LiveStreamIsKept, Relayed!LiveStreamIsKept, Search!EveryLeadIsAccountedFor,
       Relayed!EveryLeadIsAccountedFor, Search!StreamsHold, Relayed!StreamsHold, Search!Streams, Relayed!Streams,
       Search!PageNumbers, Relayed!PageNumbers, Search!Event, Relayed!Event, Search!Lossy, Relayed!Lossy,
       Search!Ends, Relayed!Ends, Search!ToSet, Relayed!ToSet, Search!Cardinality, Relayed!Cardinality,
       Search!IsFiniteSet, Relayed!IsFiniteSet

LEMMA SearchInvariant ==
    /\ Search!Init => Relayed!LeadsInv
    /\ Relayed!LeadsInv /\ [Search!LeadsNext]_searchVars => Relayed!LeadsInv'
    /\ Relayed!LeadsInv => SearchHolds
<1>1. Relayed!StreamsAssumption
  BY SearchAssumption DEF Search!StreamsAssumption, Relayed!StreamsAssumption
<1>2. Search!Init => Relayed!LeadsInv
  BY <1>1, SameInit, Relayed!LeadsInit_Inv
<1>3. [Search!LeadsNext]_searchVars => [Relayed!LeadsNext]_(Relayed!streamVars)
  BY SameNext DEF searchVars, Relayed!streamVars
<1>4. Relayed!LeadsInv /\ [Search!LeadsNext]_searchVars => Relayed!LeadsInv'
  BY <1>1, <1>3, Relayed!LeadsNextKeeps
<1>5. Relayed!LeadsInv => SearchHolds
  BY <1>1, SamePromise, Relayed!InvMeansStreamsHold
<1> QED
  BY <1>2, <1>4, <1>5

(***************************************************************************)
(* In the run of the whole service, too, the walk stays close to its       *)
(* embedding, a stream that works is kept, and every lead is accounted     *)
(* for: run_paged_search_stream, schedule_embedding_batch and their        *)
(* manager, for any sizes and controls.                                    *)
(***************************************************************************)
THEOREM SearchHoldsAlways == LeadsSpec => []SearchHolds
<1>1. LeadsSpec => LeadsInit /\ [][LeadsNext]_leadVars
  BY PTL DEF LeadsSpec
<1>2. LeadsInit => Relayed!LeadsInv
  BY SearchInvariant DEF LeadsInit
<1>3. [LeadsNext]_leadVars => [Search!LeadsNext]_searchVars
  BY DEF LeadsNext, leadVars, SearchPart, RecordsPart, CardPart
<1>4. Relayed!LeadsInv /\ [LeadsNext]_leadVars => Relayed!LeadsInv'
  BY <1>3, SearchInvariant
<1>5. Relayed!LeadsInv => SearchHolds
  BY SearchInvariant
<1> QED
  BY <1>1, <1>2, <1>4, <1>5, PTL
=============================================================================
