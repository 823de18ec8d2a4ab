---------------------------- MODULE LeadRecords ----------------------------
(***************************************************************************)
(* The documents of the leads service and their vectors.  Searches,        *)
(* lookups by id, matches and webhooks of Apollo all write the one         *)
(* document of a lead, without a lock: each writes the answer of its own   *)
(* endpoint, and recomputes the fields derived from all answers under a    *)
(* guard that nobody wrote since it read.  Each then has the lead embedded *)
(* and flags the document, while others write.                             *)
(*                                                                         *)
(* A step is what runs between two awaits on Mongo, Milvus or Apollo.  An  *)
(* answer is named by the operation it came to; it tells a name, and a     *)
(* webhook a phone.  updated_at and derived_at are a count of the writes:  *)
(* two in one millisecond are told apart.                                  *)
(***************************************************************************)
EXTENDS Integers, Sequences, FiniteSets, FiniteSetsExt

CONSTANTS
    Leads,
    Ops,
    KindOf,         \* what each operation is
    LeadOf,         \* the lead it is about
    Attempts,       \* of the guarded write, 4 in the code
    MaxFaults       \* bound: failures of Apollo, OpenAI or Milvus

Kinds == {"search", "lookup", "match", "webhook", "backfill", "reembed"}
Tier == [search |-> 1, lookup |-> 2, match |-> 3]
Endpoints == DOMAIN Tier

ASSUME RecordsAssumption ==
    /\ KindOf \in [Ops -> Kinds] /\ LeadOf \in [Ops -> Leads]
    /\ Attempts \in Nat \ {0} /\ MaxFaults \in Nat /\ "none" \notin Ops

None == "none"

VARIABLES
    doc,        \* per lead: its document in Mongo
    vector,     \* per lead: its row in Milvus
    op,         \* per operation: where it is, the document it has read, and
                \* the row it embeds
    faults      \* bound: failures so far

recordVars == <<doc, vector, op, faults>>

Untold == [name |-> None, phone |-> None]
NoDoc == [stored |-> FALSE, entries |-> [e \in Endpoints |-> Untold], name |-> None,
          phone |-> None, enriched |-> {}, embedded |-> FALSE, source |-> 0,
          version |-> 0, behind |-> FALSE]
NoVector == [tier |-> 0, phone |-> FALSE]

Init ==
    /\ doc = [l \in Leads |-> NoDoc]
    /\ vector = [l \in Leads |-> NoVector]
    /\ op = [o \in Ops |-> [pc |-> "new", tries |-> 0, seen |-> NoDoc, row |-> NoVector,
                           beaten |-> FALSE]]
    /\ faults = 0

Endpoint(o) == IF KindOf[o] = "webhook" THEN "match" ELSE KindOf[o]

\* The requested precedence of an embedding: none for a backfill.
Precedence(o) == IF KindOf[o] \in {"backfill", "reembed"} THEN 0 ELSE Tier[Endpoint(o)]

At(o, pcs) == op[o].pc \in pcs
Goto(o, pc) == op' = [op EXCEPT ![o].pc = pc]
Fault == faults < MaxFaults /\ faults' = faults + 1

-----------------------------------------------------------------------------
(***************************************************************************)
(* What a write makes of a document.                                       *)
(***************************************************************************)
\* The answers that carry data, and the best of them.
Answers(entries) == {e \in Endpoints : entries[e] # Untold}
BestTier(entries) == Max({0} \cup {Tier[e] : e \in Answers(entries)})

\* derive_top_fields: the answer of highest precedence that tells the field.
Derived(entries, field) ==
    LET told == {e \in Endpoints : entries[e][field] # None} IN
    IF told = {} THEN None
    ELSE entries[CHOOSE e \in told : \A f \in told : Tier[f] <= Tier[e]][field]

\* A field no answer tells is left as it is.
Kept(entries, field, old) ==
    IF Derived(entries, field) = None THEN old ELSE Derived(entries, field)

\* An answer replaces the one stored for its endpoint; a webhook is merged into
\* the match that is stored.
Entry(o, entries) ==
    IF KindOf[o] = "webhook" THEN [entries["match"] EXCEPT !.phone = o]
    ELSE [name |-> o, phone |-> None]

Enriched(o) ==
    CASE KindOf[o] = "lookup" -> {"linkedin"}
      [] KindOf[o] = "match" -> {"email", "phone"}
      [] KindOf[o] = "webhook" -> {"phone"}
      [] OTHER -> {}

\* _embedding_flag_after_update: a vector that outranks the answer stays good.
Flag(o, old) ==
    KindOf[o] # "webhook" /\ old.embedded /\ old.source > Tier[Endpoint(o)]

\* The document after a guarded write over old.
Written(o, old) ==
    LET entries == [old.entries EXCEPT ![Endpoint(o)] = Entry(o, old.entries)] IN
    [old EXCEPT !.stored = TRUE, !.entries = entries,
                !.name = Kept(entries, "name", @), !.phone = Kept(entries, "phone", @),
                !.enriched = @ \cup Enriched(o), !.embedded = Flag(o, old),
                !.version = @ + 1, !.behind = FALSE]

\* The document now after the last, unguarded write of an operation that read
\* old: the answer and the flag only.
Added(o, old, now) ==
    [now EXCEPT !.entries[Endpoint(o)] = Entry(o, old.entries),
                !.embedded = Flag(o, old), !.version = @ + 1, !.behind = TRUE]

-----------------------------------------------------------------------------
(***************************************************************************)
(* A write: up to Attempts reads and guarded writes, then a last write     *)
(* that takes no guard.                                                    *)
(***************************************************************************)
\* The request is on its way to Apollo; a webhook comes for a match that is.
Ask(o) ==
    /\ At(o, {"new"}) /\ KindOf[o] \in {"search", "lookup", "match", "webhook"}
    /\ KindOf[o] = "webhook" => \E m \in Ops :
            KindOf[m] = "match" /\ LeadOf[m] = LeadOf[o] /\ ~At(m, {"new"})
    /\ Goto(o, "asked") /\ UNCHANGED <<doc, vector, faults>>

ApolloFails(o) ==
    /\ At(o, {"asked"}) /\ op[o].tries = 0 /\ KindOf[o] # "webhook"
    /\ Fault /\ Goto(o, "failed") /\ UNCHANGED <<doc, vector>>

Find(o) ==
    /\ At(o, {"asked"})
    /\ op' = [op EXCEPT ![o] = [@ EXCEPT !.pc = "found", !.tries = op[o].tries + 1,
                                         !.seen = doc[LeadOf[o]]]]
    /\ UNCHANGED <<doc, vector, faults>>

\* Mutant: the update matches on the id alone.
NoGuard(o) == op[o].seen.stored = doc[LeadOf[o]].stored

\* The update matches nothing if anybody wrote since, the insert fails if
\* anybody inserted.
Unchanged(o) == op[o].seen.version = doc[LeadOf[o]].version

Write(o) ==
    /\ At(o, {"found"})
    /\ IF Unchanged(o)
       THEN /\ doc' = [doc EXCEPT ![LeadOf[o]] = Written(o, op[o].seen)]
            /\ op' = [op EXCEPT ![o] = [@ EXCEPT !.pc = "stored", !.tries = 0, !.seen = NoDoc]]
       ELSE /\ op' = [op EXCEPT ![o] = [@ EXCEPT !.seen = NoDoc,
                                            !.pc = IF op[o].tries < Attempts THEN "asked" ELSE "beaten"]]
            /\ UNCHANGED doc
    /\ UNCHANGED <<vector, faults>>

FindLast(o) ==
    /\ At(o, {"beaten"})
    /\ op' = [op EXCEPT ![o] = [@ EXCEPT !.pc = "last", !.seen = doc[LeadOf[o]]]]
    /\ UNCHANGED <<doc, vector, faults>>

WriteLast(o) ==
    /\ At(o, {"last"})
    /\ doc' = [doc EXCEPT ![LeadOf[o]] = Added(o, op[o].seen, @)]
    /\ op' = [op EXCEPT ![o] = [@ EXCEPT !.pc = "stored", !.tries = 0, !.seen = NoDoc, !.beaten = TRUE]]
    /\ UNCHANGED <<vector, faults>>

-----------------------------------------------------------------------------
(***************************************************************************)
(* The embedding: read the document, skip it if its vector came from a     *)
(* better answer, else embed, upsert and flag.                             *)
(***************************************************************************)
\* A backfill selects the documents without a vector, or all of them.
Select(o) ==
    /\ At(o, {"new"}) /\ doc[LeadOf[o]].stored
    /\ KindOf[o] = "reembed" \/ (KindOf[o] = "backfill" /\ ~doc[LeadOf[o]].embedded)
    /\ Goto(o, "stored") /\ UNCHANGED <<doc, vector, faults>>

Outranked(o, d) == KindOf[o] # "reembed" /\ d.source # 0 /\ Precedence(o) < d.source

\* The row that a document makes.
Row(d) == [tier |-> BestTier(d.entries), phone |-> d.phone # None]

Leave(o, pc) == op' = [op EXCEPT ![o] = [@ EXCEPT !.pc = pc, !.row = NoVector]]

ReadToEmbed(o) ==
    LET d == doc[LeadOf[o]] IN
    /\ op' = [op EXCEPT ![o] = [@ EXCEPT !.pc = IF Outranked(o, d) THEN "outranked" ELSE "ready",
                                         !.row = Row(d)]]
    /\ UNCHANGED <<doc, vector, faults>>

\* _reindex_scalar_drift: an outranked lead is embedded after all if the row in
\* Milvus tells otherwise whether it has a phone.
Drifted(o) == vector[LeadOf[o]] # NoVector /\ vector[LeadOf[o]].phone # op[o].row.phone

CheckDrift(o) ==
    /\ At(o, {"outranked"})
    /\ \/ Drifted(o) /\ Goto(o, "ready") /\ UNCHANGED faults
       \/ ~Drifted(o) /\ Leave(o, "over") /\ UNCHANGED faults
       \/ Fault /\ Leave(o, "over")
    /\ UNCHANGED <<doc, vector>>

Upsert(o) ==
    /\ At(o, {"ready"})
    /\ vector' = [vector EXCEPT ![LeadOf[o]] = op[o].row]
    /\ Goto(o, "indexed") /\ UNCHANGED <<doc, faults>>

EmbedFails(o) ==
    /\ At(o, {"ready"}) /\ Fault /\ Leave(o, "unembedded")
    /\ UNCHANGED <<doc, vector>>

\* _mark_embedded takes no guard either.
Marked(d, source) == [d EXCEPT !.embedded = TRUE, !.source = source, !.version = @ + 1]

Mark(o) ==
    /\ At(o, {"indexed"})
    /\ doc' = [doc EXCEPT ![LeadOf[o]] = Marked(@, Max({Precedence(o), op[o].row.tier}))]
    /\ Leave(o, "over") /\ UNCHANGED <<vector, faults>>

\* From the answer to the write, and from the read of the embedding to its end.
WriteStep(o) == Find(o) \/ Write(o) \/ FindLast(o) \/ WriteLast(o)
EmbedStep(o) == CheckDrift(o) \/ Upsert(o) \/ EmbedFails(o) \/ Mark(o)

=============================================================================
