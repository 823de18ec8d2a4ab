------------------------------ MODULE LeadCard ------------------------------
(***************************************************************************)
(* What a user of search is shown of a person.  The leads service stores   *)
(* the answers of Apollo, one per endpoint, and derives the top-level      *)
(* fields from them.  It serves both, and search makes a card of them: the *)
(* best answer, overridden by the fields leads derived.  Documents are     *)
(* older than either: some hold one answer under a field of its own, some  *)
(* were written before fields were derived.                                *)
(*                                                                         *)
(* A step is one write of one document; LeadRecords has the steps within.  *)
(* An answer tells a name, an e-mail or that it is locked, and a phone.    *)
(***************************************************************************)
EXTENDS Naturals

CONSTANT MaxWrites      \* bound: writes after the document is found

ASSUME WritesAssumption == MaxWrites \in Nat

Priority == [match |-> 1, byid |-> 2, search |-> 3]
Sources == {"match", "byid", "search"}

Nothing == [held |-> FALSE, name |-> FALSE, email |-> "none", phone |-> FALSE]
Payloads == [held : {TRUE}, name : BOOLEAN, email : {"none", "locked", "real"}, phone : BOOLEAN]
NoPayloads == [e \in Sources |-> Nothing]

VARIABLES
    lead,       \* the document: its answers, the old form, the derived fields
    behind,     \* history: the last write was beaten, and derived nothing
    writes      \* bound

cardVars == <<lead, behind, writes>>

\* A person search tells no more than that there is an e-mail.
Teasers == {p \in Payloads : p.email # "real" /\ ~p.phone}
MayTell(e) == IF e = "search" THEN Teasers ELSE Payloads

CardInit ==
    /\ behind = FALSE /\ writes = 0
    /\ \E old \in Payloads \cup {Nothing}, enriched \in BOOLEAN,
          all \in [Sources -> {Nothing} \cup {p \in Payloads : p.name}] :
        /\ old.held => all = NoPayloads /\ (enriched \/ old \in Teasers)
        /\ all["search"] \in Teasers \cup {Nothing}
        /\ lead = [responses |-> all, old |-> old, enriched |-> enriched, derived |-> FALSE,
                   name |-> FALSE, email |-> "none", phone |-> FALSE]

-----------------------------------------------------------------------------
(***************************************************************************)
(* leads.                                                                  *)
(***************************************************************************)
\* responses_from_doc: the old form stands for the answer it came from.
Responses(doc) ==
    IF doc.old.held /\ doc.responses = NoPayloads
    THEN [NoPayloads EXCEPT ![IF doc.enriched THEN "byid" ELSE "search"] = doc.old]
    ELSE doc.responses

\* The first in the order of precedence of the answers with a property.
First(all, having) ==
    IF having = {} THEN Nothing
    ELSE all[CHOOSE e \in having : \A f \in having : Priority[e] <= Priority[f]]

\* derive_top_fields: per field, and a locked e-mail is none.
TopName(all) == First(all, {e \in Sources : all[e].name}).name
TopEmail(all) == First(all, {e \in Sources : all[e].email = "real"}).email
TopPhone(all) == First(all, {e \in Sources : all[e].phone}).phone

\* Mutant: the fields are derived from the best answer alone.
OfBest(all) == First(all, {e \in Sources : all[e].held})
FieldsOfBest(doc, all) ==
    [doc EXCEPT !.derived = TRUE, !.name = @ \/ OfBest(all).name,
                !.email = IF OfBest(all).email = "real" THEN "real" ELSE @,
                !.phone = @ \/ OfBest(all).phone]

\* Mutant: a field nobody tells is cleared.
FieldsReset(doc, all) ==
    [doc EXCEPT !.derived = TRUE, !.name = TopName(all), !.email = TopEmail(all),
                !.phone = TopPhone(all)]

\* A field nobody tells is left as it is.
WithFields(doc, all) ==
    [doc EXCEPT !.derived = TRUE, !.name = @ \/ TopName(all),
                !.email = IF TopEmail(all) = "real" THEN "real" ELSE @,
                !.phone = @ \/ TopPhone(all)]

\* The answer is set by its own path, and the old form goes.
Stored(doc, e, p) == [doc EXCEPT !.responses[e] = p, !.old = Nothing]

UpsertAnswer(e, p) ==
    /\ writes < MaxWrites /\ writes' = writes + 1
    /\ lead' = Stored(WithFields(lead, [Responses(lead) EXCEPT ![e] = p]), e, p)
    /\ behind' = FALSE

\* Beaten four times: the answer only, to a document that is there.
UpsertBeaten(e, p) ==
    /\ Responses(lead) # NoPayloads /\ writes < MaxWrites /\ writes' = writes + 1
    /\ lead' = Stored(lead, e, p) /\ behind' = TRUE

\* _merge_async_person_into_match_data: what the webhook tells goes over the
\* match that is stored.
Merged(data, told) ==
    [data EXCEPT !.held = TRUE, !.phone = @ \/ told.phone,
                 !.email = IF told.email = "none" THEN @ ELSE told.email]

Webhook(told) ==
    LET p == Merged(Responses(lead)["match"], told) IN
    UpsertAnswer("match", p) \/ UpsertBeaten("match", p)

-----------------------------------------------------------------------------
(***************************************************************************)
(* search.                                                                 *)
(***************************************************************************)
Held(all) == {e \in Sources : all[e].held}

\* The answer the card is made of.
Display(all) == First(all, Held(all))

\* _select_display_responses: that answer, the match and the search are served.
Served(doc) ==
    LET all == Responses(doc) IN
    [e \in Sources |-> IF e = "byid" /\ Display(all) # all[e] THEN Nothing ELSE all[e]]

\* normalize_person, where a locked e-mail is stripped.
Shown(p) == [name |-> p.name, email |-> IF p.email = "locked" THEN "none" ELSE p.email,
             phone |-> p.phone]

\* lead_to_record.  The chips of a document without derived fields are what the
\* person search signalled, which is left out.
Card(doc) ==
    LET shown == Shown(Display(Served(doc))) IN
    [name     |-> shown.name \/ doc.name,
     email    |-> IF doc.email # "none" THEN doc.email ELSE shown.email,
     phone    |-> shown.phone \/ doc.phone,
     hasEmail |-> doc.derived /\ doc.email # "none",
     hasPhone |-> doc.derived /\ doc.phone]

-----------------------------------------------------------------------------
CardNext ==
    \/ \E e \in Sources : \E p \in MayTell(e) : UpsertAnswer(e, p) \/ UpsertBeaten(e, p)
    \/ \E told \in Payloads : ~told.name /\ told.email # "locked" /\ Webhook(told)

CardSpec == CardInit /\ [][CardNext]_cardVars

-----------------------------------------------------------------------------
(***************************************************************************)
(* The two services agree on what is known of a person, although each goes *)
(* over the answers in its own way: no card shows a locked e-mail, and the *)
(* chips on a card with derived fields say what the card shows.  A write   *)
(* that was beaten leaves the chips behind until the next one.             *)
(***************************************************************************)
CardIsTrue ==
    LET card == Card(lead) IN
    /\ card.email # "locked"
    /\ lead.derived /\ ~behind =>
        /\ card.hasEmail = (card.email = "real") /\ card.hasPhone = card.phone
        /\ \A e \in Held(lead.responses) : lead.responses[e].name => card.name

(***************************************************************************)
(* What a card once showed, every later one shows: no answer that tells    *)
(* less, in whatever form the document is found, takes a name, an e-mail   *)
(* or a phone away.  Excepted are a write that was beaten, and the first   *)
(* one to a document without derived fields if it replaces an answer.      *)
(***************************************************************************)
Replaces(e) == lead'.responses[e] \notin {Responses(lead)[e], Nothing}

NothingShownIsLost ==
    [][LET before == Card(lead) IN LET after == Card(lead)' IN
       ~behind /\ ~behind' /\ (lead.derived \/ \A e \in Held(Responses(lead)) : ~Replaces(e)) =>
        /\ (before.name => after.name) /\ (before.phone => after.phone)
        /\ (before.email = "real" => after.email = "real")]_cardVars

(***************************************************************************)
(* derived.py: "apollo_responses remains the source of truth".  An answer  *)
(* that was paid for stays stored until its endpoint answers again.        *)
(***************************************************************************)
NoAnswerIsDropped ==
    [][Held(Responses(lead)) \subseteq Held(Responses(lead))']_cardVars
=============================================================================
