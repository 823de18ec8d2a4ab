------------------------------- MODULE MCMail -------------------------------
(***************************************************************************)
(* Instances of the two halves of the mail service: its campaigns and the  *)
(* sync of a mailbox.  What a send leaves in the archive is a step of the  *)
(* sync here, so the two share no state and a behaviour runs one of them.  *)
(***************************************************************************)
EXTENDS MailCampaigns, MailSync

CONSTANT MaxUpsets      \* bound

VARIABLE part       \* which of them this behaviour runs

\* A campaign is created with ann's list and can be continued with the others.
FirstLists == [c \in Campaigns |-> {"ann"}]

mailVars == <<vars, syncVars, part>>

MailInit ==
    /\ part \in {"campaigns", "sync"}
    /\ Init /\ SyncInit
    /\ part = "sync" => \A c \in Caps : c <= cap

CampaignsPart == part = "campaigns" /\ Next /\ UNCHANGED <<syncVars, part>>

\* Bound: faults, sends and removals in the life of a mailbox, taken together.
Upsets == faults + sends + Cardinality({i \in DOMAIN log : log[i].kind = "removed"})
SyncPart ==
    part = "sync" /\ SyncNext /\ Upsets' <= MaxUpsets /\ UNCHANGED <<vars, part>>

MailNext == CampaignsPart \/ SyncPart

MailSpec ==
    /\ MailInit /\ [][MailNext]_mailVars
    /\ WF_vars(part = "campaigns" /\ TickAll)
    /\ WF_vars(part = "campaigns" /\ NextCampaign)
    /\ WF_vars(part = "campaigns" /\ Midnight)
    /\ \A c \in Campaigns : WF_vars(part = "campaigns" /\ TickStep(c))
    /\ \A d \in Domains : WF_vars(part = "campaigns" /\ Synced(d))
    /\ WF_syncVars(part = "sync" /\ SyncStep)

(***************************************************************************)
(* The work of the mail service ends, each where its part runs: a running  *)
(* campaign (RunningCampaignEnds), and the walks through a mailbox         *)
(* (MailReachesTheArchive).                                                *)
(***************************************************************************)
MailWorkEnds ==
    /\ part = "campaigns" => RunningCampaignEnds
    /\ part = "sync" => MailReachesTheArchive
=============================================================================
