----------------------------- MODULE MCKnowledge -----------------------------
(***************************************************************************)
(* An instance of the sync of the knowledge service.  What can go wrong    *)
(* with it, flips, late mail, requests and faults, is bounded together.    *)
(***************************************************************************)
EXTENDS KnowledgeSync

CONSTANT MaxUpsets      \* bound

Upsets == Cardinality({m \in Ids : archive[m] = 2}) + Cardinality(late) + requests + faults

KnowledgeNext == Next /\ Upsets' <= MaxUpsets

KnowledgeSpec == Init /\ [][KnowledgeNext]_vars /\ Fairness
=============================================================================
