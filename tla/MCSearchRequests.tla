-------------------------- MODULE MCSearchRequests --------------------------
(***************************************************************************)
(* Instances of the requests to search that are not a streamed search of   *)
(* leads: grouped searches over the gate of Milvus, the gate under lone    *)
(* tasks that never stop, the history of a search, and an enrichment of    *)
(* several people.  They share no state, so a behaviour runs one of them.  *)
(***************************************************************************)
EXTENDS GroupedSearch, SearchHistory, EnrichBatch

VARIABLE part       \* which of them this behaviour runs

MCRequests == {"s1", "s2", "p"}
MCPlain == {"p"}
MCFilterOnly == {"s2"}
MCCompanies == [r \in MCRequests |-> IF r = "s2" THEN {"c1"} ELSE {"c1", "c2"}]
MCTasks == {<<"s1", "c1">>, <<"s1", "c2">>, <<"s2", "c1">>, <<"p", "c1">>, <<"p", "c2">>,
            <<"query", 1>>, <<"query", 2>>, <<"write", 1>>}
MCNice == [t \in MCTasks |-> CASE t[1] = "query" -> 0
                               [] t[1] = "write" -> 10
                               [] OTHER -> 5]
MCFound == <<"l1", "l2", "l3">>

\* Bound: of the first stream and the plain request only one comes in.
OneOfTwo == ~(relay["s1"] # "idle" /\ relay["p"] # "idle")

\* Bound: streams are held only while nobody has opened the search.
HeldUnopened == paused # {} => \A r \in Readers : reader[r].pc = "idle"

requestVars == <<groupedVars, historyVars, batchVars, part>>

RequestsInit ==
    /\ part \in {"gate", "grouped", "history", "batch"}
    /\ GroupedInit /\ HistoryInit /\ BatchInit
    /\ part # "history" => kind = "stream"

\* Beside grouped searches one lone query goes through the gate.
Beside(t) == part = "gate" \/ (part = "grouped" /\ t = <<"query", 1>>)

GroupedPart ==
    /\ part \in {"gate", "grouped"}
    /\ GroupedNext
    /\ part = "gate" => relay' = relay
    /\ OneOfTwo'
    /\ \A t \in Others : phase'[t] # phase[t] => Beside(t)
    /\ UNCHANGED <<historyVars, batchVars, part>>
HistoryPart ==
    /\ part = "history"
    /\ HistoryNext
    /\ HeldUnopened'
    /\ UNCHANGED <<groupedVars, batchVars, part>>
BatchPart ==
    /\ part = "batch"
    /\ BatchNext
    /\ UNCHANGED <<groupedVars, historyVars, part>>

RequestsNext == GroupedPart \/ HistoryPart \/ BatchPart

RequestsSpec ==
    /\ RequestsInit /\ [][RequestsNext]_requestVars
    /\ WF_groupedVars(part = "grouped" /\ RequestSteps)
    /\ \A t \in Others : WF_groupedVars(Beside(t) /\ OtherStep(t))
    /\ SF_historyVars(part = "history" /\ ~HeldUp /\ JobStep)
    /\ WF_batchVars(part = "batch" /\ PromptStep)

(***************************************************************************)
(* The row of a search and the counts of a batch are what happened         *)
(* (HistoryIsTrue, BatchIsTrue).                                           *)
(***************************************************************************)
RequestsTellTheTruth == HistoryIsTrue /\ BatchIsTrue

(***************************************************************************)
(* Whoever waits is answered, each where its part runs: a grouped search,  *)
(* and a lone task at the gate (EverybodyIsServed), the one who started a  *)
(* search (WhoWaitsIsAnswered), and a batch (BatchEnds); the last two      *)
(* unless a stream of leads they follow is held for good.                  *)
(***************************************************************************)
RequestsAreAnswered ==
    /\ part \in {"gate", "grouped"} => EverybodyIsServed
    /\ part = "history" => WhoWaitsIsAnswered
    /\ part = "batch" => BatchEnds
=============================================================================
