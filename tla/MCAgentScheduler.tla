-------------------------- MODULE MCAgentScheduler --------------------------
(***************************************************************************)
(* Small instances of AgentScheduler: the minutes each cron matches, and   *)
(* which requests may meet.                                                *)
(***************************************************************************)
EXTENDS AgentScheduler, TLC

\* Two occurrences and then exhausted.
TwoMinutes == [s \in Crons |-> {2, 3}]

InUse(C) == {c \in C : req[c] # IdleReq}

\* Sessions over their quota, and creations side by side, meet posts, firings, pauses
\* and turns that end; a cancel and a delete meet a session within its quota, one
\* creation at a time and two of the schedules.
CreationsApart ==
    \/ /\ Cardinality(InUse(Creators)) <= 1 /\ Cardinality(Once \ Having("none")) <= 1
       /\ Cardinality(Active) <= MaxPending
    \/ InUse(Cancels \cup Deleters) = {} /\ Having("canceled") \cup Having("deleted") = {}

\* Creations, and one-shots, differ in their names only.
Alike == Permutations(Creators) \cup Permutations(Once)

=============================================================================
