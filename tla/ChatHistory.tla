---------------------------- MODULE ChatHistory ----------------------------
(***************************************************************************)
(* What agent_message promises of a session: the transcript only grows,    *)
(* and what one turn adds to it is added at once, and only once.           *)
(***************************************************************************)
EXTENDS Naturals, Sequences

CONSTANT Turns

VARIABLE log        \* the rows in the order of their numbers, each with its turn

By(t) == {i \in 1..Len(log) : log[i].turn = t}

\* A process finds the transcript its predecessors left.
Init == \A t \in Turns : By(t) = {}

Write(t) ==
    /\ By(t) = {}
    /\ Len(log') > Len(log)
    /\ SubSeq(log', 1, Len(log)) = log
    /\ \A i \in (Len(log) + 1)..Len(log') : log'[i].turn = t

Next == \E t \in Turns : Write(t)

Spec == Init /\ [][Next]_log
=============================================================================
