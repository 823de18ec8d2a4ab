---------------------------- MODULE FiringLedger ----------------------------
(***************************************************************************)
(* What the agents scheduler promises of its firings: a ledger with one    *)
(* line per occurrence of a schedule, in which a line is ticked off once   *)
(* and never again.  An occurrence may be missed (a crash, a cancel); it   *)
(* is never run twice.                                                     *)
(***************************************************************************)
EXTENDS Naturals

CONSTANT Occurrences

VARIABLE fired  \* how often each occurrence has fired

Init == fired = [o \in Occurrences |-> 0]

Fire(o) == fired[o] = 0 /\ fired' = [fired EXCEPT ![o] = 1]

Next == \E o \in Occurrences : Fire(o)

Spec == Init /\ [][Next]_fired
=============================================================================
