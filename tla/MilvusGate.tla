----------------------------- MODULE MilvusGate -----------------------------
(***************************************************************************)
(* The gate of the leads service in front of Milvus.  Every operation of   *)
(* the SDK runs in a thread behind it, one holder at a time; who waits is  *)
(* woken lowest nice first, oldest first within a nice, and one that was   *)
(* passed over often enough before anybody else.                           *)
(*                                                                         *)
(* A task may be cancelled wherever it waits.  A cancel only marks it: the *)
(* task runs its cleanup in a step of its own, behind others.              *)
(***************************************************************************)
EXTENDS Integers, Sequences, FiniteSets, FiniteSetsExt, SequencesExt

CONSTANTS
    Tasks,      \* who goes through the gate
    Nice,       \* priority of each task, the lower the sooner
    MaxSkips    \* _GATE_MAX_SKIPS

ASSUME GateAssumption ==
    Nice \in [Tasks -> Nat] /\ MaxSkips \in Nat \ {0} /\ IsFiniteSet(Tasks)

VARIABLES
    held,       \* MilvusGate._held
    waiters,    \* MilvusGate._waiters, oldest first
    skips,      \* per waiter: hand-offs that passed it over
    phase,      \* per task: where it is at the gate
    thread      \* tasks whose operation runs in a thread

gateVars == <<held, waiters, skips, phase, thread>>

Phases == {"away",      \* not at the gate
           "queued",    \* its future is pending
           "revoked",   \* cancelled while queued
           "given",     \* its future is resolved: the slot is its own
           "forfeit",   \* cancelled behind that
           "inside",    \* it holds the gate and awaits its thread
           "leaving"}   \* cancelled there

NoSkips == [t \in Tasks |-> 0]

GateInit ==
    /\ held = FALSE
    /\ waiters = << >>
    /\ skips = NoSkips
    /\ phase = [t \in Tasks |-> "away"]
    /\ thread = {}

-----------------------------------------------------------------------------
(***************************************************************************)
(* _wake_next, for waiters ws in phases ph.                                *)
(***************************************************************************)
\* The waiters of S, in their order.
Kept(ws, S) ==
    LET kept[n \in 0..Len(ws)] ==
            IF n = 0 THEN << >>
            ELSE IF ws[n] \in S THEN Append(kept[n - 1], ws[n]) ELSE kept[n - 1]
    IN  kept[Len(ws)]

Live(ws, ph) == {t \in ToSet(ws) : ph[t] = "queued"}
Oldest(ws, S) == ws[Min({i \in DOMAIN ws : ws[i] \in S})]

Chosen(ws, live) ==
    LET starved == {t \in live : skips[t] >= MaxSkips} IN
    IF starved # {} THEN Oldest(ws, starved)
    ELSE Oldest(ws, {t \in live : \A u \in live : Nice[t] <= Nice[u]})

WakeNext(ws, ph) ==
    LET live == Live(ws, ph)
        next == Chosen(ws, live) IN
    IF live = {}
    THEN held' = FALSE /\ waiters' = << >> /\ phase' = ph /\ skips' = NoSkips
    ELSE /\ waiters' = Kept(ws, live \ {next})
         /\ skips' = [t \in Tasks |-> IF t \in live \ {next} THEN skips[t] + 1 ELSE 0]
         /\ phase' = [ph EXCEPT ![next] = "given"]
         /\ UNCHANGED held

-----------------------------------------------------------------------------
(***************************************************************************)
(* acquire and release, around an operation in a thread.                   *)
(***************************************************************************)
Acquire(t) ==
    /\ phase[t] = "away" /\ t \notin thread
    /\ IF ~held /\ waiters = << >>
       THEN /\ held' = TRUE /\ thread' = thread \cup {t}
            /\ phase' = [phase EXCEPT ![t] = "inside"]
            /\ UNCHANGED <<waiters, skips>>
       ELSE /\ waiters' = Append(waiters, t)
            /\ phase' = [phase EXCEPT ![t] = "queued"]
            /\ UNCHANGED <<held, skips, thread>>

Enter(t) ==
    /\ phase[t] = "given"
    /\ held' = TRUE /\ thread' = thread \cup {t}
    /\ phase' = [phase EXCEPT ![t] = "inside"]
    /\ UNCHANGED <<waiters, skips>>

\* The thread is through, and its task with it.
Release(t) ==
    /\ phase[t] = "inside"
    /\ thread' = thread \ {t}
    /\ WakeNext(waiters, [phase EXCEPT ![t] = "away"])

\* Mutant: the cleanup only takes the task out, and the slot stays taken.
CleanUpQueued(t) ==
    /\ phase[t] \in {"revoked", "forfeit", "leaving"}
    /\ waiters' = Kept(waiters, Tasks \ {t})
    /\ skips' = [skips EXCEPT ![t] = 0]
    /\ phase' = [phase EXCEPT ![t] = "away"]
    /\ UNCHANGED <<held, thread>>

(***************************************************************************)
(* The cleanup of a cancelled task: one in the queue takes itself out, one *)
(* that was handed the slot passes it on, and one inside releases the gate *)
(* although its thread runs on.                                            *)
(***************************************************************************)
CleanUp(t) ==
    \/ /\ phase[t] = "revoked"
       /\ waiters' = Kept(waiters, Tasks \ {t})
       /\ skips' = [skips EXCEPT ![t] = 0]
       /\ phase' = [phase EXCEPT ![t] = "away"]
       /\ UNCHANGED <<held, thread>>
    \/ /\ phase[t] \in {"forfeit", "leaving"}
       /\ WakeNext(waiters, [phase EXCEPT ![t] = "away"])
       /\ UNCHANGED thread

\* A thread whose task did not wait for it is through.
ThreadEnds(t) ==
    /\ t \in thread /\ phase[t] = "away"
    /\ thread' = thread \ {t}
    /\ UNCHANGED <<held, waiters, skips, phase>>

\* Task.cancel, for the tasks of S that are at the gate.
Cancelled(S) ==
    [t \in Tasks |->
        IF t \notin S THEN phase[t]
        ELSE CASE phase[t] = "queued" -> "revoked"
               [] phase[t] = "given" -> "forfeit"
               [] phase[t] = "inside" -> "leaving"
               [] OTHER -> phase[t]]

Holders == {t \in Tasks : phase[t] \in {"given", "forfeit", "inside", "leaving"}}

-----------------------------------------------------------------------------
GateOK ==
    /\ held \in BOOLEAN
    /\ waiters \in Seq(Tasks) /\ IsInjective(waiters)
    /\ skips \in [Tasks -> Nat]
    /\ phase \in [Tasks -> Phases]
    /\ thread \subseteq Tasks

(***************************************************************************)
(* The gate never wedges and never lets two in: it is held exactly when    *)
(* one task has the slot, and whoever is pending is in the queue of a held *)
(* gate, however cancels and hand-offs cross.                              *)
(***************************************************************************)
GateIsSound ==
    /\ Cardinality(Holders) = IF held THEN 1 ELSE 0
    /\ \A t \in Tasks : phase[t] = "queued" => held /\ t \in ToSet(waiters)

(***************************************************************************)
(* Overtaking is bounded, whatever is asked of Milvus meanwhile: a waiter  *)
(* that was passed over as often as is allowed is only passed over by      *)
(* those ahead of it in the queue, each of which was, too.                 *)
(***************************************************************************)
Ahead(i) == Cardinality({j \in 1..(i - 1) : phase[waiters[j]] = "queued"})

OvertakingIsBounded ==
    \A i \in DOMAIN waiters : skips[waiters[i]] > MaxSkips =>
        skips[waiters[i]] + Ahead(i) <= MaxSkips + Cardinality(Tasks) - 2

(***************************************************************************)
(* The gate under cancels and under load.                                  *)
(***************************************************************************)
GateIsFair == GateIsSound /\ OvertakingIsBounded

(***************************************************************************)
(* MilvusGate: "never two Milvus ops at once".                             *)
(***************************************************************************)
OneOperationAtATime == Cardinality(thread) <= 1
=============================================================================
