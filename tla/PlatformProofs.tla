----------------------------- MODULE PlatformProofs -----------------------------
(***************************************************************************)
(* Proofs about what stands under the services.  The knowledge service's   *)
(* sync state is what it stands for; then, of each part of MCPlatform, an  *)
(* inductive invariant of its own, and what the invariants of the parts    *)
(* say of a behaviour that runs any one of them.                           *)
(***************************************************************************)
EXTENDS KnowledgeSync, MCPlatform, FiniteSetTheorems, WellFoundedInduction, TLAPS

-----------------------------------------------------------------------------
(***************************************************************************)
(* The knowledge service's sync state is what it stands for, for every     *)
(* mailbox, page size, cap, batch and threshold.                           *)
(*                                                                         *)
(* A page lies where it does because of how many messages are newer, and   *)
(* behind an empty page there is none (PagesAreContiguous, by the message  *)
(* with the fewest newer ones).  Arrivals only push messages down, so what *)
(* lies between the newest message that a walk has met and its page has    *)
(* been read (WalkOK, ResumeOK).  Money is counted as a set: the episodes  *)
(* that repeat a version, and the ones that will because the record was    *)
(* told and not stamped (Due).  Distilling such a record only moves an     *)
(* element from the second to the first; nothing but a crash adds one.     *)
(***************************************************************************)
-----------------------------------------------------------------------------
(***************************************************************************)
(* One run works at a time; what it has in hand is not in the graph yet,   *)
(* except for the record that it is about to stamp.                        *)
(***************************************************************************)
Waiting == {"idle", "gate", "again"}

LockOK ==
    /\ \A r, q \in Runners : r # q => run[r].pc \in Waiting \/ run[q].pc \in Waiting
    /\ \A r \in Runners : run[r].pc \in {"distil", "stamp"} => run[r].todo \subseteq Pending
    /\ \A r \in Runners : run[r].pc = "stamp" =>
          run[r].todo # {} /\ told[First(r)][records[First(r)].v] > 0

(***************************************************************************)
(* Versions move forward from the archive through what a walk has staged   *)
(* into the table and on into the graph.                                   *)
(***************************************************************************)
VersionsOK ==
    /\ \A m \in Ids : records[m].v <= archive[m] /\ (records[m].stamped => records[m].v # 0)
    /\ \A m \in Ids, v \in 1..2 : v > records[m].v => told[m][v] = 0
    /\ \A r \in Runners, m \in Ids :
          run[r].pc = "walk" /\ run[r].staged[m] # 0 =>
              records[m].v <= run[r].staged[m] /\ run[r].staged[m] <= archive[m]

(***************************************************************************)
(* A walk has read what lies between the newest message it met and its     *)
(* page, and so has the backfill that it resumes.                          *)
(***************************************************************************)
Before(m, page) == Newer(m) < (page - 1) * PageSize

ResumeOK ==
    /\ state.candidate \in Archived \cup {0} /\ state.marker \in Archived \cup {0}
    /\ state.marker # 0 => state.page = 1
    /\ \A m \in Archived \ late :
          m <= state.candidate /\ Before(m, state.page) => records[m].v # 0

WalkOK ==
    \A r \in Runners : run[r].pc = "walk" =>
        /\ run[r].page # 0 /\ run[r].marker = state.marker
        /\ run[r].newest \in Archived \cup {0}
        /\ \A m \in Archived \ late :
              m <= run[r].newest /\ Before(m, run[r].page) =>
                  run[r].staged[m] # 0 \/ records[m].v # 0

(***************************************************************************)
(* Episodes that were paid for again, and those that will be if the record *)
(* is distilled once more: told and, by a crash, not stamped.              *)
(***************************************************************************)
InStamp(m) == \E r \in Runners : run[r].pc = "stamp" /\ m = First(r)

Untrusted ==
    {m \in Ids : /\ records[m].v # 0 /\ ~records[m].stamped /\ ~InStamp(m)
                 /\ told[m][records[m].v] > 0}

Due == {<<m, records[m].v, told[m][records[m].v] + 1>> : m \in Untrusted}

PaidOK == IsFiniteSet(Repeats \cup Due) /\ Cardinality(Repeats \cup Due) <= faults

KnowledgeInv ==
    /\ TypeOK /\ LockOK /\ VersionsOK /\ ResumeOK /\ WalkOK
    /\ MarkerSkipsNothing /\ StampMeansTold /\ PaidOK

-----------------------------------------------------------------------------
(***************************************************************************)
(* Numbers of a finite set, and the pages of the archive.                  *)
(***************************************************************************)
LEMMA LeastElement ==
    ASSUME NEW S \in SUBSET Nat, S # {}
    PROVE  \E n \in S : \A m \in S : n <= m
<1>1. IsWellFoundedOn(OpToRel(<, Nat), Nat)
  BY NatLessThanWellFounded
<1>2. PICK n \in S : \A m \in S : <<m, n>> \notin OpToRel(<, Nat)
  BY <1>1, WFMin
<1>3. \A m \in S : ~(m < n)
  BY <1>2 DEF OpToRel
<1> QED
  BY <1>3

LEMMA MinOf ==
    ASSUME NEW S \in SUBSET Nat, S # {}
    PROVE  Min(S) \in S /\ \A m \in S : Min(S) <= m
<1>1. PICK n \in S : \A m \in S : n <= m
  BY LeastElement
<1> QED
  BY <1>1 DEF Min

LEMMA MaxOf ==
    ASSUME NEW S \in SUBSET Nat, IsFiniteSet(S), S # {}
    PROVE  Max(S) \in S /\ \A m \in S : m <= Max(S)
<1>1. PICK n \in S : \A m \in S : m <= n
  <2> DEFINE above(k) == {m \in S : m > k}
             counts == {Cardinality(above(k)) : k \in S}
  <2>1. \A k \in S : IsFiniteSet(above(k)) /\ Cardinality(above(k)) \in Nat
    BY FS_Subset, FS_CardinalityType
  <2>2. PICK c \in counts : \A d \in counts : c <= d
    <3>1. counts \in SUBSET Nat /\ counts # {}
      BY <2>1
    <3> HIDE DEF counts
    <3> QED
      BY <3>1, LeastElement
  <2>3. PICK n \in S : c = Cardinality(above(n))
    BY <2>2
  <2>4. SUFFICES ASSUME NEW m \in S, m > n PROVE FALSE
    BY <2>3
  <2>5. above(m) \subseteq above(n) \ {n} /\ m \in above(n) /\ m \notin above(m)
    <3>1. \A k \in S : k \in Nat
      OBVIOUS
    <3>2. \A k \in S : k > m => k > n /\ k # n
      BY <2>4, <3>1
    <3>3. m \in Nat /\ n \in Nat
      BY <2>4
    <3>4. m \in above(n) /\ m \notin above(m)
      BY <2>4, <3>3
    <3>5. above(m) \subseteq above(n) \ {n}
      BY <3>2
    <3> QED
      BY <3>4, <3>5
  <2>6. Cardinality(above(m)) <= Cardinality(above(n) \ {m})
    <3>1. above(m) \subseteq above(n) \ {m} /\ IsFiniteSet(above(n) \ {m})
      BY <2>1, <2>5, FS_Subset
    <3> HIDE DEF above
    <3> QED
      BY <3>1, FS_Subset
  <2>7. Cardinality(above(n) \ {m}) = Cardinality(above(n)) - 1
    <3> HIDE DEF above
    <3> QED
      BY <2>1, <2>3, <2>5, FS_RemoveElement
  <2>8. c <= Cardinality(above(m))
    BY <2>2, <2>4
  <2> QED
    <3> HIDE DEF above
    <3> QED
      BY <2>1, <2>3, <2>4, <2>6, <2>7, <2>8
<1> QED
  BY <1>1 DEF Max

LEMMA ArchiveFinite ==
    /\ IsFiniteSet(Ids) /\ Ids \subseteq Nat \ {0} /\ 0 \notin Ids
    /\ \A S \in SUBSET Ids : IsFiniteSet(S) /\ Cardinality(S) \in Nat
  BY SizesAssumption, FS_Subset, FS_CardinalityType

LEMMA NewerType ==
    \A m : Newer(m) \in Nat
<1>1. \A m : {n \in Archived : n > m} \subseteq Ids
  BY DEF Archived
<1> QED
  BY <1>1, ArchiveFinite DEF Newer

\* The further down, the more messages are newer.
LEMMA NewerAntitone ==
    ASSUME NEW m \in Ids, NEW n \in Ids, m <= n
    PROVE  Newer(n) <= Newer(m)
<1>1. {k \in Archived : k > n} \subseteq {k \in Archived : k > m}
  <2>1. \A k \in Archived : k \in Nat
    BY ArchiveFinite DEF Archived
  <2>2. m \in Nat /\ n \in Nat
    BY ArchiveFinite
  <2> QED
    BY <2>1, <2>2
<1>2. IsFiniteSet({k \in Archived : k > m})
  BY ArchiveFinite DEF Archived
<1> QED
  BY <1>1, <1>2, FS_Subset DEF Newer

\* What arrives only pushes messages down.
LEMMA NewerGrows ==
    ASSUME Archived \subseteq Archived', NEW m
    PROVE  Newer(m) <= Newer(m)'
<1>1. {k \in Archived : k > m} \subseteq {k \in Archived' : k > m}
  OBVIOUS
<1>2. IsFiniteSet({k \in Archived' : k > m})
  BY ArchiveFinite DEF Archived
<1> QED
  BY <1>1, <1>2, FS_Subset DEF Newer

LEMMA NextPageBegins ==
    ASSUME NEW p \in Nat
    PROVE  p * PageSize = (p - 1) * PageSize + PageSize /\ p * PageSize \in Nat
<1>1. PageSize \in Nat
  BY SizesAssumption
<1> QED
  BY <1>1

\* Behind an empty page there is none.
LEMMA PagesAreContiguous ==
    ASSUME NEW p \in Nat \ {0}, Page(p) = {}
    PROVE  \A m \in Archived : Newer(m) < (p - 1) * PageSize
<1>0. PageSize \in Nat \ {0}
  BY SizesAssumption
<1> DEFINE size == PageSize
           from == (p - 1) * size
<1>1. p * PageSize = from + size /\ from \in Nat /\ size \in Nat \ {0}
  <2>1. (p - 1) * PageSize \in Nat
    BY <1>0
  <2> QED
    BY NextPageBegins, <1>0, <2>1
<1>2. \A m \in Archived : Newer(m) < from \/ Newer(m) >= from + size
  BY <1>1, NewerType DEF Page
<1> HIDE DEF from, size
<1> DEFINE far == {m \in Archived : Newer(m) >= from}
           counts == {Newer(m) : m \in far}
<1> SUFFICES far = {}
  BY <1>1, NewerType DEF from, size
<1> SUFFICES ASSUME far # {} PROVE FALSE
  OBVIOUS
<1>3. PICK c \in counts : \A d \in counts : c <= d
  <2>1. counts \in SUBSET Nat /\ counts # {}
    BY NewerType
  <2> HIDE DEF counts
  <2> QED
    BY <2>1, LeastElement
<1>4. PICK m \in far : c = Newer(m)
  BY <1>3
<1>5. Newer(m) >= from + size
  BY <1>2, <1>4, <1>1, NewerType
<1> DEFINE above(k) == {n \in Archived : n > k}
<1>6. above(m) # {} /\ above(m) \subseteq Ids
  <2>1. Cardinality(above(m)) >= 1
    <3>1. Newer(m) \in Nat /\ Newer(m) = Cardinality(above(m))
      BY NewerType DEF Newer
    <3> QED
      BY <1>5, <1>1, <3>1
  <2> QED
    BY <2>1, FS_EmptySet DEF Archived
<1>7. PICK n \in above(m) : \A k \in above(m) : n <= k
  <2>1. above(m) \in SUBSET Nat
    BY <1>6, ArchiveFinite
  <2> HIDE DEF above
  <2> QED
    BY <2>1, <1>6, LeastElement
<1>8. above(n) = above(m) \ {n}
  <2>0. \A k \in Archived : k \in Nat
    BY ArchiveFinite DEF Archived
  <2>1. \A k \in above(n) : k \in above(m) \ {n}
    BY <2>0, <1>7, <1>4
  <2>2. \A k \in above(m) \ {n} : k \in above(n)
    BY <2>0, <1>7
  <2> QED
    BY <2>1, <2>2
<1>9. Newer(n) = Newer(m) - 1
  <2>1. IsFiniteSet(above(m)) /\ n \in above(m)
    BY <1>6, <1>7, ArchiveFinite
  <2>2. Newer(n) = Cardinality(above(n)) /\ Newer(m) = Cardinality(above(m))
    BY DEF Newer
  <2> HIDE DEF above
  <2> QED
    BY <2>1, <2>2, <1>8, FS_RemoveElement
<1>10. n \in far
  BY <1>1, <1>5, <1>7, <1>9, NewerType
<1>11. c <= Newer(n)
  BY <1>3, <1>10
<1> QED
  BY <1>4, <1>9, <1>11, NewerType

-----------------------------------------------------------------------------
(***************************************************************************)
(* Types.                                                                  *)
(***************************************************************************)
RunType == [pc : {"idle", "walk", "embed", "graph", "distil", "stamp", "gate", "again"},
            marker : Ids \cup {0}, page : Nat, pages : 0..CyclePages,
            newest : Ids \cup {0}, staged : [Ids -> 0..2], todo : SUBSET Ids, budget : Nat]

LEMMA IdleType ==
    ASSUME NEW pc \in {"idle", "embed", "gate", "again"}, NEW budget \in Nat
    PROVE  /\ Idle \in RunType /\ [Idle EXCEPT !.pc = pc, !.budget = budget] \in RunType
           /\ [Idle EXCEPT !.pc = pc] \in RunType
<1>1. 0 \in 0..CyclePages /\ Nothing \in [Ids -> 0..2] /\ {} \in SUBSET Ids
  BY SizesAssumption DEF Nothing
<1> HIDE DEF Nothing
<1>2. Idle \in RunType
  BY <1>1 DEF Idle, RunType
<1> QED
  BY <1>2 DEF RunType

LEMMA BecomesType ==
    ASSUME TypeOK, NEW r \in Runners, NEW next \in RunType, Becomes(r, next)
    PROVE  run' \in [Runners -> RunType] /\ run'[r] = next
           /\ \A q \in Runners \ {r} : run'[q] = run[q]
  BY DEF TypeOK, Becomes, RunType

LEMMA NewestType ==
    ASSUME TypeOK, NEW r \in Runners, run[r].newest \in Archived \cup {0}
    PROVE  /\ Items(r) \subseteq Archived /\ Newest(r) \in Items(r) \cup {run[r].newest}
           /\ Newest(r) \in Archived \cup {0} /\ Newest(r) \in Nat
           /\ \A m \in Items(r) \cup {run[r].newest} : m <= Newest(r)
<1> DEFINE S == Items(r) \cup {run[r].newest}
<1>1. Items(r) \subseteq Archived /\ Archived \subseteq Ids
  BY DEF Items, Page, Archived
<1>2. S \in SUBSET Nat /\ IsFiniteSet(S) /\ S # {}
  <2>1. IsFiniteSet(Items(r)) /\ Items(r) \in SUBSET Nat /\ run[r].newest \in Nat
    <3>1. Items(r) \in SUBSET Ids /\ run[r].newest \in Ids \cup {0}
      BY <1>1
    <3>2. IsFiniteSet(Items(r))
      BY <3>1, ArchiveFinite
    <3>3. \A m \in Ids : m \in Nat
      BY ArchiveFinite
    <3> HIDE DEF TypeOK
    <3> QED
      BY <3>1, <3>2, <3>3
  <2> QED
    BY <2>1, FS_AddElement
<1>3. Newest(r) = Max(S)
  BY DEF Newest
<1> HIDE DEF S
<1>4. Newest(r) \in S /\ \A m \in S : m <= Newest(r)
  BY <1>2, <1>3, MaxOf
<1> QED
  BY <1>1, <1>2, <1>4 DEF S

LEMMA PendingType ==
    Pending \subseteq Ids /\ Cardinality(Pending) \in Nat
  BY ArchiveFinite DEF Pending

\* The record that is done next.
LEMMA FirstIs ==
    ASSUME TypeOK, NEW r \in Runners, run[r].todo # {}
    PROVE  First(r) \in run[r].todo /\ First(r) \in Ids
<1>1. run[r].todo \in SUBSET Ids
  BY DEF TypeOK
<1>2. run[r].todo \in SUBSET Nat
  BY <1>1, ArchiveFinite
<1> QED
  BY <1>1, <1>2, MinOf DEF First

LEMMA RunTyped ==
    ASSUME TypeOK
    PROVE  run \in [Runners -> RunType]
  BY DEF TypeOK, RunType

LEMMA Retyped ==
    ASSUME TypeOK, run' \in [Runners -> RunType], faults' \in 0..MaxFaults,
           UNCHANGED <<source, state, records, told, requests>>
    PROVE  TypeOK'
  BY DEF TypeOK, RunType, source

LEMMA TypeStep ==
    ASSUME TypeOK, WalkOK, LockOK, ResumeOK, [Next]_vars
    PROVE  TypeOK'
<1>0. run \in [Runners -> RunType] /\ \A r \in Runners : run[r] \in RunType
  BY RunTyped
<1> USE DEF TypeOK
<1>1. ASSUME NEW m \in Ids, Arrive(m) PROVE TypeOK'
  BY <1>1 DEF Arrive
<1>2. ASSUME NEW m \in Ids, Flip(m) PROVE TypeOK'
  BY <1>2 DEF Flip
<1>3. ASSUME NEW r \in Runners, Begin(r) PROVE TypeOK'
  <2> DEFINE next == [Idle EXCEPT !.pc = "walk", !.marker = state.marker, !.newest = state.candidate,
                               !.page = IF state.marker = 0 THEN state.page ELSE 1,
                               !.budget = IF r = "loop" THEN AutoBatch ELSE 0]
  <2>1. next \in RunType
    <3>1. Idle \in RunType /\ AutoBatch \in Nat
      BY IdleType, SizesAssumption
    <3>2. /\ state.marker \in Ids \cup {0} /\ state.page \in Nat
          /\ state.candidate \in Ids \cup {0}
      OBVIOUS
    <3> HIDE DEF TypeOK
    <3> QED
      BY <3>1, <3>2 DEF RunType
  <2>2. run' \in [Runners -> RunType]
    <3>1. Becomes(r, next)
      BY <1>3 DEF Begin
    <3> HIDE DEF next
    <3> QED
      BY <2>1, <3>1, BecomesType
  <2>3. requests' \in 0..MaxRequests
    BY <1>3, SizesAssumption DEF Begin
  <2> QED
    BY <1>3, <2>2, <2>3 DEF Begin, RunType, source
<1>4. ASSUME NEW r \in Runners, WalkOn(r) PROVE TypeOK'
  <2> DEFINE next == [run[r] EXCEPT !.staged = Staged(r), !.newest = Newest(r),
                                 !.page = @ + 1, !.pages = @ + 1]
  <2>1. next \in RunType
    <3>1. Newest(r) \in Ids \cup {0}
      BY <1>4, NewestType DEF WalkOn, WalkOK, Archived
    <3>2. Staged(r) \in [Ids -> 0..2]
      BY DEF Staged
    <3>3. run[r].pages + 1 \in 0..CyclePages
      BY <1>4, <1>0, SizesAssumption DEF WalkOn, Capped, RunType
    <3>4. run[r].page + 1 \in Nat
      OBVIOUS
    <3>5. next = [run[r] EXCEPT !.staged = Staged(r), !.newest = Newest(r),
                                 !.page = run[r].page + 1, !.pages = run[r].pages + 1]
      OBVIOUS
    <3> HIDE DEF TypeOK, next
    <3> QED
      BY <1>0, <3>1, <3>2, <3>3, <3>4, <3>5 DEF RunType
  <2>2. run' \in [Runners -> RunType]
    <3>1. Becomes(r, next)
      BY <1>4 DEF WalkOn
    <3> HIDE DEF next
    <3> QED
      BY <2>1, <3>1, BecomesType
  <2> QED
    BY <1>4, <2>2, Retyped DEF WalkOn
<1>5. ASSUME NEW r \in Runners, WalkEnds(r) PROVE TypeOK'
  <2>1. Newest(r) \in Ids \cup {0}
    BY <1>5, NewestType DEF WalkEnds, WalkOK, Archived
  <2>2. Staged(r) \in [Ids -> 0..2]
    BY DEF Staged
  <2>3. Upserted(Staged(r)) \in [Ids -> [v : 0..2, stamped : BOOLEAN]]
    <3> DEFINE s == Staged(r)
    <3> HIDE DEF s
    <3>1. \A m \in Ids : s[m] \in 0..2 /\ records[m] \in [v : 0..2, stamped : BOOLEAN]
      BY <2>2 DEF s
    <3>2. \A m \in Ids : (IF s[m] \in {0, records[m].v} THEN records[m]
                   ELSE [v |-> s[m], stamped |-> FALSE]) \in [v : 0..2, stamped : BOOLEAN]
      BY <3>1
    <3>3. Upserted(s) \in [Ids -> [v : 0..2, stamped : BOOLEAN]]
      BY <3>2 DEF Upserted
    <3> QED
      BY <3>3 DEF s
  <2>4. Watermark(r) \in [marker : Ids \cup {0}, page : Nat \ {0}, candidate : Ids \cup {0}]
    <3> HIDE DEF TypeOK
    <3> QED
      BY <2>1, <1>0 DEF Watermark, RunType
  <2>5. run' \in [Runners -> RunType]
    <3>1. run[r].budget \in Nat
      OBVIOUS
    <3>2. [Idle EXCEPT !.pc = "embed", !.budget = run[r].budget] \in RunType
      BY <3>1, IdleType
    <3> QED
      BY <1>5, <3>2, BecomesType DEF WalkEnds
  <2> QED
    BY <1>5, <2>3, <2>4, <2>5 DEF WalkEnds, RunType, source
<1>6. ASSUME NEW r \in Runners, WalkFails(r) PROVE TypeOK'
  <2>1. run' \in [Runners -> RunType]
    <3>1. run[r].budget \in Nat
      OBVIOUS
    <3>2. [Idle EXCEPT !.pc = "embed", !.budget = run[r].budget] \in RunType
      BY <3>1, IdleType
    <3> QED
      BY <1>6, <3>2, BecomesType DEF WalkFails
  <2>2. faults' \in 0..MaxFaults
    BY <1>6, SizesAssumption DEF WalkFails, Fault
  <2> QED
    BY <1>6, <2>1, <2>2, Retyped DEF WalkFails
<1>7. ASSUME NEW r \in Runners, EmbedFails(r) PROVE TypeOK'
  <2>1. run' \in [Runners -> RunType]
    BY <1>0, <1>7, IdleType, BecomesType DEF EmbedFails
  <2>2. faults' \in 0..MaxFaults
    BY <1>7, SizesAssumption DEF EmbedFails, Fault
  <2> QED
    BY <1>7, <2>1, <2>2, Retyped DEF EmbedFails
<1>8. ASSUME Crash PROVE TypeOK'
  <2>1. run' \in [Runners -> RunType]
    BY <1>8, IdleType DEF Crash
  <2>2. faults' \in 0..MaxFaults
    BY <1>8, SizesAssumption DEF Crash, Fault
  <2> QED
    BY <1>8, <2>1, <2>2, Retyped DEF Crash
<1>9. ASSUME NEW r \in Runners, Embedded(r) \/ Again(r) PROVE TypeOK'
  <2>1. ASSUME NEW pc \in {"graph"}, Becomes(r, [run[r] EXCEPT !.pc = pc])
        PROVE  run' \in [Runners -> RunType]
    <3>1. [run[r] EXCEPT !.pc = pc] \in RunType
      BY ZenonT(60), <1>0 DEF RunType
    <3> QED
      BY <3>1, <2>1, BecomesType
  <2> QED
    BY <1>9, <2>1, Retyped DEF Embedded, Again
<1>10. ASSUME NEW r \in Runners, Skip(r) \/ PassOver(r) PROVE TypeOK'
  <2>1. run' \in [Runners -> RunType]
    BY <1>10, IdleType, BecomesType DEF Skip, PassOver, Over
  <2> QED
    BY <1>10, <2>1, Retyped DEF Skip, PassOver
<1>11. ASSUME NEW r \in Runners, Select(r) PROVE TypeOK'
  <2>1. [run[r] EXCEPT !.pc = "distil", !.todo = Oldest(run[r].budget)] \in RunType
    <3>1. Oldest(run[r].budget) \in SUBSET Ids
      BY PendingType DEF Oldest
    <3> HIDE DEF TypeOK
    <3> QED
      BY <1>0, <3>1 DEF RunType
  <2>2. run' \in [Runners -> RunType]
    BY <1>11, <2>1, BecomesType DEF Select
  <2> QED
    BY <1>11, <2>2, Retyped DEF Select
<1>12. ASSUME NEW r \in Runners, Distil(r) PROVE TypeOK'
  <2>1. [run[r] EXCEPT !.pc = "stamp"] \in RunType
    BY ZenonT(60), <1>0 DEF RunType
  <2>2. run' \in [Runners -> RunType]
    BY <1>12, <2>1, BecomesType DEF Distil
  <2>3. told' \in [Ids -> [1..2 -> Nat]]
    <3> DEFINE m == First(r)
    <3>1. m \in Ids /\ records[m].v \in 1..2
      BY <1>12, FirstIs DEF Distil, Doing, LockOK, Pending
    <3> HIDE DEF m
    <3>2. told' = [told EXCEPT ![m][records[m].v] = @ + 1]
      BY <1>12 DEF Distil, m
    <3> QED
      BY <3>1, <3>2
  <2> QED
    BY <1>12, <2>2, <2>3 DEF Distil, RunType, source
<1>13. ASSUME NEW r \in Runners, DistilFails(r) PROVE TypeOK'
  <2>1. [run[r] EXCEPT !.todo = Rest(r)] \in RunType
    <3> HIDE DEF TypeOK
    <3> QED
      BY <1>0 DEF RunType, Rest
  <2>2. run' \in [Runners -> RunType]
    BY <1>13, <2>1, BecomesType DEF DistilFails
  <2> QED
    BY <1>13, <2>2, Retyped DEF DistilFails
<1>14. ASSUME NEW r \in Runners, Stamp(r) PROVE TypeOK'
  <2>1. [run[r] EXCEPT !.pc = "distil", !.todo = Rest(r)] \in RunType
    <3> HIDE DEF TypeOK
    <3> QED
      BY <1>0 DEF RunType, Rest
  <2>2. run' \in [Runners -> RunType]
    BY <1>14, <2>1, BecomesType DEF Stamp
  <2>3. records' \in [Ids -> [v : 0..2, stamped : BOOLEAN]]
    <3> DEFINE m == First(r)
    <3>1. m \in Ids
      BY <1>14, FirstIs DEF Stamp, Doing
    <3> HIDE DEF m
    <3>2. records' = [records EXCEPT ![m].stamped = TRUE]
      BY <1>14 DEF Stamp, m
    <3> QED
      BY <3>1, <3>2
  <2> QED
    BY <1>14, <2>2, <2>3 DEF Stamp, RunType, source
<1>15. ASSUME NEW r \in Runners, Gate(r) PROVE TypeOK'
  <2>1. run' \in [Runners -> RunType]
    BY <1>15, IdleType, BecomesType, PendingType DEF Gate
  <2> QED
    BY <1>15, <2>1, Retyped DEF Gate
<1>16. ASSUME UNCHANGED vars PROVE TypeOK'
  BY <1>16 DEF vars, source
<1> HIDE DEF TypeOK
<1> QED
  BY <1>1, <1>2, <1>3, <1>4, <1>5, <1>6, <1>7, <1>8, <1>9, <1>10, <1>11, <1>12, <1>13, <1>14,
     <1>15, <1>16 DEF Next, Step

-----------------------------------------------------------------------------
(***************************************************************************)
(* The lock, and the steps that only move a run on.                        *)
(***************************************************************************)
LEMMA Alone ==
    ASSUME LockOK, NEW r \in Runners, run[r].pc \notin Waiting
    PROVE  \A q \in Runners \ {r} : run[q].pc \in Waiting
  BY DEF LockOK

LEMMA Moves ==
    ASSUME TypeOK, NEW r \in Runners,
           \/ Begin(r) \/ WalkOn(r) \/ WalkFails(r) \/ Embedded(r) \/ EmbedFails(r)
           \/ Skip(r) \/ PassOver(r) \/ Gate(r) \/ Again(r)
    PROVE  /\ run'[r].pc \notin {"distil", "stamp"} /\ run[r].pc # "stamp"
           /\ \A q \in Runners \ {r} : run'[q] = run[q]
           /\ run'[r].pc \in Waiting \/ run[r].pc \notin Waiting \/ LockFree
           /\ UNCHANGED <<source, records, told>>
           /\ faults' \in {faults, faults + 1}
<1>0. run \in [Runners -> RunType]
  BY RunTyped
<1>1. CASE Begin(r)
  BY <1>0, <1>1 DEF Begin, Becomes, Idle, Nothing
<1>2. CASE WalkOn(r)
  BY <1>0, <1>2 DEF WalkOn, Becomes, Waiting, RunType
<1>3. CASE WalkFails(r)
  BY <1>0, <1>3 DEF WalkFails, Becomes, Waiting, Idle, Fault
<1>4. CASE Embedded(r)
  BY <1>0, <1>4 DEF Embedded, Becomes, Waiting, RunType
<1>5. CASE EmbedFails(r)
  BY <1>0, <1>5 DEF EmbedFails, Becomes, Waiting, Idle, Fault
<1>6. CASE Skip(r)
  BY <1>0, <1>6 DEF Skip, Becomes, Over, Waiting, Idle
<1>7. CASE PassOver(r)
  BY <1>0, <1>7 DEF PassOver, Becomes, Waiting, Idle
<1>8. CASE Gate(r)
  BY <1>0, <1>8 DEF Gate, Becomes, Waiting, Idle
<1>9. CASE Again(r)
  BY <1>0, <1>9 DEF Again, Becomes, RunType
<1> QED
  BY <1>1, <1>2, <1>3, <1>4, <1>5, <1>6, <1>7, <1>8, <1>9

\* Where the runs are when a walk is over, and around an episode.
LEMMA Lands ==
    ASSUME TypeOK, NEW r \in Runners
    PROVE  /\ WalkEnds(r) => run[r].pc = "walk" /\ run'[r].pc = "embed"
           /\ Select(r) => /\ run[r].pc = "graph" /\ run'[r].pc = "distil"
                           /\ run'[r].todo \subseteq Pending
           /\ Distil(r) => /\ run[r].pc = "distil" /\ run'[r].pc = "stamp"
                           /\ run'[r].todo = run[r].todo /\ run[r].todo # {}
           /\ DistilFails(r) => /\ run[r].pc = "distil" /\ run'[r].pc = "distil"
                                /\ run'[r].todo = Rest(r)
           /\ Stamp(r) => /\ run[r].pc = "stamp" /\ run'[r].pc = "distil"
                          /\ run'[r].todo = Rest(r) /\ run[r].todo # {}
           /\ WalkEnds(r) \/ Select(r) \/ Distil(r) \/ DistilFails(r) \/ Stamp(r) =>
                \A q \in Runners \ {r} : run'[q] = run[q]
<1>0. run \in [Runners -> RunType] /\ run[r] \in RunType
  BY RunTyped
<1>1. ASSUME WalkEnds(r)
      PROVE  /\ run[r].pc = "walk" /\ run'[r].pc = "embed"
             /\ \A q \in Runners \ {r} : run'[q] = run[q]
  BY <1>0, <1>1 DEF WalkEnds, Becomes, Idle
<1>2. ASSUME Select(r)
      PROVE  /\ run[r].pc = "graph" /\ run'[r].pc = "distil" /\ run'[r].todo \subseteq Pending
             /\ \A q \in Runners \ {r} : run'[q] = run[q]
  <2>1. Oldest(run[r].budget) \subseteq Pending
    BY DEF Oldest
  <2> QED
    BY <1>0, <1>2, <2>1 DEF Select, Becomes, RunType
<1>3. ASSUME Distil(r)
      PROVE  /\ run[r].pc = "distil" /\ run'[r].pc = "stamp"
             /\ run'[r].todo = run[r].todo /\ run[r].todo # {}
             /\ \A q \in Runners \ {r} : run'[q] = run[q]
  BY <1>0, <1>3 DEF Distil, Doing, Becomes, RunType
<1>4. ASSUME DistilFails(r)
      PROVE  /\ run[r].pc = "distil" /\ run'[r].pc = "distil" /\ run'[r].todo = Rest(r)
             /\ \A q \in Runners \ {r} : run'[q] = run[q]
  BY <1>0, <1>4 DEF DistilFails, Doing, Becomes, RunType
<1>5. ASSUME Stamp(r)
      PROVE  /\ run[r].pc = "stamp" /\ run'[r].pc = "distil"
             /\ run'[r].todo = Rest(r) /\ run[r].todo # {}
             /\ \A q \in Runners \ {r} : run'[q] = run[q]
  BY <1>0, <1>5 DEF Stamp, Doing, Becomes, RunType
<1> QED
  BY <1>1, <1>2, <1>3, <1>4, <1>5

\* What a pass does to the tables.
LEMMA PassEffect ==
    ASSUME TypeOK, LockOK, NEW r \in Runners, run[r].todo # {}, NEW m, m = First(r),
           run[r].pc \in {"distil", "stamp"}
    PROVE  /\ m \in Ids /\ m \in run[r].todo /\ records[m].v \in 1..2 /\ ~records[m].stamped
           /\ Distil(r) =>
                /\ UNCHANGED <<source, state, records, faults>>
                /\ told'[m][records[m].v] = told[m][records[m].v] + 1
                /\ \A n \in Ids, v \in 1..2 :
                      <<n, v>> # <<m, records[m].v>> => told'[n][v] = told[n][v]
           /\ Stamp(r) =>
                /\ UNCHANGED <<source, state, told, faults>>
                /\ \A n \in Ids : records'[n].v = records[n].v
                /\ records'[m].stamped
                /\ \A n \in Ids \ {m} : records'[n] = records[n]
<1>1. m \in Ids /\ m \in run[r].todo
  BY FirstIs
<1>2. records[m].v \in 1..2 /\ ~records[m].stamped
  BY <1>1 DEF LockOK, Pending, TypeOK
<1>3. ASSUME Distil(r)
      PROVE  /\ UNCHANGED <<source, state, records, faults>>
             /\ told'[m][records[m].v] = told[m][records[m].v] + 1
             /\ \A n \in Ids, v \in 1..2 :
                   <<n, v>> # <<m, records[m].v>> => told'[n][v] = told[n][v]
  <2>1. told' = [told EXCEPT ![m][records[m].v] = @ + 1] /\ told \in [Ids -> [1..2 -> Nat]]
    BY <1>3 DEF Distil, TypeOK
  <2> QED
    BY <1>3, <2>1, <1>1, <1>2 DEF Distil
<1>4. ASSUME Stamp(r)
      PROVE  /\ UNCHANGED <<source, state, told, faults>>
             /\ \A n \in Ids : records'[n].v = records[n].v
             /\ records'[m].stamped
             /\ \A n \in Ids \ {m} : records'[n] = records[n]
  <2>1. /\ records' = [records EXCEPT ![m].stamped = TRUE]
        /\ records \in [Ids -> [v : 0..2, stamped : BOOLEAN]]
    BY <1>4 DEF Stamp, TypeOK
  <2> QED
    BY <1>4, <2>1, <1>1 DEF Stamp
<1> QED
  BY <1>1, <1>2, <1>3, <1>4

LEMMA LockStep ==
    ASSUME TypeOK, TypeOK', LockOK, [Next]_vars
    PROVE  LockOK'
<1>0. Runners = {"loop", "request"}
  BY DEF Runners
<1>1. ASSUME UNCHANGED <<records, told, run>> PROVE LockOK'
  BY <1>1 DEF LockOK, Pending, First
<1>2. ASSUME NEW r \in Runners,
             \/ Begin(r) \/ WalkOn(r) \/ WalkFails(r) \/ Embedded(r) \/ EmbedFails(r)
             \/ Skip(r) \/ PassOver(r) \/ Gate(r) \/ Again(r)
      PROVE  LockOK'
  <2>1. /\ run'[r].pc \notin {"distil", "stamp"}
        /\ \A q \in Runners \ {r} : run'[q] = run[q]
        /\ run'[r].pc \in Waiting \/ run[r].pc \notin Waiting \/ LockFree
        /\ UNCHANGED <<records, told>>
    BY <1>2, Moves
  <2>2. \A q \in Runners \ {r} : run'[r].pc \in Waiting \/ run'[q].pc \in Waiting
    BY <2>1, Alone DEF LockFree, Waiting
  <2>3. \A q, p \in Runners : q # p => run'[q].pc \in Waiting \/ run'[p].pc \in Waiting
    BY <2>1, <2>2 DEF LockOK
  <2>4. \A q \in Runners : run'[q].pc \in {"distil", "stamp"} => run'[q].todo \subseteq Pending'
    BY <2>1 DEF LockOK, Pending
  <2>5. \A q \in Runners : run'[q].pc = "stamp" => q # r /\ run'[q] = run[q]
    BY <2>1
  <2>6. \A q \in Runners : run'[q].pc = "stamp" =>
          run'[q].todo # {} /\ told'[Min(run'[q].todo)][records'[Min(run'[q].todo)].v] > 0
    BY <2>1, <2>5 DEF LockOK, First
  <2> QED
    BY <2>3, <2>4, <2>6 DEF LockOK, First
<1>3. ASSUME NEW r \in Runners, run[r].pc \notin Waiting,
             \A q \in Runners \ {r} : run'[q] = run[q],
             run'[r].pc \in {"distil", "stamp"} => run'[r].todo \subseteq Pending',
             run'[r].pc = "stamp" => run'[r].todo # {} /\ (told[First(r)][records[First(r)].v] > 0)'
      PROVE  LockOK'
  <2>1. \A q \in Runners \ {r} : run'[q].pc \in Waiting
    BY <1>3, Alone
  <2>2. \A q, p \in Runners : q # p => run'[q].pc \in Waiting \/ run'[p].pc \in Waiting
    BY <2>1
  <2>3. \A q \in Runners : run'[q].pc \in {"distil", "stamp"} => q = r
    BY <2>1 DEF Waiting
  <2> QED
    BY <1>3, <2>2, <2>3 DEF LockOK
<1>4. ASSUME NEW r \in Runners, WalkEnds(r) PROVE LockOK'
  <2>1. /\ run[r].pc = "walk" /\ run'[r].pc = "embed"
        /\ \A q \in Runners \ {r} : run'[q] = run[q]
    BY <1>4, Lands
  <2> QED
    BY <2>1, <1>3 DEF Waiting
<1>5. ASSUME NEW r \in Runners, Select(r) PROVE LockOK'
  <2>1. /\ run[r].pc = "graph" /\ run'[r].pc = "distil" /\ run'[r].todo \subseteq Pending
        /\ \A q \in Runners \ {r} : run'[q] = run[q]
    BY <1>5, Lands
  <2>2. Pending' = Pending
    BY <1>5 DEF Select, Pending
  <2> QED
    BY <2>1, <2>2, <1>3 DEF Waiting
<1>6. ASSUME NEW r \in Runners, Distil(r) PROVE LockOK'
  <2>1. /\ run[r].pc = "distil" /\ run'[r].pc = "stamp"
        /\ run'[r].todo = run[r].todo /\ run[r].todo # {}
        /\ \A q \in Runners \ {r} : run'[q] = run[q]
    BY <1>6, Lands
  <2>2. Pending' = Pending
    BY <1>6 DEF Distil, Pending
  <2>3. run'[r].todo \subseteq Pending'
    BY <2>1, <2>2 DEF LockOK
  <2> DEFINE m == First(r)
  <2>4. /\ told'[m][records[m].v] = told[m][records[m].v] + 1 /\ records' = records
        /\ m \in Ids /\ records[m].v \in 1..2
    BY <1>6, <2>1, PassEffect DEF Distil
  <2>5. told[m][records[m].v] \in Nat
    BY <2>4 DEF TypeOK
  <2>6. First(r)' = m
    BY <2>1 DEF First
  <2>7. (told[First(r)][records[First(r)].v] > 0)'
    <3> HIDE DEF m
    <3> QED
      BY <2>4, <2>5, <2>6
  <2> QED
    BY <2>1, <2>3, <2>7, <1>3 DEF Waiting
<1>7. ASSUME NEW r \in Runners, DistilFails(r) PROVE LockOK'
  <2>1. /\ run[r].pc = "distil" /\ run'[r].pc = "distil" /\ run'[r].todo = Rest(r)
        /\ \A q \in Runners \ {r} : run'[q] = run[q]
    BY <1>7, Lands
  <2>2. Pending' = Pending
    BY <1>7 DEF DistilFails, Pending
  <2>3. run'[r].todo \subseteq Pending'
    BY <2>1, <2>2 DEF LockOK, Rest
  <2> QED
    BY <2>1, <2>3, <1>3 DEF Waiting
<1>8. ASSUME NEW r \in Runners, Stamp(r) PROVE LockOK'
  <2>1. /\ run[r].pc = "stamp" /\ run'[r].pc = "distil"
        /\ run'[r].todo = Rest(r) /\ run[r].todo # {}
        /\ \A q \in Runners \ {r} : run'[q] = run[q]
    BY <1>8, Lands
  <2> DEFINE m == First(r)
  <2>2. \A n \in Ids \ {m} : records'[n] = records[n]
    BY <1>8, <2>1, PassEffect
  <2>3. run[r].todo \subseteq Pending
    BY <2>1 DEF LockOK
  <2>4. run'[r].todo \subseteq Pending'
    <3>1. Rest(r) = run[r].todo \ {m}
      BY DEF Rest
    <3> HIDE DEF m
    <3> QED
      BY <2>1, <2>2, <2>3, <3>1 DEF Pending
  <2> QED
    BY <2>1, <2>4, <1>3 DEF Waiting
<1>9. ASSUME Crash PROVE LockOK'
  <2>1. \A r \in Runners : run'[r].pc = "idle"
    BY <1>9 DEF Crash, Idle
  <2> QED
    BY <2>1 DEF LockOK, Waiting
<1> QED
  <2>1. ASSUME NEW m \in Ids, Arrive(m) \/ Flip(m) PROVE LockOK'
    BY <2>1, <1>1 DEF Arrive, Flip
  <2>2. ASSUME UNCHANGED vars PROVE LockOK'
    BY <2>2, <1>1 DEF vars
  <2> QED
    BY <1>2, <1>4, <1>5, <1>6, <1>7, <1>8, <1>9, <2>1, <2>2 DEF Next, Step

-----------------------------------------------------------------------------
(***************************************************************************)
(* Versions.                                                               *)
(***************************************************************************)
LEMMA Tables ==
    ASSUME TypeOK
    PROVE  \A m \in Ids :
              /\ archive[m] \in {0, 1, 2} /\ archive[m] \in Nat
              /\ records[m].v \in {0, 1, 2} /\ records[m].v \in Nat
              /\ \A v \in 1..2 : told[m][v] \in Nat
              /\ \A r \in Runners : run[r].staged[m] \in {0, 1, 2} /\ run[r].staged[m] \in Nat
<1>1. \A x \in 0..2 : x \in {0, 1, 2} /\ x \in Nat
  OBVIOUS
<1>2. \A m \in Ids : archive[m] \in 0..2 /\ records[m].v \in 0..2
  BY DEF TypeOK
<1>3. \A m \in Ids, r \in Runners : run[r].staged[m] \in 0..2
  BY RunTyped DEF RunType
<1>4. \A m \in Ids, v \in 1..2 : told[m][v] \in Nat
  BY DEF TypeOK
<1> QED
  BY <1>1, <1>2, <1>3, <1>4

LEMMA TablesNext ==
    ASSUME TypeOK'
    PROVE  \A m \in Ids : archive'[m] \in Nat /\ records'[m].v \in Nat
<1>1. \A x \in 0..2 : x \in Nat
  OBVIOUS
<1>2. \A m \in Ids : archive'[m] \in 0..2 /\ records'[m].v \in 0..2
  BY DEF TypeOK
<1> QED
  BY <1>1, <1>2

LEMMA StagedValue ==
    ASSUME NEW r \in Runners, NEW m \in Ids
    PROVE  Staged(r)[m] = IF m \in Items(r) THEN archive[m] ELSE run[r].staged[m]
  BY DEF Staged

\* What a walk commits.
LEMMA UpsertedValue ==
    ASSUME NEW s, NEW m \in Ids
    PROVE  Upserted(s)[m] = IF s[m] \in {0, records[m].v} THEN records[m]
                            ELSE [v |-> s[m], stamped |-> FALSE]
  BY DEF Upserted

LEMMA CommitEffect ==
    ASSUME TypeOK, VersionsOK, NEW r \in Runners, WalkEnds(r), NEW m \in Ids
    PROVE  /\ records[m].v <= records'[m].v /\ records'[m].v <= archive[m]
           /\ records'[m] = records[m] \/ ~records'[m].stamped
           /\ records'[m] = records[m] \/ records[m].v < records'[m].v
           /\ Staged(r)[m] # 0 => records'[m].v # 0
<1> DEFINE s == Staged(r)[m]
<1>1. /\ records'[m] = IF s \in {0, records[m].v} THEN records[m] ELSE [v |-> s, stamped |-> FALSE]
      /\ run[r].pc = "walk"
  BY UpsertedValue DEF WalkEnds
<1>2. s \in 0..2 /\ records[m].v \in 0..2 /\ archive[m] \in 0..2 /\ records[m].v <= archive[m]
  <2>1. run[r].staged[m] \in 0..2 /\ archive[m] \in 0..2
    BY DEF TypeOK
  <2> QED
    BY <2>1, StagedValue DEF TypeOK, VersionsOK
<1>3. s # 0 => records[m].v <= s /\ s <= archive[m]
  <2>1. CASE m \in Items(r)
    BY <2>1, <1>2, StagedValue
  <2>2. CASE m \notin Items(r)
    BY <2>2, <1>1, StagedValue DEF VersionsOK
  <2> QED
    BY <2>1, <2>2
<1> HIDE DEF s
<1>4. s # 0 => records'[m].v # 0
  BY <1>1, <1>2
<1> QED
  BY <1>1, <1>2, <1>3, <1>4 DEF s

LEMMA VersionsStep ==
    ASSUME TypeOK, TypeOK', LockOK, VersionsOK, [Next]_vars
    PROVE  VersionsOK'
<1>0. run \in [Runners -> RunType]
  BY RunTyped
<1>1. ASSUME \A m \in Ids : archive[m] <= archive'[m], UNCHANGED <<records, told>>,
             \A r \in Runners : run'[r].pc = "walk" => run'[r] = run[r]
      PROVE  VersionsOK'
  <2>0. \A m \in Ids : archive[m] \in Nat /\ archive'[m] \in Nat /\ records[m].v \in Nat
    BY Tables, TablesNext
  <2>1. \A m \in Ids : /\ records'[m].v <= archive'[m]
                       /\ records'[m].stamped => records'[m].v # 0
    BY <1>1, <2>0 DEF VersionsOK
  <2>2. \A r \in Runners, m \in Ids : run'[r].pc = "walk" =>
           run'[r] = run[r] /\ run[r].staged[m] \in Nat
    BY <1>1, Tables
  <2>3. \A r \in Runners, m \in Ids : run'[r].pc = "walk" /\ run'[r].staged[m] # 0 =>
           records'[m].v <= run'[r].staged[m] /\ run'[r].staged[m] <= archive'[m]
    BY <1>1, <2>0, <2>2 DEF VersionsOK
  <2> QED
    BY <1>1, <2>1, <2>3 DEF VersionsOK
<1>2. ASSUME NEW r \in Runners,
             \/ WalkFails(r) \/ Embedded(r) \/ EmbedFails(r)
             \/ Skip(r) \/ PassOver(r) \/ Gate(r) \/ Again(r) \/ Select(r) \/ DistilFails(r)
      PROVE  VersionsOK'
  <2>0. run[r] \in RunType
    BY <1>0
  <2>1. /\ run'[r].pc # "walk" /\ \A q \in Runners \ {r} : run'[q] = run[q]
        /\ UNCHANGED <<archive, records, told>>
    <3>1. CASE WalkFails(r)
      BY <3>1, <1>0 DEF WalkFails, Becomes, Idle, source
    <3>6. CASE EmbedFails(r)
      BY <3>6, <1>0 DEF EmbedFails, Becomes, Idle, source
    <3>7. CASE PassOver(r)
      BY <3>7, <1>0 DEF PassOver, Becomes, Idle, source
    <3>5. CASE Skip(r)
      BY <3>5, <1>0 DEF Skip, Becomes, Over, Idle, source
    <3>2. CASE Embedded(r) \/ Again(r)
      BY <3>2, <1>0, <2>0 DEF Embedded, Again, Becomes, source, RunType
    <3>3. CASE Gate(r)
      BY <3>3, <1>0 DEF Gate, Becomes, Idle, source
    <3>4. CASE Select(r) \/ DistilFails(r)
      <4>1. run'[r].pc # "walk" /\ \A q \in Runners \ {r} : run'[q] = run[q]
        BY <3>4, Lands
      <4> QED
        BY <3>4, <4>1 DEF Select, DistilFails, source
    <3> QED
      BY <1>2, <3>1, <3>2, <3>3, <3>4, <3>5, <3>6, <3>7
  <2>2. \A m \in Ids : archive[m] <= archive'[m]
    BY <2>1, Tables
  <2> QED
    BY <2>1, <2>2, <1>1
<1>3. ASSUME NEW r \in Runners, Begin(r) PROVE VersionsOK'
  <2>1. /\ run'[r].staged = Nothing /\ \A q \in Runners \ {r} : run'[q] = run[q]
        /\ UNCHANGED <<archive, records, told>>
    BY <1>3, <1>0 DEF Begin, Becomes, Idle, source
  <2>2. \A m \in Ids : run'[r].staged[m] = 0
    BY <2>1 DEF Nothing
  <2> QED
    BY <2>1, <2>2 DEF VersionsOK
<1>4. ASSUME NEW r \in Runners, WalkOn(r) PROVE VersionsOK'
  <2>1. /\ run[r].pc = "walk" /\ run'[r].staged = Staged(r)
        /\ \A q \in Runners \ {r} : run'[q] = run[q]
        /\ UNCHANGED <<archive, records, told>>
    BY <1>4, <1>0 DEF WalkOn, Becomes, source, RunType
  <2>2. \A m \in Ids : Staged(r)[m] # 0 =>
          records[m].v <= Staged(r)[m] /\ Staged(r)[m] <= archive[m]
    <3> TAKE m \in Ids
    <3>1. archive[m] \in Nat
      BY Tables
    <3> QED
      BY <2>1, <3>1, StagedValue DEF VersionsOK
  <2> QED
    BY <2>1, <2>2 DEF VersionsOK
<1>5. ASSUME NEW r \in Runners, WalkEnds(r) PROVE VersionsOK'
  <2>1. /\ run[r].pc = "walk" /\ run'[r].pc = "embed"
        /\ \A q \in Runners \ {r} : run'[q] = run[q]
    BY <1>5, Lands
  <2>2. \A q \in Runners : run'[q].pc # "walk"
    BY <2>1, Alone DEF Waiting
  <2>3. \A m \in Ids : /\ records[m].v <= records'[m].v /\ records'[m].v <= archive[m]
                       /\ records'[m] = records[m] \/ ~records'[m].stamped
    BY <1>5, CommitEffect
  <2>4. \A m \in Ids : records[m].v \in Nat /\ records'[m].v \in Nat
    BY Tables, TablesNext
  <2>5. archive' = archive /\ told' = told
    BY <1>5 DEF WalkEnds, source
  <2>6. \A m \in Ids, v \in 1..2 : v > records'[m].v => v > records[m].v
    BY <2>3, <2>4
  <2> QED
    BY <2>2, <2>3, <2>5, <2>6 DEF VersionsOK
<1>6. ASSUME NEW r \in Runners, Distil(r) PROVE VersionsOK'
  <2>0. run[r].pc = "distil" /\ run[r].todo # {} /\ run'[r].pc = "stamp"
        /\ \A q \in Runners \ {r} : run'[q] = run[q]
    BY <1>6, Lands
  <2>1. PICK m \in Ids : /\ UNCHANGED <<source, records>>
                         /\ \A n \in Ids, v \in 1..2 :
                               <<n, v>> # <<m, records[m].v>> => told'[n][v] = told[n][v]
    BY <1>6, <2>0, PassEffect
  <2>2. \A n \in Ids, v \in 1..2 : v > records'[n].v => told'[n][v] = 0
    <3> SUFFICES ASSUME NEW n \in Ids, NEW v \in 1..2, v > records'[n].v PROVE told'[n][v] = 0
      OBVIOUS
    <3>1. records'[n].v = records[n].v /\ records[n].v \in Nat
      BY <2>1, Tables
    <3>2. v # records[n].v
      BY <3>1
    <3>3. <<n, v>> # <<m, records[m].v>>
      BY <3>2
    <3>4. told'[n][v] = told[n][v]
      BY <2>1, <3>3
    <3> QED
      BY <3>1, <3>4 DEF VersionsOK
  <2> QED
    BY <2>0, <2>1, <2>2 DEF VersionsOK, source
<1>7. ASSUME NEW r \in Runners, Stamp(r) PROVE VersionsOK'
  <2>0. run[r].pc = "stamp" /\ run[r].todo # {} /\ run'[r].pc = "distil"
        /\ \A q \in Runners \ {r} : run'[q] = run[q]
    BY <1>7, Lands
  <2> DEFINE m == First(r)
  <2>1. /\ UNCHANGED <<source, told>> /\ records[m].v \in 1..2
        /\ \A n \in Ids : records'[n].v = records[n].v
        /\ \A n \in Ids \ {m} : records'[n] = records[n]
    BY <1>7, <2>0, PassEffect
  <2> HIDE DEF m
  <2> QED
    BY <2>0, <2>1 DEF VersionsOK, source
<1>8. ASSUME Crash PROVE VersionsOK'
  <2>1. /\ \A r \in Runners : run'[r].pc # "walk"
        /\ UNCHANGED <<archive, records, told>>
    BY <1>8 DEF Crash, Idle, source
  <2>2. \A m \in Ids : archive[m] <= archive'[m]
    BY <2>1, Tables
  <2> QED
    BY <2>1, <2>2, <1>1
<1>9. ASSUME NEW m \in Ids, Arrive(m) \/ Flip(m) PROVE VersionsOK'
  <2>1. UNCHANGED <<records, told, run>> /\ \A n \in Ids : archive[n] <= archive'[n]
    BY <1>9 DEF Arrive, Flip, TypeOK
  <2> QED
    BY <2>1, <1>1
<1> QED
  <2>1. ASSUME UNCHANGED vars PROVE VersionsOK'
    BY <2>1 DEF vars, source, VersionsOK
  <2> QED
    BY <1>2, <1>3, <1>4, <1>5, <1>6, <1>7, <1>8, <1>9, <2>1 DEF Next, Step

\* A stamp is put behind an episode, and a new version has none.
LEMMA StampStep ==
    ASSUME TypeOK, TypeOK', LockOK, VersionsOK, StampMeansTold, [Next]_vars
    PROVE  StampMeansTold'
<1>1. ASSUME UNCHANGED <<records, told>> PROVE StampMeansTold'
  BY <1>1 DEF StampMeansTold
<1>2. ASSUME NEW r \in Runners, WalkEnds(r) PROVE StampMeansTold'
  <2>1. \A m \in Ids : records'[m] = records[m] \/ ~records'[m].stamped
    BY <1>2, CommitEffect
  <2> QED
    BY <1>2, <2>1 DEF WalkEnds, StampMeansTold
<1>3. ASSUME NEW r \in Runners, Distil(r) PROVE StampMeansTold'
  <2>0. run[r].pc = "distil" /\ run[r].todo # {}
    BY <1>3, Lands
  <2>1. PICK m \in Ids : /\ records' = records /\ ~records[m].stamped
                         /\ \A n \in Ids, v \in 1..2 :
                               <<n, v>> # <<m, records[m].v>> => told'[n][v] = told[n][v]
    BY <1>3, <2>0, PassEffect
  <2> SUFFICES ASSUME NEW n \in Ids, records'[n].stamped PROVE told'[n][records'[n].v] > 0
    BY DEF StampMeansTold
  <2>2. n # m /\ told[n][records[n].v] > 0
    BY <2>1 DEF StampMeansTold
  <2>3. CASE records[n].v \in 1..2
    BY <2>1, <2>2, <2>3
  <2>4. CASE records[n].v = 0
    BY <2>1, <2>4 DEF VersionsOK
  <2> QED
    BY <2>3, <2>4, Tables
<1>4. ASSUME NEW r \in Runners, Stamp(r) PROVE StampMeansTold'
  <2>0. run[r].pc = "stamp" /\ run[r].todo # {}
    BY <1>4, Lands
  <2> DEFINE m == First(r)
  <2>1. /\ told' = told /\ m \in Ids
        /\ \A n \in Ids : records'[n].v = records[n].v
        /\ \A n \in Ids \ {m} : records'[n] = records[n]
    BY <1>4, <2>0, PassEffect
  <2>2. told[m][records[m].v] > 0
    BY <2>0 DEF LockOK
  <2> HIDE DEF m
  <2> QED
    BY <2>1, <2>2 DEF StampMeansTold
<1> QED
  <2>1. ASSUME NEW m \in Ids, Arrive(m) \/ Flip(m) PROVE StampMeansTold'
    BY <2>1, <1>1 DEF Arrive, Flip
  <2>2. ASSUME UNCHANGED vars PROVE StampMeansTold'
    BY <2>2, <1>1 DEF vars
  <2>3. ASSUME NEW r \in Runners, Select(r) \/ DistilFails(r) PROVE StampMeansTold'
    BY <2>3, <1>1 DEF Select, DistilFails
  <2>4. ASSUME Crash PROVE StampMeansTold'
    BY <2>4, <1>1 DEF Crash
  <2>5. ASSUME NEW r \in Runners,
             \/ Begin(r) \/ WalkOn(r) \/ WalkFails(r) \/ Embedded(r) \/ EmbedFails(r)
             \/ Skip(r) \/ PassOver(r) \/ Gate(r) \/ Again(r)
        PROVE  StampMeansTold'
    BY <2>5, <1>1, Moves
  <2> QED
    BY <1>2, <1>3, <1>4, <2>1, <2>2, <2>3, <2>4, <2>5 DEF Next, Step

-----------------------------------------------------------------------------
(***************************************************************************)
(* The walk: nothing that counts lies between what it has met and its page.*)
(***************************************************************************)
\* The mail service adds and deletes.
LEMMA ArchiveStep ==
    ASSUME TypeOK, NEW x \in Ids, Arrive(x) \/ Flip(x)
    PROVE  /\ Archived \subseteq Archived' /\ late \subseteq late' /\ Archived' \subseteq Archived \cup {x}
           /\ \A n \in Archived : x \in Archived' \ Archived /\ x < n => x \in late'
           /\ UNCHANGED <<state, records, told, run, faults>>
<1>1. CASE Arrive(x)
  <2>1. archive' = [archive EXCEPT ![x] = 1] /\ archive \in [Ids -> 0..2]
    BY <1>1 DEF Arrive, TypeOK
  <2>2. \A m \in Ids : archive'[m] = IF m = x THEN 1 ELSE archive[m]
    BY <2>1
  <2>3. Archived' = Archived \cup {x}
    BY <2>2 DEF Archived
  <2>4. \A n \in Archived : x < n => n > x
    BY ArchiveFinite DEF Archived
  <2> QED
    BY <1>1, <2>3, <2>4 DEF Arrive
<1>2. CASE Flip(x)
  <2>1. archive' = [archive EXCEPT ![x] = 2] /\ archive \in [Ids -> 0..2] /\ archive[x] = 1
    BY <1>2 DEF Flip, TypeOK
  <2>2. \A m \in Ids : archive'[m] = IF m = x THEN 2 ELSE archive[m]
    BY <2>1
  <2>3. Archived' = Archived
    BY <2>1, <2>2 DEF Archived
  <2> QED
    BY <1>2, <2>3 DEF Flip
<1> QED
  BY <1>1, <1>2

\* Who is met between an old message and a page was met there before.
LEMMA StillBetween ==
    ASSUME TypeOK, NEW x \in Ids, Arrive(x) \/ Flip(x), NEW top \in Archived \cup {0},
           NEW m \in Archived' \ late', m <= top
    PROVE  m \in Archived \ late
<1>1. m \in Archived \cup {x} /\ m \notin late
  BY ArchiveStep
<1>2. m \in Nat /\ m # 0 /\ \A n \in Archived : n \in Nat /\ n # 0
  BY ArchiveFinite DEF Archived
<1>3. top \in Archived
  BY <1>2
<1>4. ASSUME m = x, m \notin Archived PROVE FALSE
  <2>1. m # top
    BY <1>3, <1>4
  <2>2. m < top
    BY <1>2, <1>3, <2>1
  <2> QED
    BY <1>3, <1>4, <2>2, ArchiveStep
<1> QED
  BY <1>1, <1>4

LEMMA BeforeShrinks ==
    ASSUME Archived \subseteq Archived', NEW m, NEW page \in Nat, Newer(m)' < (page - 1) * PageSize
    PROVE  Newer(m) < (page - 1) * PageSize
<1>1. Newer(m) <= Newer(m)' /\ Newer(m) \in Nat
  BY NewerGrows, NewerType
<1>2. Newer(m)' \in Nat
  <2>1. {n \in Archived' : n > m} \subseteq Ids
    BY DEF Archived
  <2> QED
    BY <2>1, ArchiveFinite DEF Newer
<1>3. (page - 1) * PageSize \in Int
  <2>1. PageSize \in Nat
    BY SizesAssumption
  <2> QED
    BY <2>1
<1> QED
  BY <1>1, <1>2, <1>3

LEMMA ArchiveKeeps ==
    ASSUME TypeOK, WalkOK, ResumeOK, MarkerSkipsNothing, NEW x \in Ids, Arrive(x) \/ Flip(x)
    PROVE  WalkOK' /\ ResumeOK' /\ MarkerSkipsNothing'
<1>1. Archived \subseteq Archived' /\ UNCHANGED <<state, records, told, run, faults>>
  BY ArchiveStep
<1>2. MarkerSkipsNothing'
  <2> SUFFICES ASSUME NEW m \in Archived' \ late', m <= state.marker PROVE records[m].v # 0
    BY <1>1 DEF MarkerSkipsNothing
  <2>1. m \in Archived \ late
    BY StillBetween DEF ResumeOK
  <2> QED
    BY <2>1 DEF MarkerSkipsNothing
<1>3. ResumeOK'
  <2>1. ASSUME NEW m \in Archived' \ late', m <= state.candidate,
               Newer(m)' < (state.page - 1) * PageSize
        PROVE  records[m].v # 0
    <3>1. m \in Archived \ late
      BY <2>1, StillBetween DEF ResumeOK
    <3>2. Newer(m) < (state.page - 1) * PageSize
      BY <1>1, <2>1, BeforeShrinks DEF TypeOK
    <3> QED
      BY <2>1, <3>1, <3>2 DEF ResumeOK, Before
  <2> QED
    BY <1>1, <2>1 DEF ResumeOK, Before
<1>4. WalkOK'
  <2>1. ASSUME NEW r \in Runners, run[r].pc = "walk", NEW m \in Archived' \ late',
               m <= run[r].newest, Newer(m)' < (run[r].page - 1) * PageSize
        PROVE  run[r].staged[m] # 0 \/ records[m].v # 0
    <3>1. m \in Archived \ late
      BY <2>1, StillBetween DEF WalkOK
    <3>2. run[r].page \in Nat
      BY RunTyped DEF RunType
    <3>3. Newer(m) < (run[r].page - 1) * PageSize
      BY <1>1, <2>1, <3>2, BeforeShrinks
    <3> QED
      BY <2>1, <3>1, <3>3 DEF WalkOK, Before
  <2>2. ASSUME NEW r \in Runners, run[r].pc = "walk"
        PROVE  run[r].page # 0 /\ run[r].marker = state.marker /\ run[r].newest \in Archived' \cup {0}
    BY <1>1, <2>2 DEF WalkOK
  <2> QED
    BY <1>1, <2>1, <2>2 DEF WalkOK, Before
<1> QED
  BY <1>2, <1>3, <1>4

\* One more page: what lies above the next one and below the newest met.
LEMMA ReadOn ==
    ASSUME TypeOK, WalkOK, NEW r \in Runners, run[r].pc = "walk",
           NEW m \in Archived \ late, m <= Newest(r), Newer(m) < run[r].page * PageSize
    PROVE  Staged(r)[m] # 0 \/ records[m].v # 0
<1>1. run[r].page \in Nat /\ run[r].newest \in Archived \cup {0}
  BY RunTyped DEF RunType, WalkOK
<1>2. m \in Ids /\ m \in Nat /\ archive[m] # 0 /\ \A n \in Archived : n \in Ids /\ n \in Nat
  BY ArchiveFinite DEF Archived
<1>3. Newest(r) \in Items(r) \cup {run[r].newest} /\ Items(r) \subseteq Archived
  BY <1>1, NewestType
<1> DEFINE from == (run[r].page - 1) * PageSize
<1>4. from \in Int
  <2>1. PageSize \in Nat
    BY SizesAssumption
  <2> QED
    BY <1>1, <2>1
<1>5. CASE m \in Items(r)
  BY <1>2, <1>5, StagedValue
<1>6. CASE m \notin Items(r)
  <2>1. Newer(m) < from
    BY <1>4, <1>6, NewerType DEF Items, Page
  <2>2. m <= run[r].newest
    <3>1. CASE Newest(r) \in Items(r)
      <4>1. Newer(Newest(r)) <= Newer(m) /\ Newer(Newest(r)) >= from
        BY <1>2, <1>3, <3>1, NewerAntitone DEF Items, Page
      <4> QED
        BY <1>4, <2>1, <4>1, NewerType
    <3>2. CASE Newest(r) = run[r].newest
      BY <3>2
    <3> QED
      BY <1>3, <3>1, <3>2
  <2>3. run[r].staged[m] # 0 \/ records[m].v # 0
    BY <2>1, <2>2 DEF WalkOK, Before
  <2> QED
    BY <1>2, <1>6, <2>3, StagedValue
<1> QED
  BY <1>5, <1>6

\* A walk that is over has met all that lies below the newest.
LEMMA ReadAll ==
    ASSUME TypeOK, WalkOK, MarkerSkipsNothing, NEW r \in Runners, run[r].pc = "walk",
           Completed(r), NEW m \in Archived \ late, m <= Newest(r)
    PROVE  Staged(r)[m] # 0 \/ records[m].v # 0
<1>1. /\ run[r].page \in Nat \ {0} /\ run[r].newest \in Archived \cup {0}
      /\ run[r].marker = state.marker /\ run[r].marker \in Ids \cup {0}
  BY RunTyped DEF RunType, WalkOK
<1>2. m \in Ids /\ m \in Nat /\ \A n \in Archived : n \in Ids /\ n \in Nat
  BY ArchiveFinite DEF Archived
<1>3. /\ run[r].page * PageSize = (run[r].page - 1) * PageSize + PageSize
      /\ run[r].page * PageSize \in Nat /\ (run[r].page - 1) * PageSize \in Int /\ PageSize \in Nat
  <2>1. PageSize \in Nat
    BY SizesAssumption
  <2> QED
    BY <1>1, <2>1, NextPageBegins
<1>4. Newer(m) \in Nat
  BY NewerType
<1>5. CASE Newer(m) < run[r].page * PageSize
  BY <1>5, ReadOn
<1>6. CASE ~(Newer(m) < run[r].page * PageSize)
  <2>1. Items(r) # {}
    <3> SUFFICES ASSUME Items(r) = {} PROVE FALSE
      OBVIOUS
    <3>1. Newer(m) < (run[r].page - 1) * PageSize
      BY <1>1, PagesAreContiguous DEF Items
    <3> QED
      BY <1>3, <1>4, <1>6, <3>1
  <2>2. PICK n \in Items(r) : n < run[r].marker
    BY <2>1 DEF Completed
  <2>3. n \in Archived /\ Newer(n) < run[r].page * PageSize
    BY DEF Items, Page
  <2>4. m < n
    <3> SUFFICES ASSUME n <= m PROVE FALSE
      BY <1>2, <2>3
    <3>1. Newer(m) <= Newer(n) /\ Newer(n) \in Nat
      BY <1>2, <2>3, NewerAntitone, NewerType
    <3> QED
      BY <1>3, <1>4, <1>6, <2>3, <3>1
  <2>5. m <= state.marker
    <3>1. run[r].marker \in Nat
      <4>1. \A k \in Ids : k \in Nat
        BY ArchiveFinite
      <4> QED
        BY <1>1, <4>1
    <3> QED
      BY <1>1, <1>2, <2>2, <2>3, <2>4, <3>1
  <2> QED
    BY <2>5 DEF MarkerSkipsNothing
<1> QED
  BY <1>5, <1>6

\* Steps that leave the archive, the watermark and the table's records.
LEMMA WalkQuiet ==
    ASSUME WalkOK, ResumeOK, MarkerSkipsNothing, UNCHANGED <<source, state>>,
           \A m \in Ids : records'[m].v = records[m].v,
           \A r \in Runners : run'[r].pc = "walk" => run'[r] = run[r]
    PROVE  WalkOK' /\ ResumeOK' /\ MarkerSkipsNothing'
<1>1. Archived' = Archived /\ late' = late /\ \A m : Newer(m)' = Newer(m)
  BY DEF Archived, Newer, source
<1>2. Archived \subseteq Ids
  BY DEF Archived
<1>3. MarkerSkipsNothing'
  BY <1>1, <1>2 DEF MarkerSkipsNothing
<1>4. ResumeOK'
  BY <1>1, <1>2 DEF ResumeOK, Before
<1>5. WalkOK'
  BY <1>1, <1>2 DEF WalkOK, Before
<1> QED
  BY <1>3, <1>4, <1>5

\* Nothing lies above the first page.
LEMMA FirstPage ==
    ASSUME NEW m
    PROVE  ~ (Newer(m) < (1 - 1) * PageSize)
<1>1. PageSize \in Nat /\ Newer(m) \in Nat
  BY SizesAssumption, NewerType
<1> QED
  BY <1>1

LEMMA BeginWalks ==
    ASSUME TypeOK, WalkOK, ResumeOK, MarkerSkipsNothing, NEW r \in Runners, Begin(r)
    PROVE  WalkOK' /\ ResumeOK' /\ MarkerSkipsNothing'
<1>0. run \in [Runners -> RunType]
  BY RunTyped
<1>1. /\ UNCHANGED <<source, state, records>> /\ \A q \in Runners \ {r} : run'[q] = run[q]
      /\ run'[r].marker = state.marker /\ run'[r].newest = state.candidate
      /\ run'[r].page = IF state.marker = 0 THEN state.page ELSE 1
  BY <1>0 DEF Begin, Becomes, Idle
<1>2. Archived' = Archived /\ late' = late /\ \A m : Newer(m)' = Newer(m)
  BY <1>1 DEF Archived, Newer, source
<1>3. ResumeOK' /\ MarkerSkipsNothing'
  BY <1>1, <1>2 DEF ResumeOK, MarkerSkipsNothing, Before
<1>4. ASSUME NEW m \in Archived \ late, m <= state.candidate, NEW page,
             page = (IF state.marker = 0 THEN state.page ELSE 1),
             Newer(m) < (page - 1) * PageSize
      PROVE  records[m].v # 0
  <2>1. CASE state.marker = 0
    BY <2>1, <1>4 DEF ResumeOK, Before
  <2>2. CASE state.marker # 0
    BY <2>2, <1>4, FirstPage
  <2> QED
    BY <2>1, <2>2
<1>5. run'[r].page # 0
  BY <1>1 DEF TypeOK
<1>6. WalkOK'
  <2>1. ASSUME NEW q \in Runners, run'[q].pc = "walk"
        PROVE  /\ run'[q].page # 0 /\ run'[q].marker = state.marker
               /\ run'[q].newest \in Archived \cup {0}
               /\ \A m \in Archived \ late :
                     m <= run'[q].newest /\ Newer(m) < (run'[q].page - 1) * PageSize =>
                         run'[q].staged[m] # 0 \/ records[m].v # 0
    <3>1. CASE q = r
      BY <3>1, <1>1, <1>4, <1>5 DEF ResumeOK
    <3>2. CASE q # r
      <4>1. run'[q] = run[q]
        BY <3>2, <1>1
      <4> QED
        BY <4>1, <2>1 DEF WalkOK, Before
    <3> QED
      BY <3>1, <3>2
  <2> QED
    BY <1>1, <1>2, <2>1 DEF WalkOK, Before
<1> QED
  BY <1>3, <1>6

LEMMA WalkGoesOn ==
    ASSUME TypeOK, WalkOK, ResumeOK, MarkerSkipsNothing, NEW r \in Runners, WalkOn(r)
    PROVE  WalkOK' /\ ResumeOK' /\ MarkerSkipsNothing'
<1>0. run \in [Runners -> RunType] /\ run[r] \in RunType
  BY RunTyped
<1>1. /\ run[r].pc = "walk"
      /\ UNCHANGED <<source, state, records>> /\ \A q \in Runners \ {r} : run'[q] = run[q]
      /\ run'[r].marker = run[r].marker /\ run'[r].newest = Newest(r)
      /\ run'[r].page = run[r].page + 1 /\ run'[r].staged = Staged(r)
  BY <1>0 DEF WalkOn, Becomes, RunType
<1>2. Archived' = Archived /\ late' = late /\ \A m : Newer(m)' = Newer(m)
  BY <1>1 DEF Archived, Newer, source
<1>3. ResumeOK' /\ MarkerSkipsNothing'
  BY <1>1, <1>2 DEF ResumeOK, MarkerSkipsNothing, Before
<1>4. /\ run[r].newest \in Archived \cup {0} /\ run[r].marker = state.marker
      /\ run[r].page \in Nat
  BY <1>0, <1>1 DEF WalkOK, RunType
<1>5. Newest(r) \in Archived \cup {0}
  BY <1>4, NewestType
<1>6. ASSUME NEW m \in Archived \ late, m <= Newest(r), Newer(m) < (run'[r].page - 1) * PageSize
      PROVE  Staged(r)[m] # 0 \/ records[m].v # 0
  <2>1. run'[r].page - 1 = run[r].page
    BY <1>1, <1>4
  <2> QED
    BY <1>1, <1>6, <2>1, ReadOn
<1>7. WalkOK'
  <2>1. ASSUME NEW q \in Runners, run'[q].pc = "walk"
        PROVE  /\ run'[q].page # 0 /\ run'[q].marker = state.marker
               /\ run'[q].newest \in Archived \cup {0}
               /\ \A m \in Archived \ late :
                     m <= run'[q].newest /\ Newer(m) < (run'[q].page - 1) * PageSize =>
                         run'[q].staged[m] # 0 \/ records[m].v # 0
    <3>1. CASE q = r
      BY <3>1, <1>1, <1>4, <1>5, <1>6
    <3>2. CASE q # r
      <4>1. run'[q] = run[q]
        BY <3>2, <1>1
      <4> QED
        BY <4>1, <2>1 DEF WalkOK, Before
    <3> QED
      BY <3>1, <3>2
  <2> QED
    BY <1>1, <1>2, <2>1 DEF WalkOK, Before
<1> QED
  BY <1>3, <1>7

LEMMA WalkIsOver ==
    ASSUME TypeOK, LockOK, VersionsOK, WalkOK, ResumeOK, MarkerSkipsNothing,
           NEW r \in Runners, WalkEnds(r)
    PROVE  WalkOK' /\ ResumeOK' /\ MarkerSkipsNothing'
<1>0. run \in [Runners -> RunType] /\ run[r] \in RunType
  BY RunTyped
<1>1. /\ run[r].pc = "walk" /\ run'[r].pc = "embed"
      /\ UNCHANGED source /\ \A q \in Runners \ {r} : run'[q] = run[q]
      /\ state' = Watermark(r)
  BY Lands DEF WalkEnds
<1>2. Archived' = Archived /\ late' = late /\ \A m : Newer(m)' = Newer(m)
  BY <1>1 DEF Archived, Newer, source
<1>3. WalkOK'
  <2>1. \A q \in Runners : run'[q].pc # "walk"
    BY <1>1, Alone DEF Waiting
  <2> QED
    BY <2>1 DEF WalkOK
<1>4. /\ run[r].newest \in Archived \cup {0} /\ run[r].marker = state.marker
      /\ run[r].page \in Nat \ {0}
  BY <1>0, <1>1 DEF WalkOK, RunType
<1>5. Newest(r) \in Archived \cup {0}
  BY <1>4, NewestType
<1>6. \A m \in Ids : /\ records[m].v # 0 => records'[m].v # 0
                     /\ Staged(r)[m] # 0 => records'[m].v # 0
  <2> TAKE m \in Ids
  <2>1. records[m].v <= records'[m].v /\ (Staged(r)[m] # 0 => records'[m].v # 0)
    BY CommitEffect
  <2>2. records'[m] = records[m] \/ records[m].v < records'[m].v
    BY CommitEffect, Tables
  <2>3. records[m].v \in Nat
    BY Tables
  <2>4. records[m].v # 0 => records'[m].v # 0
    <3> SUFFICES ASSUME records[m].v # 0, records'[m].v = 0 PROVE FALSE
      OBVIOUS
    <3> QED
      BY <2>1, <2>3
  <2> QED
    BY <2>1, <2>4
<1>7. \A m \in Archived : m \in Ids /\ m \in Nat /\ m # 0
  BY ArchiveFinite DEF Archived
<1>8. CASE Completed(r)
  <2>1. state' = [marker |-> IF Newest(r) = 0 THEN run[r].marker ELSE Newest(r),
                  page |-> 1, candidate |-> 0]
    BY <1>1, <1>8 DEF Watermark
  <2>2. state'.page = 1 /\ state'.candidate = 0
        /\ state'.marker = IF Newest(r) = 0 THEN state.marker ELSE Newest(r)
    BY <2>1, <1>4
  <2>3. ASSUME NEW m \in Archived \ late, m <= state'.marker PROVE records'[m].v # 0
    <3>1. CASE Newest(r) = 0
      BY <3>1, <2>2, <2>3, <1>6, <1>7 DEF MarkerSkipsNothing
    <3>2. CASE Newest(r) # 0
      BY <3>2, <2>2, <2>3, <1>1, <1>6, <1>7, <1>8, ReadAll
    <3> QED
      BY <3>1, <3>2
  <2>4. MarkerSkipsNothing'
    BY <1>2, <2>3 DEF MarkerSkipsNothing
  <2>5. ResumeOK'
    <3>1. \A m \in Archived : ~(m <= 0)
      BY <1>7
    <3>2. state'.marker \in Archived \cup {0}
      BY <2>2, <1>5 DEF ResumeOK
    <3> QED
      BY <1>2, <2>2, <3>1, <3>2 DEF ResumeOK
  <2> QED
    BY <1>3, <2>4, <2>5
<1>9. CASE ~Completed(r)
  <2>1. state' = [marker |-> run[r].marker, candidate |-> Newest(r),
                  page |-> IF run[r].marker = 0 THEN run[r].page + 1 ELSE 1]
    BY <1>1, <1>9 DEF Watermark
  <2>2. /\ state'.marker = state.marker /\ state'.candidate = Newest(r)
        /\ state'.page = IF state.marker = 0 THEN run[r].page + 1 ELSE 1
    BY <2>1, <1>4
  <2>3. MarkerSkipsNothing'
    BY <1>2, <1>6, <1>7, <2>2 DEF MarkerSkipsNothing
  <2>4. ASSUME NEW m \in Archived \ late, m <= Newest(r), Newer(m) < (state'.page - 1) * PageSize
        PROVE  records'[m].v # 0
    <3>1. CASE state.marker = 0
      <4>1. state'.page - 1 = run[r].page
        BY <2>2, <3>1, <1>4
      <4>2. Staged(r)[m] # 0 \/ records[m].v # 0
        BY <1>1, <2>4, <4>1, ReadOn
      <4> QED
        BY <1>6, <1>7, <4>2
    <3>2. CASE state.marker # 0
      BY <2>2, <2>4, <3>2, FirstPage
    <3> QED
      BY <3>1, <3>2
  <2>5. ResumeOK'
    BY <1>2, <1>5, <2>2, <2>4 DEF ResumeOK, Before
  <2> QED
    BY <1>3, <2>3, <2>5
<1> QED
  BY <1>8, <1>9

LEMMA WalkStep ==
    ASSUME TypeOK, LockOK, VersionsOK, WalkOK, ResumeOK, MarkerSkipsNothing, [Next]_vars
    PROVE  WalkOK' /\ ResumeOK' /\ MarkerSkipsNothing'
<1>0. run \in [Runners -> RunType]
  BY RunTyped
<1>1. ASSUME NEW r \in Runners,
             \/ WalkFails(r) \/ Embedded(r) \/ EmbedFails(r)
             \/ Skip(r) \/ PassOver(r) \/ Gate(r) \/ Again(r)
      PROVE  WalkOK' /\ ResumeOK' /\ MarkerSkipsNothing'
  <2>1. /\ \A q \in Runners \ {r} : run'[q] = run[q]
        /\ UNCHANGED <<source, records>>
    BY <1>1, Moves
  <2>2. run[r] \in RunType
    BY <1>0
  <2>3. UNCHANGED state /\ run'[r].pc # "walk"
    <3>1. CASE WalkFails(r)
      BY <3>1, <1>0 DEF WalkFails, Becomes, Idle
    <3>2. CASE Embedded(r)
      BY <3>2, <1>0, <2>2 DEF Embedded, Becomes, RunType
    <3>3. CASE EmbedFails(r)
      BY <3>3, <1>0 DEF EmbedFails, Becomes, Idle
    <3>4. CASE Skip(r)
      BY <3>4, <1>0 DEF Skip, Becomes, Over, Idle
    <3>5. CASE PassOver(r)
      BY <3>5, <1>0 DEF PassOver, Becomes, Idle
    <3>6. CASE Gate(r)
      BY <3>6, <1>0 DEF Gate, Becomes, Idle
    <3>7. CASE Again(r)
      BY <3>7, <1>0, <2>2 DEF Again, Becomes, RunType
    <3> QED
      BY <1>1, <3>1, <3>2, <3>3, <3>4, <3>5, <3>6, <3>7
  <2> QED
    BY <2>1, <2>3, WalkQuiet
<1>2. ASSUME NEW r \in Runners, Select(r) \/ DistilFails(r) \/ Distil(r) \/ Stamp(r)
      PROVE  WalkOK' /\ ResumeOK' /\ MarkerSkipsNothing'
  <2>1. /\ run'[r].pc # "walk" /\ \A q \in Runners \ {r} : run'[q] = run[q]
    BY <1>2, Lands
  <2>2. UNCHANGED <<source, state>> /\ \A m \in Ids : records'[m].v = records[m].v
    <3>1. CASE Select(r) \/ DistilFails(r) \/ Distil(r)
      BY <3>1 DEF Select, DistilFails, Distil
    <3>2. CASE Stamp(r)
      <4>1. run[r].pc = "stamp" /\ run[r].todo # {}
        BY <3>2, Lands
      <4> QED
        BY <3>2, <4>1, PassEffect
    <3> QED
      BY <1>2, <3>1, <3>2
  <2> QED
    BY <2>1, <2>2, WalkQuiet
<1>3. ASSUME Crash \/ UNCHANGED vars PROVE WalkOK' /\ ResumeOK' /\ MarkerSkipsNothing'
  <2>1. UNCHANGED <<source, state, records>>
        /\ \A r \in Runners : run'[r].pc = "walk" => run'[r] = run[r]
    BY <1>3 DEF Crash, Idle, vars
  <2> QED
    BY <2>1, WalkQuiet
<1> QED
  BY <1>1, <1>2, <1>3, ArchiveKeeps, BeginWalks, WalkGoesOn, WalkIsOver DEF Next, Step

-----------------------------------------------------------------------------
(***************************************************************************)
(* What was paid for, and what may be paid for again.                      *)
(***************************************************************************)
LEMMA RepeatsAre ==
    \A e : e \in Repeats <=>
        \E m \in Ids, v \in 1..2 : \E n \in 2..told[m][v] : e = <<m, v, n>>
<1> TAKE e
<1> DEFINE some(m, v) == {m} \X {v} \X (2..told[m][v])
<1>1. \A m, v : e \in some(m, v) <=> \E n \in 2..told[m][v] : e = <<m, v, n>>
  <2> TAKE m, v
  <2>1. ASSUME NEW n \in 2..told[m][v], e = <<m, v, n>> PROVE e \in some(m, v)
    BY <2>1
  <2>2. ASSUME e \in some(m, v) PROVE \E n \in 2..told[m][v] : e = <<m, v, n>>
    BY <2>2
  <2> QED
    BY <2>1, <2>2
<1>2. Repeats = UNION {some(m, v) : m \in Ids, v \in 1..2}
  BY DEF Repeats
<1> HIDE DEF some
<1>3. e \in Repeats <=> \E m \in Ids, v \in 1..2 : e \in some(m, v)
  BY <1>2
<1> QED
  BY <1>1, <1>3

LEMMA DueAre ==
    \A e : e \in Due <=>
        \E m \in Untrusted : e = <<m, records[m].v, told[m][records[m].v] + 1>>
  BY DEF Due

LEMMA PaidKept ==
    ASSUME TypeOK, PaidOK, (Repeats \cup Due)' \subseteq Repeats \cup Due, faults' \in {faults, faults + 1}
    PROVE  PaidOK'
<1>1. /\ IsFiniteSet((Repeats \cup Due)')
      /\ Cardinality((Repeats \cup Due)') <= Cardinality(Repeats \cup Due)
      /\ Cardinality((Repeats \cup Due)') \in Nat /\ Cardinality(Repeats \cup Due) \in Nat
  BY FS_Subset, FS_CardinalityType DEF PaidOK
<1>2. faults \in Nat /\ faults' \in Nat
  BY DEF TypeOK
<1> QED
  BY <1>1, <1>2 DEF PaidOK

LEMMA PaidQuiet ==
    ASSUME TypeOK, PaidOK, UNCHANGED <<records, told>>, faults' \in {faults, faults + 1},
           \A r \in Runners : run[r].pc = "stamp" => run'[r] = run[r]
    PROVE  PaidOK'
<1>1. Repeats' = Repeats
  BY DEF Repeats
<1>2. \A m : InStamp(m) => InStamp(m)'
  BY DEF InStamp, First
<1>3. Untrusted' \subseteq Untrusted
  BY <1>2 DEF Untrusted
<1>4. Due' \subseteq Due
  BY <1>3 DEF Due
<1> QED
  BY <1>1, <1>4, PaidKept

LEMMA DistilPaid ==
    ASSUME TypeOK, LockOK, PaidOK, NEW r \in Runners, Distil(r)
    PROVE  PaidOK'
<1>0. run[r].pc = "distil" /\ run[r].todo # {}
  BY Lands
<1>1. PICK m \in Ids : m = First(r)
  BY <1>0, FirstIs
<1>2. /\ records[m].v \in 1..2 /\ ~records[m].stamped
      /\ records' = records /\ faults' = faults
      /\ told'[m][records[m].v] = told[m][records[m].v] + 1
      /\ \A n \in Ids, v \in 1..2 : <<n, v>> # <<m, records[m].v>> => told'[n][v] = told[n][v]
  BY <1>0, <1>1, PassEffect
<1>3. \A n \in Ids : ~InStamp(n)
  <2>1. \A q \in Runners : run[q].pc # "stamp"
    BY <1>0, Alone DEF Waiting
  <2> QED
    BY <2>1 DEF InStamp
<1>4. InStamp(m)'
  <2>1. run'[r].pc = "stamp" /\ run'[r].todo = run[r].todo
    BY Lands
  <2>2. First(r)' = First(r)
    BY <2>1 DEF First
  <2> QED
    BY <1>1, <2>1, <2>2 DEF InStamp
<1> DEFINE w == records[m].v
           t == told[m][w]
<1>5. w \in 1..2 /\ t \in Nat /\ told'[m][w] = t + 1 /\ records'[m].v = w
  BY <1>2, Tables
<1> HIDE DEF w, t
<1>6. ASSUME NEW e \in Repeats' PROVE e \in Repeats \cup Due
  <2>1. PICK n \in Ids, v \in 1..2 : \E k \in 2..told'[n][v] : e = <<n, v, k>>
    BY DEF Repeats
  <2>2. PICK k \in 2..told'[n][v] : e = <<n, v, k>>
    BY <2>1
  <2>3. CASE <<n, v>> # <<m, w>>
    <3>1. told'[n][v] = told[n][v]
      BY <2>3, <1>2 DEF w
    <3> QED
      BY <2>2, <3>1, RepeatsAre
  <2>4. CASE <<n, v>> = <<m, w>>
    <3>1. n = m /\ v = w /\ k \in 2..(t + 1)
      BY <2>4, <1>5
    <3>2. CASE k \in 2..t
      BY <2>2, <3>1, <3>2, RepeatsAre DEF t
    <3>3. CASE k \notin 2..t
      <4>1. k = t + 1 /\ t > 0
        BY <1>5, <3>1, <3>3
      <4>2. m \in Untrusted
        BY <1>2, <1>3, <1>5, <4>1 DEF Untrusted, t, w
      <4> QED
        BY <2>2, <3>1, <4>1, <4>2, DueAre DEF t, w
    <3> QED
      BY <3>2, <3>3
  <2> QED
    BY <2>3, <2>4
<1>7. ASSUME NEW e \in Due' PROVE e \in Due
  <2>1. PICK n \in Untrusted' : e = <<n, records'[n].v, told'[n][records'[n].v] + 1>>
    BY DEF Due
  <2>2. n \in Ids /\ n # m /\ records'[n] = records[n] /\ records[n].v # 0 /\ ~records[n].stamped
        /\ told'[n][records[n].v] > 0
    BY <1>2, <1>4, <2>1 DEF Untrusted
  <2>3. records[n].v \in 1..2
    BY <2>2, Tables
  <2>4. told'[n][records[n].v] = told[n][records[n].v]
    BY <1>2, <2>2, <2>3
  <2>5. n \in Untrusted
    BY <1>3, <2>2, <2>4 DEF Untrusted
  <2> QED
    BY <2>1, <2>2, <2>4, <2>5, DueAre
<1>8. (Repeats \cup Due)' \subseteq Repeats \cup Due
  BY <1>6, <1>7
<1> QED
  BY <1>2, <1>8, PaidKept

LEMMA StampPaid ==
    ASSUME TypeOK, LockOK, PaidOK, NEW r \in Runners, Stamp(r)
    PROVE  PaidOK'
<1>0. run[r].pc = "stamp" /\ run[r].todo # {}
  BY Lands
<1>1. PICK m \in Ids : m = First(r)
  BY <1>0, FirstIs
<1>2. /\ told' = told /\ faults' = faults /\ records'[m].stamped
      /\ \A n \in Ids \ {m} : records'[n] = records[n]
  BY <1>0, <1>1, PassEffect
<1>3. \A n \in Ids : InStamp(n) => n = m
  <2>1. \A q \in Runners : run[q].pc = "stamp" => q = r
    BY <1>0, Alone DEF Waiting
  <2> QED
    BY <1>1, <2>1 DEF InStamp
<1>4. Repeats' = Repeats
  BY <1>2 DEF Repeats
<1>5. \A n \in Untrusted' : n \in Untrusted /\ records'[n] = records[n]
  <2> SUFFICES ASSUME NEW n \in Untrusted' PROVE n \in Untrusted /\ records'[n] = records[n]
    OBVIOUS
  <2>1. n \in Ids /\ n # m
    BY <1>2 DEF Untrusted
  <2> QED
    BY <1>2, <1>3, <2>1 DEF Untrusted
<1>6. Due' \subseteq Due
  BY <1>2, <1>5 DEF Due
<1> QED
  BY <1>2, <1>4, <1>6, PaidKept

LEMMA CommitPaid ==
    ASSUME TypeOK, LockOK, VersionsOK, PaidOK, TypeOK', NEW r \in Runners, WalkEnds(r)
    PROVE  PaidOK'
<1>0. run[r].pc = "walk"
  BY Lands
<1>1. told' = told
  BY DEF WalkEnds
<1>2. \A n : ~InStamp(n)
  BY <1>0, Alone DEF InStamp, Waiting
<1>3. Repeats' = Repeats
  BY <1>1 DEF Repeats
<1>4. \A n \in Untrusted' : n \in Untrusted /\ records'[n] = records[n]
  <2> SUFFICES ASSUME NEW n \in Untrusted' PROVE n \in Untrusted /\ records'[n] = records[n]
    OBVIOUS
  <2>1. n \in Ids /\ records'[n].v # 0 /\ ~records'[n].stamped /\ told[n][records'[n].v] > 0
    BY <1>1 DEF Untrusted
  <2>2. records'[n] = records[n]
    <3> SUFFICES ASSUME records'[n] # records[n] PROVE FALSE
      OBVIOUS
    <3>1. records[n].v < records'[n].v
      BY <2>1, CommitEffect
    <3>2. records'[n].v \in 1..2
      <4>1. records'[n].v \in 0..2
        BY <2>1 DEF TypeOK
      <4> QED
        BY <2>1, <4>1
    <3>3. told[n][records'[n].v] = 0
      BY <2>1, <3>1, <3>2 DEF VersionsOK
    <3> QED
      BY <2>1, <3>3
  <2> QED
    BY <1>2, <2>1, <2>2 DEF Untrusted
<1>5. Due' \subseteq Due
  BY <1>1, <1>4 DEF Due
<1>6. faults' = faults
  BY DEF WalkEnds
<1> QED
  BY <1>3, <1>5, <1>6, PaidKept

\* A crash may separate one episode from its stamp.
LEMMA CrashPaid ==
    ASSUME TypeOK, LockOK, PaidOK, Crash
    PROVE  PaidOK'
<1>1. UNCHANGED <<records, told>> /\ faults' = faults + 1 /\ \A m : ~InStamp(m)'
  BY DEF Crash, Fault, InStamp, Idle
<1>2. Repeats' = Repeats
  BY <1>1 DEF Repeats
<1>3. CASE \A q \in Runners : run[q].pc # "stamp"
  <2>1. \A q \in Runners : run[q].pc = "stamp" => run'[q] = run[q]
    BY <1>3
  <2> QED
    BY <1>1, <2>1, PaidQuiet
<1>4. CASE \E q \in Runners : run[q].pc = "stamp"
  <2>1. PICK r \in Runners : run[r].pc = "stamp"
    BY <1>4
  <2> DEFINE m == First(r)
             e == <<m, records[m].v, told[m][records[m].v] + 1>>
  <2>2. \A n : InStamp(n) => n = m
    BY <2>1, Alone DEF InStamp, Waiting
  <2>3. Untrusted' \subseteq Untrusted \cup {m}
    <3> HIDE DEF m
    <3> QED
      BY <1>1, <2>2 DEF Untrusted
  <2>4. Due' \subseteq Due \cup {e}
    BY <1>1, <2>3 DEF Due
  <2> HIDE DEF e
  <2> DEFINE old == Repeats \cup Due
  <2>5. IsFiniteSet(old \cup {e}) /\ Cardinality(old \cup {e}) <= Cardinality(old) + 1
        /\ Cardinality(old) \in Nat
    <3>1. IsFiniteSet(old)
      BY DEF PaidOK
    <3> HIDE DEF old
    <3>2. Cardinality(old) \in Nat
      BY <3>1, FS_CardinalityType
    <3>3. /\ IsFiniteSet(old \cup {e})
          /\ Cardinality(old \cup {e}) = Cardinality(old) \/ Cardinality(old \cup {e}) = Cardinality(old) + 1
      BY <3>1, FS_AddElement
    <3> QED
      BY <3>2, <3>3
  <2>6. (Repeats \cup Due)' \subseteq old \cup {e}
    BY <1>2, <2>4
  <2>7. IsFiniteSet((Repeats \cup Due)')
        /\ Cardinality((Repeats \cup Due)') <= Cardinality(old \cup {e})
        /\ Cardinality((Repeats \cup Due)') \in Nat /\ Cardinality(old \cup {e}) \in Nat
    BY <2>5, <2>6, FS_Subset, FS_CardinalityType
  <2>8. Cardinality(old) <= faults /\ faults \in Nat
    BY DEF PaidOK, TypeOK
  <2> HIDE DEF old
  <2>9. Cardinality((Repeats \cup Due)') <= faults'
    BY <1>1, <2>5, <2>7, <2>8
  <2> QED
    BY <2>7, <2>9 DEF PaidOK
<1> QED
  BY <1>3, <1>4

LEMMA PaidStep ==
    ASSUME TypeOK, TypeOK', LockOK, VersionsOK, PaidOK, [Next]_vars
    PROVE  PaidOK'
<1>1. ASSUME NEW r \in Runners,
             \/ Begin(r) \/ WalkOn(r) \/ WalkFails(r) \/ Embedded(r) \/ EmbedFails(r)
             \/ Skip(r) \/ PassOver(r) \/ Gate(r) \/ Again(r)
      PROVE  PaidOK'
  <2>1. /\ run[r].pc # "stamp" /\ UNCHANGED <<records, told>>
        /\ \A q \in Runners \ {r} : run'[q] = run[q]
        /\ faults' \in {faults, faults + 1}
    BY <1>1, Moves
  <2> QED
    BY <2>1, PaidQuiet
<1>2. ASSUME NEW r \in Runners, Select(r) \/ DistilFails(r) PROVE PaidOK'
  <2>1. /\ run[r].pc # "stamp" /\ \A q \in Runners \ {r} : run'[q] = run[q]
    BY <1>2, Lands
  <2> QED
    BY <1>2, <2>1, PaidQuiet DEF Select, DistilFails
<1>3. ASSUME NEW m \in Ids, Arrive(m) \/ Flip(m) PROVE PaidOK'
  BY <1>3, PaidQuiet DEF Arrive, Flip
<1>4. ASSUME UNCHANGED vars PROVE PaidOK'
  BY <1>4, PaidQuiet DEF vars
<1> QED
  BY <1>1, <1>2, <1>3, <1>4, DistilPaid, StampPaid, CommitPaid, CrashPaid DEF Next, Step

-----------------------------------------------------------------------------
(***************************************************************************)
(* The invariant.                                                          *)
(***************************************************************************)
LEMMA KnowledgeInit ==
    Init => KnowledgeInv
<1> SUFFICES ASSUME Init PROVE KnowledgeInv
  OBVIOUS
<1>1. /\ \A r \in Runners : run[r] = Idle /\ run[r].pc = "idle"
      /\ \A m \in Ids : records[m] = [v |-> 0, stamped |-> FALSE] /\ told[m] = <<0, 0>>
      /\ \A m \in Ids : archive[m] \in {0, 1}
      /\ state = [marker |-> 0, page |-> 1, candidate |-> 0]
  BY DEF Init, Idle
<1>2. TypeOK
  <2>1. run \in [Runners -> RunType]
    BY IdleType DEF Init
  <2>2. requests \in 0..MaxRequests /\ faults \in 0..MaxFaults
    BY SizesAssumption DEF Init
  <2>3. told \in [Ids -> [1..2 -> Nat]] /\ archive \in [Ids -> 0..2]
    BY DEF Init
  <2>4. /\ records \in [Ids -> [v : 0..2, stamped : BOOLEAN]]
        /\ state \in [marker : Ids \cup {0}, page : Nat \ {0}, candidate : Ids \cup {0}]
        /\ late \subseteq Ids
    BY DEF Init
  <2> QED
    BY <2>1, <2>2, <2>3, <2>4 DEF TypeOK, RunType
<1>3. LockOK /\ VersionsOK
  BY <1>1 DEF LockOK, VersionsOK, Waiting
<1>4. ResumeOK /\ WalkOK /\ MarkerSkipsNothing
  <2>1. \A m \in Archived : ~(m <= 0)
    BY ArchiveFinite DEF Archived
  <2> QED
    BY <1>1, <2>1 DEF ResumeOK, WalkOK, MarkerSkipsNothing
<1>5. StampMeansTold
  BY <1>1 DEF StampMeansTold
<1>6. PaidOK
  <2>1. Repeats = {}
    BY <1>1 DEF Repeats
  <2>2. Due = {}
    BY <1>1 DEF Due, Untrusted
  <2> QED
    BY <2>1, <2>2, FS_EmptySet DEF PaidOK, Init
<1> QED
  BY <1>2, <1>3, <1>4, <1>5, <1>6 DEF KnowledgeInv

LEMMA KnowledgeNext ==
    KnowledgeInv /\ [Next]_vars => KnowledgeInv'
<1> SUFFICES ASSUME KnowledgeInv, [Next]_vars PROVE KnowledgeInv'
  OBVIOUS
<1> USE DEF KnowledgeInv
<1>1. TypeOK'
  BY TypeStep
<1>2. LockOK'
  BY <1>1, LockStep
<1>3. VersionsOK' /\ StampMeansTold'
  BY <1>1, VersionsStep, StampStep
<1>4. ResumeOK' /\ WalkOK' /\ MarkerSkipsNothing'
  BY WalkStep
<1>5. PaidOK'
  BY <1>1, PaidStep
<1> QED
  BY <1>1, <1>2, <1>3, <1>4, <1>5

LEMMA KnowledgeInvHolds ==
    KnowledgeInv => SyncStateIsTrue
<1> SUFFICES ASSUME KnowledgeInv PROVE SyncStateIsTrue
  OBVIOUS
<1>1. Cardinality(Repeats) <= Cardinality(Repeats \cup Due) /\ Cardinality(Repeats) \in Nat
      /\ Cardinality(Repeats \cup Due) \in Nat
  <2>1. IsFiniteSet(Repeats \cup Due)
    BY DEF KnowledgeInv, PaidOK
  <2> QED
    BY <2>1, FS_Subset, FS_CardinalityType
<1>2. Cardinality(Repeats \cup Due) <= faults /\ faults \in Nat
  BY DEF KnowledgeInv, PaidOK, TypeOK
<1>3. PaidOnce
  BY <1>1, <1>2 DEF PaidOnce
<1> QED
  BY <1>3 DEF KnowledgeInv, SyncStateIsTrue, EpisodesMatchStamps

(***************************************************************************)
(* For every mailbox, page size, cap, batch and threshold, and however the *)
(* archive changes under the walk and runs fail: the marker stands above   *)
(* nothing that was not read, a stamp means an episode, and an episode is  *)
(* only paid for twice where a crash came between it and its stamp.        *)
(***************************************************************************)
THEOREM SyncStateIsTrueHolds == Spec => []SyncStateIsTrue
<1>1. Init => KnowledgeInv
  BY KnowledgeInit
<1>2. KnowledgeInv /\ [Next]_vars => KnowledgeInv'
  BY KnowledgeNext
<1>3. KnowledgeInv => SyncStateIsTrue
  BY KnowledgeInvHolds
<1> QED
  BY <1>1, <1>2, <1>3, PTL DEF Spec

-----------------------------------------------------------------------------
(***************************************************************************)
(* The gate before what is expensive.  A growth was estimated with all the *)
(* campaign had then, and a start with all it has; so from the moment that *)
(* either has passed, the campaign is within what was agreed to and what   *)
(* others merged since (AskOK).                                            *)
(***************************************************************************)
GateOps == {"start", "grow", "backfill", "backup"}
PassedType == [op : GateOps, n : Nat, estimate : Nat, size : Nat]
ApprovalType == [op : GateOps, n : Nat, estimate : Nat, state : {"pending", "approved"}, age : Nat]
MailboxType == [size : 0..MaxSize, estimate : 0..(MaxSize + 1), authorized : BOOLEAN]

Within == campaign.size <= Max({ConfirmationThreshold, agreed}) + raced

AskOK(r) ==
    /\ inflight[r] # Unasked => inflight[r] \in PassedType /\ inflight[r].size <= campaign.size
    /\ inflight[r].op = "start" => Within
    /\ inflight[r].op = "grow" =>
          /\ inflight[r].estimate = inflight[r].size + inflight[r].n
          /\ inflight[r].estimate <= Max({ConfirmationThreshold, agreed})
    /\ inflight[r].op = "backup" => inflight[r].estimate <= MaxSize + 1

AsksOK ==
    /\ about \subseteq GateOps
    /\ DOMAIN inflight = Requests /\ inflight = [r \in Requests |-> inflight[r]]
    /\ \A r \in Requests : AskOK(r)
    /\ approval # Unasked => /\ approval \in ApprovalType
                              /\ approval.op \in about /\ approval.n \in Batches \cup {0}
    /\ shown # Unasked => shown \in [op : {"backfill"}, estimate : Nat]
    /\ campaign.status = "draft" => campaign.sent = 0

GateInv == GateTypeOK /\ AsksOK /\ CampaignIsAgreedTo /\ AgentsWereApproved /\ BackfillWasShown

LEMMA GateSizes ==
    /\ ConfirmationThreshold \in Nat /\ ApprovalTTL \in Nat /\ MaxSize \in Nat
    /\ ConfirmationThreshold <= MaxSize /\ Width \in Nat /\ Width > 0
    /\ \A n \in Batches : n \in Nat /\ n <= MaxSize
    /\ \A n \in Drafts : n \in Nat /\ n <= MaxSize
BY GateAssumption

LEMMA MaxOfTwo ==
    ASSUME NEW a \in Nat, NEW b \in Nat
    PROVE  /\ Max({a, b}) \in {a, b} /\ Max({a, b}) \in Nat
           /\ Max({a, b}) >= a /\ Max({a, b}) >= b
<1>1. \E x \in {a, b} : \A y \in {a, b} : x >= y
  BY SMT
<1>2. Max({a, b}) \in {a, b} /\ \A y \in {a, b} : Max({a, b}) >= y
  BY <1>1 DEF Max
<1> QED
  BY <1>2

\* Two estimates in one bucket, and in buckets side by side.
LEMMA Buckets ==
    ASSUME NEW a \in Nat, NEW b \in Nat
    PROVE  /\ Bucket(a) = Bucket(b) => Distance(a, b) < Width
           /\ Distance(Bucket(a), Bucket(b)) <= Tolerance => Distance(a, b) < (1 + Tolerance) * Width
<1> DEFINE p == a \div Width  q == b \div Width
<1>1. p \in Int /\ q \in Int
  BY GateSizes
<1>2. /\ a >= Width * p /\ a < Width * p + Width
      /\ b >= Width * q /\ b < Width * q + Width
  BY GateSizes
<1>3. (1 + Tolerance) * Width = Width + Width
  BY GateSizes DEF Tolerance
<1>4. p = q => Width * p = Width * q
  OBVIOUS
<1>5. p = q + 1 => Width * p = Width * q + Width
  BY <1>1, GateSizes
<1>6. q = p + 1 => Width * q = Width * p + Width
  BY <1>1, GateSizes
<1>7. Width * p \in Int /\ Width * q \in Int
  BY <1>1, GateSizes
<1> HIDE DEF p, q
<1>8. p = q => Distance(a, b) < Width
  BY <1>2, <1>4, <1>7, GateSizes DEF Distance
<1>9. p = q \/ p = q + 1 \/ q = p + 1 => Distance(a, b) < Width + Width
  BY <1>2, <1>4, <1>5, <1>6, <1>7, GateSizes DEF Distance
<1>10. Distance(p, q) <= Tolerance => p = q \/ p = q + 1 \/ q = p + 1
  BY <1>1 DEF Distance, Tolerance
<1> QED
  BY <1>3, <1>8, <1>9, <1>10 DEF Bucket, p, q

LEMMA MailboxSet ==
    ASSUME NEW m \in MailboxType, NEW e \in 0..(MaxSize + 1), NEW a \in BOOLEAN
    PROVE  /\ [m EXCEPT !.estimate = e, !.authorized = a] \in MailboxType
           /\ [m EXCEPT !.authorized = a, !.estimate = e] \in MailboxType
           /\ [m EXCEPT !.estimate = e] \in MailboxType
BY DEF MailboxType

LEMMA GateInit_Inv == GateInit => GateInv
<1> SUFFICES ASSUME GateInit PROVE GateInv
  OBVIOUS
<1>1. GateTypeOK
  BY GateSizes DEF GateInit, GateTypeOK
<1>2. \A r \in Requests : inflight[r] = Unasked
  BY DEF GateInit
<1>3. AsksOK
  BY <1>2 DEF GateInit, AsksOK, AskOK, Unasked, GateOps
<1> QED
  BY <1>1, <1>3 DEF GateInit, GateInv, CampaignIsAgreedTo, AgentsWereApproved, BackfillWasShown, Unasked

-----------------------------------------------------------------------------
\* What is agreed to only grows.
LEMMA WithinGrows ==
    ASSUME GateInv, agreed' \in Nat, agreed' >= agreed
    PROVE  /\ Max({ConfirmationThreshold, agreed'}) \in Nat
           /\ Max({ConfirmationThreshold, agreed'}) >= ConfirmationThreshold
           /\ Max({ConfirmationThreshold, agreed'}) >= agreed'
           /\ Max({ConfirmationThreshold, agreed}) \in Nat
           /\ Max({ConfirmationThreshold, agreed'}) >= Max({ConfirmationThreshold, agreed})
<1>1. agreed \in Nat
  BY DEF GateInv, GateTypeOK
<1>2. /\ Max({ConfirmationThreshold, agreed}) \in {ConfirmationThreshold, agreed}
      /\ Max({ConfirmationThreshold, agreed}) \in Nat
  BY <1>1, MaxOfTwo, GateSizes
<1>3. /\ Max({ConfirmationThreshold, agreed'}) \in Nat
      /\ Max({ConfirmationThreshold, agreed'}) >= ConfirmationThreshold
      /\ Max({ConfirmationThreshold, agreed'}) >= agreed'
  BY MaxOfTwo, GateSizes
<1> QED
  BY <1>1, <1>2, <1>3, GateSizes

\* The estimates are numbers, and at a start and a growth of what they are.
LEMMA EstimateIs ==
    ASSUME GateInv, NEW op \in GateOps, NEW n \in Batches \cup {0}, NEW estimate \in Estimates(op, n)
    PROVE  /\ estimate \in Nat /\ n \in Nat
           /\ op = "start" => estimate = campaign.size - campaign.sent
           /\ op = "grow" => estimate = campaign.size + n
           /\ op = "backup" => estimate <= MaxSize + 1
<1>1. /\ campaign.size \in Nat /\ campaign.sent \in Nat /\ campaign.sent <= campaign.size
      /\ mailbox.size \in 0..MaxSize /\ mailbox.estimate \in 0..(MaxSize + 1) /\ backlog \in Nat
  BY GateSizes DEF GateInv, GateTypeOK
<1>2. n \in Nat
  BY GateSizes
<1>3. CASE op = "start"
  BY <1>1, <1>2, <1>3 DEF Estimates, Unmailed
<1>4. CASE op = "grow"
  BY <1>1, <1>2, <1>4 DEF Estimates, SendVolume
<1>5. CASE op = "backfill"
  BY <1>1, <1>2, <1>5 DEF Estimates
<1>6. CASE op = "backup"
  <2>1. estimate \in (IF mailbox.estimate > 0 THEN {mailbox.estimate} ELSE Sampled)
    BY <1>6 DEF Estimates
  <2> QED
    BY <1>1, <1>2, <1>6, <2>1, GateSizes DEF Sampled
<1> QED
  BY <1>3, <1>4, <1>5, <1>6 DEF GateOps

\* What passed stays in order when more is agreed to.
LEMMA AskGrows ==
    ASSUME GateInv, NEW p \in Requests, AskOK(p), inflight'[p] = inflight[p],
           agreed' \in Nat, agreed' >= agreed, campaign' = campaign, Within => Within'
    PROVE  AskOK(p)'
<1> DEFINE q == inflight[p]
<1>1. q # Unasked => q \in PassedType /\ q.size <= campaign.size
  BY DEF AskOK
<1>2. q.op = "grow" => q # Unasked
  BY DEF Unasked
<1>3. q \in PassedType => q.estimate \in Nat
  BY DEF PassedType
<1>4. q.op = "grow" => /\ q.estimate = q.size + q.n
                      /\ q.estimate <= Max({ConfirmationThreshold, agreed})
  BY DEF AskOK
<1>5. q.op = "start" => Within'
  BY DEF AskOK
<1>6. q.op = "backup" => q.estimate <= MaxSize + 1
  BY DEF AskOK
<1>7. inflight'[p] = q /\ MaxSize' = MaxSize
  OBVIOUS
<1> HIDE DEF q
<1>8. q.op = "grow" => q.estimate <= Max({ConfirmationThreshold, agreed'})
  BY <1>1, <1>2, <1>3, <1>4, WithinGrows
<1> QED
  BY <1>1, <1>4, <1>5, <1>6, <1>7, <1>8 DEF AskOK

\* A request passes the gate.
LEMMA PassKeeps ==
    ASSUME GateInv, NEW r \in Requests, NEW ask, ask.op \in about, ask.n \in Batches \cup {0},
           NEW estimate \in Estimates(ask.op, ask.n), Allowed(ask.op), NEW passes,
           PassGate(r, ask, estimate, passes),
           UNCHANGED <<campaign, mailbox, backlog, raced, about>>
    PROVE  /\ GateTypeOK' /\ CampaignIsAgreedTo'
           /\ inflight' = [p \in Requests |-> inflight'[p]] /\ \A p \in Requests : AskOK(p)'
<1> DEFINE passed == [op |-> ask.op, n |-> ask.n, estimate |-> estimate, size |-> campaign.size]
<1>1. ask.op \in GateOps
  BY DEF GateInv, AsksOK
<1>2. /\ estimate \in Nat /\ ask.n \in Nat
      /\ ask.op = "start" => estimate = campaign.size - campaign.sent
      /\ ask.op = "grow" => estimate = campaign.size + ask.n
      /\ ask.op = "backup" => estimate <= MaxSize + 1
  BY <1>1, EstimateIs
<1>3. /\ campaign.size \in Nat /\ campaign.sent \in Nat /\ agreed \in Nat /\ raced \in Nat
      /\ campaign.status \in {"draft", "running", "paused", "over"}
      /\ campaign.status = "draft" => campaign.sent = 0
  BY GateSizes DEF GateInv, GateTypeOK, AsksOK
<1>4. /\ agreed' \in Nat /\ agreed' >= agreed
      /\ ask.op = "start" /\ estimate > ConfirmationThreshold => agreed' >= campaign.size
      /\ ask.op = "grow" /\ estimate > ConfirmationThreshold => agreed' >= estimate
  <2>1. CASE estimate <= ConfirmationThreshold
    BY <1>2, <1>3, <2>1, GateSizes DEF PassGate
  <2>2. CASE ~(estimate <= ConfirmationThreshold)
    <3>1. agreed' = Max({agreed, Volume(ask, estimate)})
      BY <2>2 DEF PassGate
    <3>2. /\ Volume(ask, estimate) \in Nat
          /\ ask.op = "start" => Volume(ask, estimate) = campaign.size
          /\ ask.op = "grow" => Volume(ask, estimate) = estimate
      BY <1>2, <1>3 DEF Volume
    <3> QED
      BY <1>3, <3>1, <3>2, MaxOfTwo
  <2> QED
    BY <2>1, <2>2
<1>5. GateTypeOK'
  BY <1>4 DEF GateInv, GateTypeOK
<1>6. /\ inflight' = [inflight EXCEPT ![r] = passed]
      /\ DOMAIN inflight = Requests
  BY DEF PassGate, GateInv, AsksOK
<1>7. Within => Within'
  BY <1>3, <1>4, WithinGrows, GateSizes DEF Within
<1>8. CampaignIsAgreedTo'
  BY <1>7 DEF GateInv, CampaignIsAgreedTo, Within
<1>9. ASSUME NEW p \in Requests, p # r
      PROVE  AskOK(p)'
  <2>1. inflight'[p] = inflight[p]
    BY <1>6, <1>9
  <2>2. AskOK(p)
    BY DEF GateInv, AsksOK
  <2> QED
    BY <1>4, <1>7, <2>1, <2>2, AskGrows
<1>10. AskOK(r)'
  <2>1. inflight'[r] = passed
    BY <1>6
  <2>2. passed \in PassedType
    BY <1>1, <1>2, <1>3 DEF PassedType
  <2>3. passed.op = ask.op /\ passed.n = ask.n /\ passed.estimate = estimate /\ passed.size = campaign.size
    OBVIOUS
  <2> HIDE DEF passed
  <2>4. ask.op = "start" => Within'
    <3>1. CASE campaign.status = "draft"
      BY <1>2, <1>3, <1>4, <3>1, WithinGrows, GateSizes DEF Within
    <3>2. CASE campaign.status \in {"running", "paused"}
      BY <1>7, <3>2 DEF GateInv, CampaignIsAgreedTo, Within
    <3>3. ask.op = "start" => campaign.status # "over"
      BY DEF Allowed
    <3> QED
      BY <1>3, <3>1, <3>2, <3>3
  <2>5. ask.op = "grow" => estimate <= Max({ConfirmationThreshold, agreed'})
    BY <1>2, <1>3, <1>4, WithinGrows, GateSizes
  <2> QED
    BY <1>2, <1>3, <2>1, <2>2, <2>3, <2>4, <2>5 DEF AskOK
<1>11. inflight' = [p \in Requests |-> inflight'[p]]
  BY <1>6
<1> QED
  BY <1>5, <1>8, <1>9, <1>10, <1>11

LEMMA NothingRan ==
    ASSUME ran' = Unasked
    PROVE  AgentsWereApproved' /\ BackfillWasShown'
BY DEF AgentsWereApproved, BackfillWasShown, Unasked

LEMMA UserAsksKeeps ==
    ASSUME GateInv, NEW r \in Requests, UserAsks(r), about' = about
    PROVE  GateInv'
<1>1. PICK ask \in Asked, confirm \in BOOLEAN :
        \E estimate \in Estimates(ask.op, ask.n) :
        /\ Allowed(ask.op)
        /\ IF estimate <= ConfirmationThreshold \/ (confirm /\ TokenMatches(ask.op, estimate))
           THEN /\ PassGate(r, ask, estimate,
                        [op |-> ask.op, by |-> "user", estimate |-> estimate, age |-> 0,
                         shown |-> IF shown.op = ask.op THEN shown.estimate ELSE 0])
                /\ shown' = Unasked
           ELSE /\ shown' = IF ask.op = "backfill" THEN [op |-> ask.op, estimate |-> estimate]
                            ELSE Unasked
                /\ UNCHANGED <<inflight, agreed>> /\ ran' = Unasked
  BY DEF UserAsks
<1>2. PICK estimate \in Estimates(ask.op, ask.n) :
        /\ Allowed(ask.op)
        /\ IF estimate <= ConfirmationThreshold \/ (confirm /\ TokenMatches(ask.op, estimate))
           THEN /\ PassGate(r, ask, estimate,
                        [op |-> ask.op, by |-> "user", estimate |-> estimate, age |-> 0,
                         shown |-> IF shown.op = ask.op THEN shown.estimate ELSE 0])
                /\ shown' = Unasked
           ELSE /\ shown' = IF ask.op = "backfill" THEN [op |-> ask.op, estimate |-> estimate]
                            ELSE Unasked
                /\ UNCHANGED <<inflight, agreed>> /\ ran' = Unasked
  BY <1>1
<1>3. ask.op \in about /\ ask.n \in Batches \cup {0}
  BY <1>1 DEF Asked
<1>4. UNCHANGED <<campaign, mailbox, backlog, approval, raced, about>>
  BY DEF UserAsks
<1>5. estimate \in Nat
  BY <1>3, EstimateIs DEF GateInv, AsksOK
<1>6. CASE estimate <= ConfirmationThreshold \/ (confirm /\ TokenMatches(ask.op, estimate))
  <2> DEFINE passes == [op |-> ask.op, by |-> "user", estimate |-> estimate, age |-> 0,
                     shown |-> IF shown.op = ask.op THEN shown.estimate ELSE 0]
  <2>1. PassGate(r, ask, estimate, passes) /\ shown' = Unasked
    BY <1>2, <1>6
  <2>2. passes.by = "user" /\ passes.op = ask.op /\ passes.estimate = estimate
        /\ (shown.op = ask.op => passes.shown = shown.estimate)
    OBVIOUS
  <2> HIDE DEF passes
  <2>3. /\ GateTypeOK' /\ CampaignIsAgreedTo'
        /\ inflight' = [p \in Requests |-> inflight'[p]] /\ \A p \in Requests : AskOK(p)'
    BY <1>2, <1>3, <1>4, <2>1, PassKeeps
  <2>4. DOMAIN inflight' = Requests
    BY <2>1 DEF PassGate, GateInv, AsksOK
  <2>5. AsksOK'
    BY <1>4, <2>1, <2>3, <2>4 DEF GateInv, AsksOK
  <2>6. CASE estimate <= ConfirmationThreshold
    <3>1. ran' = Unasked
      BY <2>1, <2>6 DEF PassGate
    <3> QED
      BY <2>3, <2>5, <3>1, NothingRan DEF GateInv
  <2>7. CASE ~(estimate <= ConfirmationThreshold)
    <3>1. ran' = passes
      BY <2>1, <2>7 DEF PassGate
    <3>2. ask.op = "backfill" => shown.op = "backfill" /\ Bucket(shown.estimate) = Bucket(estimate)
      BY <1>6, <2>7 DEF TokenMatches
    <3>3. shown.op = "backfill" => shown.estimate \in Nat
      BY DEF GateInv, AsksOK, Unasked
    <3>4. ask.op = "backfill" => Distance(estimate, shown.estimate) < Width
      BY <1>5, <3>2, <3>3, Buckets
    <3>5. AgentsWereApproved' /\ BackfillWasShown'
      BY <2>2, <3>1, <3>2, <3>4 DEF AgentsWereApproved, BackfillWasShown
    <3> QED
      BY <2>3, <2>5, <3>5 DEF GateInv
  <2> QED
    BY <2>6, <2>7
<1>7. CASE ~(estimate <= ConfirmationThreshold \/ (confirm /\ TokenMatches(ask.op, estimate)))
  <2>1. /\ shown' = IF ask.op = "backfill" THEN [op |-> ask.op, estimate |-> estimate] ELSE Unasked
        /\ UNCHANGED <<inflight, agreed>> /\ ran' = Unasked
    BY <1>2, <1>7
  <2>2. shown' # Unasked => shown' \in [op : {"backfill"}, estimate : Nat]
    BY <1>5, <2>1
  <2>3. \A p \in Requests : AskOK(p)'
    BY <1>4, <2>1 DEF GateInv, AsksOK, AskOK, Within
  <2>4. AsksOK'
    BY <1>4, <2>1, <2>2, <2>3 DEF GateInv, AsksOK
  <2>5. GateTypeOK' /\ CampaignIsAgreedTo'
    BY <1>4, <2>1 DEF GateInv, GateTypeOK, CampaignIsAgreedTo
  <2> QED
    BY <2>1, <2>4, <2>5, NothingRan DEF GateInv
<1> QED
  BY <1>6, <1>7

LEMMA AgentAsksKeeps ==
    ASSUME GateInv, NEW r \in Requests, AgentAsks(r), about' = about
    PROVE  GateInv'
<1>1. PICK ask \in Asked : \E estimate \in Estimates(ask.op, ask.n) :
        /\ Allowed(ask.op)
        /\ IF estimate <= ConfirmationThreshold
           THEN PassGate(r, ask, estimate, Unasked) /\ UNCHANGED approval
           ELSE /\ approval' = [op |-> ask.op, n |-> ask.n, estimate |-> estimate,
                                state |-> "pending", age |-> 0]
                /\ UNCHANGED <<inflight, agreed>> /\ ran' = Unasked
  BY DEF AgentAsks
<1>2. PICK estimate \in Estimates(ask.op, ask.n) :
        /\ Allowed(ask.op)
        /\ IF estimate <= ConfirmationThreshold
           THEN PassGate(r, ask, estimate, Unasked) /\ UNCHANGED approval
           ELSE /\ approval' = [op |-> ask.op, n |-> ask.n, estimate |-> estimate,
                                state |-> "pending", age |-> 0]
                /\ UNCHANGED <<inflight, agreed>> /\ ran' = Unasked
  BY <1>1
<1>3. ask.op \in about /\ ask.op \in GateOps /\ ask.n \in Batches \cup {0}
  BY <1>1 DEF Asked, GateInv, AsksOK
<1>4. UNCHANGED <<campaign, mailbox, backlog, shown, raced, about>>
  BY DEF AgentAsks
<1>5. estimate \in Nat /\ ask.n \in Nat
  BY <1>3, EstimateIs
<1>6. CASE estimate <= ConfirmationThreshold
  <2>1. PassGate(r, ask, estimate, Unasked) /\ UNCHANGED approval
    BY <1>2, <1>6
  <2>2. /\ GateTypeOK' /\ CampaignIsAgreedTo'
        /\ inflight' = [p \in Requests |-> inflight'[p]] /\ \A p \in Requests : AskOK(p)'
    BY <1>2, <1>3, <1>4, <2>1, PassKeeps
  <2>3. DOMAIN inflight' = Requests /\ ran' = Unasked
    BY <1>6, <2>1 DEF PassGate, GateInv, AsksOK
  <2>4. AsksOK'
    BY <1>4, <2>1, <2>2, <2>3 DEF GateInv, AsksOK
  <2> QED
    BY <2>2, <2>3, <2>4, NothingRan DEF GateInv
<1>7. CASE ~(estimate <= ConfirmationThreshold)
  <2>1. /\ approval' = [op |-> ask.op, n |-> ask.n, estimate |-> estimate,
                        state |-> "pending", age |-> 0]
        /\ UNCHANGED <<inflight, agreed>> /\ ran' = Unasked
    BY <1>2, <1>7
  <2>2. approval' \in ApprovalType /\ approval'.op \in about' /\ approval'.n \in Batches \cup {0}
    BY <1>3, <1>4, <1>5, <2>1 DEF ApprovalType
  <2>3. \A p \in Requests : AskOK(p)'
    BY <1>4, <2>1 DEF GateInv, AsksOK, AskOK, Within
  <2>4. AsksOK'
    BY <1>4, <2>1, <2>2, <2>3 DEF GateInv, AsksOK
  <2>5. GateTypeOK' /\ CampaignIsAgreedTo'
    BY <1>4, <2>1 DEF GateInv, GateTypeOK, CampaignIsAgreedTo
  <2> QED
    BY <2>1, <2>4, <2>5, NothingRan DEF GateInv
<1> QED
  BY <1>6, <1>7

LEMMA AgentRetriesKeeps ==
    ASSUME GateInv, NEW r \in Requests, AgentRetries(r), about' = about
    PROVE  GateInv'
<1> DEFINE ask == [op |-> approval.op, n |-> approval.n]
<1>0. ask.op = approval.op /\ ask.n = approval.n
  OBVIOUS
<1>1. PICK estimate \in Estimates(ask.op, ask.n) :
        IF Allowed(ask.op) /\ (estimate <= ConfirmationThreshold \/ Verified(ask.op, estimate))
        THEN PassGate(r, ask, estimate,
                  [op |-> ask.op, by |-> "agent", estimate |-> estimate,
                   shown |-> approval.estimate, age |-> approval.age])
        ELSE UNCHANGED <<inflight, agreed>> /\ ran' = Unasked
  BY DEF AgentRetries
<1> HIDE DEF ask
<1>2. /\ approval # Unasked /\ approval' = Unasked
      /\ UNCHANGED <<campaign, mailbox, backlog, shown, raced, about>>
  BY DEF AgentRetries
<1>3. ask.op \in about /\ ask.op \in GateOps /\ ask.n \in Batches \cup {0}
  BY <1>0, <1>2 DEF GateInv, AsksOK
<1>4. estimate \in Nat /\ approval.estimate \in Nat
  BY <1>2, <1>3, EstimateIs DEF GateInv, AsksOK, ApprovalType
<1>5. CASE Allowed(ask.op) /\ (estimate <= ConfirmationThreshold \/ Verified(ask.op, estimate))
  <2> DEFINE passes == [op |-> ask.op, by |-> "agent", estimate |-> estimate,
                     shown |-> approval.estimate, age |-> approval.age]
  <2>1. PassGate(r, ask, estimate, passes) /\ Allowed(ask.op)
    BY <1>1, <1>5
  <2>2. /\ passes.by = "agent" /\ passes.estimate = estimate /\ passes.shown = approval.estimate
        /\ passes.age = approval.age
    OBVIOUS
  <2> HIDE DEF passes
  <2>3. /\ GateTypeOK' /\ CampaignIsAgreedTo'
        /\ inflight' = [p \in Requests |-> inflight'[p]] /\ \A p \in Requests : AskOK(p)'
    BY <1>1, <1>2, <1>3, <2>1, PassKeeps
  <2>4. DOMAIN inflight' = Requests
    BY <2>1 DEF PassGate, GateInv, AsksOK
  <2>5. AsksOK'
    BY <1>2, <2>3, <2>4 DEF GateInv, AsksOK
  <2>6. CASE estimate <= ConfirmationThreshold
    <3>1. ran' = Unasked
      BY <2>1, <2>6 DEF PassGate
    <3> QED
      BY <2>3, <2>5, <3>1, NothingRan DEF GateInv
  <2>7. CASE ~(estimate <= ConfirmationThreshold)
    <3>1. ran' = passes
      BY <2>1, <2>7 DEF PassGate
    <3>2. /\ approval.age <= ApprovalTTL
          /\ Distance(Bucket(approval.estimate), Bucket(estimate)) <= Tolerance
      BY <1>5, <2>7 DEF Verified
    <3>3. Distance(estimate, approval.estimate) < (1 + Tolerance) * Width
      BY <1>4, <3>2, Buckets DEF Distance
    <3>4. AgentsWereApproved' /\ BackfillWasShown'
      BY <2>2, <3>1, <3>2, <3>3 DEF AgentsWereApproved, BackfillWasShown
    <3> QED
      BY <2>3, <2>5, <3>4 DEF GateInv
  <2> QED
    BY <2>6, <2>7
<1>6. CASE ~(Allowed(ask.op) /\ (estimate <= ConfirmationThreshold \/ Verified(ask.op, estimate)))
  <2>1. UNCHANGED <<inflight, agreed>> /\ ran' = Unasked
    BY <1>1, <1>6
  <2>2. \A p \in Requests : AskOK(p)'
    BY <1>2, <2>1 DEF GateInv, AsksOK, AskOK, Within
  <2>3. AsksOK'
    BY <1>2, <2>1, <2>2 DEF GateInv, AsksOK
  <2>4. GateTypeOK' /\ CampaignIsAgreedTo'
    BY <1>2, <2>1 DEF GateInv, GateTypeOK, CampaignIsAgreedTo
  <2> QED
    BY <2>1, <2>3, <2>4, NothingRan DEF GateInv
<1> QED
  BY <1>5, <1>6

-----------------------------------------------------------------------------
\* A request that is through leaves the others as they are.
LEMMA DoneKeeps ==
    ASSUME GateInv, NEW r \in Requests, Done(r), agreed' = agreed, raced' \in Nat, raced' >= raced,
           UNCHANGED <<shown, approval, about>>, campaign'.size \in Nat, campaign'.size >= campaign.size,
           Within => Within', campaign'.status = "draft" => campaign'.sent = 0
    PROVE  AsksOK'
<1>1. DOMAIN inflight = Requests /\ inflight' = [inflight EXCEPT ![r] = Unasked]
  BY DEF Done, GateInv, AsksOK
<1>2. DOMAIN inflight' = Requests /\ inflight' = [p \in Requests |-> inflight'[p]]
  BY <1>1
<1>3. inflight'[r] = Unasked /\ \A p \in Requests : p # r => inflight'[p] = inflight[p]
  BY <1>1
<1>4. AskOK(r)'
  BY <1>3 DEF AskOK, Unasked
<1>5. ASSUME NEW p \in Requests, p # r
      PROVE  AskOK(p)'
  <2>1. AskOK(p) /\ inflight'[p] = inflight[p]
    BY <1>3, <1>5 DEF GateInv, AsksOK
  <2>2. inflight[p] \in PassedType => inflight[p].size \in Nat
    BY DEF PassedType
  <2>3. campaign.size \in Nat
    BY GateSizes DEF GateInv, GateTypeOK
  <2>4. inflight[p] # Unasked => inflight[p] \in PassedType /\ inflight[p].size <= campaign'.size
    BY <2>1, <2>2, <2>3 DEF AskOK
  <2> QED
    BY <2>1, <2>4 DEF AskOK
<1> QED
  BY <1>2, <1>4, <1>5 DEF GateInv, AsksOK

LEMMA CampaignIs ==
    ASSUME GateInv
    PROVE  /\ campaign.size \in Nat /\ campaign.sent \in Nat /\ campaign.sent <= campaign.size
           /\ campaign.size <= MaxSize /\ agreed \in Nat /\ raced \in Nat
           /\ DOMAIN campaign = {"status", "size", "sent"}
           /\ campaign.status \in {"draft", "running", "paused", "over"}
           /\ Max({ConfirmationThreshold, agreed}) \in Nat
<1>1. /\ campaign.size \in 0..MaxSize /\ campaign.sent \in 0..MaxSize /\ campaign.sent <= campaign.size
      /\ DOMAIN campaign = {"status", "size", "sent"}
      /\ campaign.status \in {"draft", "running", "paused", "over"} /\ agreed \in Nat /\ raced \in Nat
  BY DEF GateInv, GateTypeOK
<1> QED
  BY <1>1, GateSizes, MaxOfTwo

LEMMA StartKeeps ==
    ASSUME GateInv, NEW r \in Requests, Start(r), about' = about
    PROVE  GateInv'
<1>1. /\ campaign' = [campaign EXCEPT !.status = "running"] /\ Done(r) /\ ran' = Unasked
      /\ UNCHANGED <<mailbox, backlog, shown, approval, agreed, raced>>
      /\ Within
  BY DEF Start, GateInv, AsksOK, AskOK
<1>2. campaign'.status = "running" /\ campaign'.size = campaign.size /\ campaign'.sent = campaign.sent
  BY <1>1, CampaignIs
<1>3. Within'
  BY <1>1, <1>2 DEF Within
<1>4. AsksOK'
  BY <1>1, <1>2, <1>3, CampaignIs, DoneKeeps
<1>5. GateTypeOK'
  BY <1>1, <1>2 DEF GateInv, GateTypeOK
<1> QED
  BY <1>1, <1>3, <1>4, <1>5, NothingRan DEF GateInv, CampaignIsAgreedTo, Within

LEMMA GrowKeeps ==
    ASSUME GateInv, NEW r \in Requests, Grow(r), about' = about
    PROVE  GateInv'
<1> DEFINE q == inflight[r]
<1>1. /\ campaign' = [campaign EXCEPT !.size = campaign.size + q.n]
      /\ campaign.size + q.n <= MaxSize /\ raced' = raced + campaign.size - q.size
      /\ Done(r) /\ ran' = Unasked
      /\ UNCHANGED <<mailbox, backlog, shown, approval, agreed>>
  BY DEF Grow
<1>2. /\ q \in PassedType /\ q.size <= campaign.size /\ q.estimate = q.size + q.n
      /\ q.estimate <= Max({ConfirmationThreshold, agreed})
  <2>1. q.op = "grow" /\ AskOK(r)
    BY DEF Grow, GateInv, AsksOK
  <2>2. q # Unasked
    BY <2>1 DEF Unasked
  <2> QED
    BY <2>1, <2>2 DEF AskOK
<1>3. q.n \in Nat /\ q.size \in Nat
  BY <1>2 DEF PassedType
<1> HIDE DEF q
<1>4. /\ campaign'.status = campaign.status /\ campaign'.size = campaign.size + q.n
      /\ campaign'.sent = campaign.sent
  BY <1>1, CampaignIs
<1>5. Within'
  BY <1>1, <1>2, <1>3, <1>4, CampaignIs DEF Within
<1>6. raced' \in Nat /\ raced' >= raced /\ campaign'.size \in Nat /\ campaign'.size >= campaign.size
  BY <1>1, <1>2, <1>3, <1>4, CampaignIs
<1>7. AsksOK'
  <2>1. campaign'.status = "draft" => campaign'.sent = 0
    BY <1>4 DEF GateInv, AsksOK
  <2> QED
    BY <1>1, <1>5, <1>6, <2>1, DoneKeeps
<1>8. GateTypeOK'
  <2>1. campaign' \in [status : {"draft", "running", "paused", "over"}, size : 0..MaxSize, sent : 0..MaxSize]
    BY <1>1, <1>3, CampaignIs, GateSizes DEF GateInv, GateTypeOK
  <2>2. campaign'.sent <= campaign'.size
    BY <1>3, <1>4, CampaignIs
  <2> QED
    BY <1>1, <1>6, <2>1, <2>2 DEF GateInv, GateTypeOK
<1> QED
  BY <1>1, <1>5, <1>7, <1>8, NothingRan DEF GateInv, CampaignIsAgreedTo, Within

LEMMA BackfillKeeps ==
    ASSUME GateInv, NEW r \in Requests, Backfill(r) \/ Backup(r), about' = about
    PROVE  GateInv'
<1>1. /\ Done(r) /\ ran' = Unasked
      /\ UNCHANGED <<campaign, shown, approval, agreed, raced>>
  BY DEF Backfill, Backup
<1>2. Within => Within'
  BY <1>1 DEF Within
<1>3. campaign'.status = "draft" => campaign'.sent = 0
  BY <1>1 DEF GateInv, AsksOK
<1>4. AsksOK'
  BY <1>1, <1>2, <1>3, CampaignIs, DoneKeeps
<1>5. mailbox' \in MailboxType /\ backlog' \in 0..MaxSize
  <2>1. mailbox \in MailboxType /\ backlog \in 0..MaxSize
    BY DEF GateInv, GateTypeOK, MailboxType
  <2>2. CASE Backfill(r)
    BY <2>1, <2>2, GateSizes DEF Backfill
  <2>3. CASE Backup(r)
    <3>1. inflight[r].estimate \in 0..(MaxSize + 1)
      BY <2>3, GateSizes DEF Backup, GateInv, AsksOK, AskOK, Unasked, PassedType
    <3> QED
      BY <2>1, <2>3, <3>1, MailboxSet DEF Backup
  <2> QED
    BY <2>2, <2>3
<1>6. GateTypeOK'
  BY <1>1, <1>5 DEF GateInv, GateTypeOK, MailboxType
<1>7. CampaignIsAgreedTo'
  BY <1>1 DEF GateInv, CampaignIsAgreedTo
<1> QED
  BY <1>1, <1>4, <1>6, <1>7, NothingRan DEF GateInv

\* The estimates of a backup and the growth of what is to be done.
LEMMA MeanwhileKeeps ==
    ASSUME GateInv, EstimateBackup \/ AutoBackup \/ Accrue, about' = about
    PROVE  GateInv'
<1>1. ran' = Unasked /\ UNCHANGED <<campaign, inflight, shown, approval, agreed, raced>>
  BY DEF EstimateBackup, AutoBackup, Accrue
<1>2. mailbox' \in MailboxType /\ backlog' \in 0..MaxSize
  <2>1. mailbox \in MailboxType /\ backlog \in 0..MaxSize
    BY DEF GateInv, GateTypeOK, MailboxType
  <2>2. Sampled \subseteq 0..(MaxSize + 1)
    BY <2>1, GateSizes DEF Sampled, MailboxType
  <2>3. CASE EstimateBackup
    BY <2>1, <2>2, <2>3, MailboxSet DEF EstimateBackup
  <2>4. CASE AutoBackup
    <3>1. PICK estimate \in Sampled :
            mailbox' = [mailbox EXCEPT !.estimate = estimate,
                                       !.authorized = estimate <= ConfirmationThreshold]
      BY <2>4 DEF AutoBackup
    <3>2. (estimate <= ConfirmationThreshold) \in BOOLEAN
      OBVIOUS
    <3>3. estimate \in 0..(MaxSize + 1) /\ backlog' = backlog
      BY <2>2, <2>4 DEF AutoBackup
    <3> QED
      BY <2>1, <3>1, <3>2, <3>3, MailboxSet
  <2>5. CASE Accrue
    BY <2>1, <2>5, GateSizes DEF Accrue, MailboxType
  <2> QED
    BY <2>3, <2>4, <2>5
<1>3. GateTypeOK' /\ CampaignIsAgreedTo'
  BY <1>1, <1>2 DEF GateInv, GateTypeOK, MailboxType, CampaignIsAgreedTo
<1>4. \A p \in Requests : AskOK(p)'
  BY <1>1 DEF GateInv, AsksOK, AskOK, Within
<1>5. AsksOK'
  BY <1>1, <1>4 DEF GateInv, AsksOK
<1> QED
  BY <1>1, <1>3, <1>5, NothingRan DEF GateInv

LEMMA HumanKeeps ==
    ASSUME GateInv, Decide \/ ApprovalAges, about' = about
    PROVE  GateInv'
<1>1. ran' = Unasked /\ UNCHANGED <<campaign, mailbox, backlog, inflight, shown, agreed, raced>>
  BY DEF Decide, ApprovalAges
<1>2. approval \in ApprovalType /\ approval.op \in about /\ approval.n \in Batches \cup {0}
  BY DEF Decide, ApprovalAges, GateInv, AsksOK
<1>3. approval' # Unasked =>
          approval' \in ApprovalType /\ approval'.op \in about /\ approval'.n \in Batches \cup {0}
  <2>1. CASE Decide
    BY <1>2, <2>1 DEF Decide, ApprovalType
  <2>2. CASE ApprovalAges
    BY <1>2, <2>2 DEF ApprovalAges, ApprovalType
  <2> QED
    BY <2>1, <2>2
<1>4. \A p \in Requests : AskOK(p)'
  BY <1>1 DEF GateInv, AsksOK, AskOK, Within
<1>5. AsksOK'
  BY <1>1, <1>3, <1>4 DEF GateInv, AsksOK
<1>6. GateTypeOK' /\ CampaignIsAgreedTo'
  BY <1>1 DEF GateInv, GateTypeOK, CampaignIsAgreedTo
<1> QED
  BY <1>1, <1>5, <1>6, NothingRan DEF GateInv

LEMMA CampaignGoesOn ==
    ASSUME GateInv, Send \/ PauseOrCancel, about' = about
    PROVE  GateInv'
<1>1. ran' = Unasked /\ UNCHANGED <<mailbox, backlog, inflight, shown, approval, agreed, raced>>
  BY DEF Send, PauseOrCancel
<1>2. /\ campaign'.size = campaign.size
      /\ campaign' \in [status : {"draft", "running", "paused", "over"}, size : 0..MaxSize, sent : 0..MaxSize]
      /\ campaign'.sent <= campaign'.size /\ campaign'.status # "draft"
      /\ campaign'.status \in {"running", "paused"} => campaign.status \in {"running", "paused"}
  <2>1. campaign \in [status : {"draft", "running", "paused", "over"}, size : 0..MaxSize, sent : 0..MaxSize]
    BY DEF GateInv, GateTypeOK
  <2>2. CASE Send
    BY <2>1, <2>2, CampaignIs, GateSizes DEF Send, Unmailed
  <2>3. CASE PauseOrCancel
    BY <2>1, <2>3, CampaignIs, GateSizes DEF PauseOrCancel
  <2> QED
    BY <2>2, <2>3
<1>3. \A p \in Requests : AskOK(p)'
  BY <1>1, <1>2 DEF GateInv, AsksOK, AskOK, Within
<1>4. AsksOK'
  BY <1>1, <1>2, <1>3 DEF GateInv, AsksOK
<1>5. GateTypeOK' /\ CampaignIsAgreedTo'
  BY <1>1, <1>2 DEF GateInv, GateTypeOK, CampaignIsAgreedTo
<1> QED
  BY <1>1, <1>4, <1>5, NothingRan DEF GateInv

LEMMA GateStep == GateInv /\ [GateNext]_gateVars => GateInv'
<1> SUFFICES ASSUME GateInv, [GateNext]_gateVars PROVE GateInv'
  OBVIOUS
<1>1. CASE UNCHANGED gateVars
  <2>1. \A p \in Requests : AskOK(p)'
    BY <1>1 DEF gateVars, GateInv, AsksOK, AskOK, Within
  <2>2. AsksOK'
    BY <1>1, <2>1 DEF gateVars, GateInv, AsksOK
  <2> QED
    BY <1>1, <2>2 DEF gateVars, GateInv, GateTypeOK, CampaignIsAgreedTo, AgentsWereApproved, BackfillWasShown
<1>2. CASE GateNext
  BY <1>2, UserAsksKeeps, AgentAsksKeeps, AgentRetriesKeeps, StartKeeps, GrowKeeps, BackfillKeeps,
     MeanwhileKeeps, HumanKeeps, CampaignGoesOn DEF GateNext
<1> QED
  BY <1>1, <1>2

-----------------------------------------------------------------------------
(***************************************************************************)
(* The tokens.  One lock is registered for a key that was never dropped,   *)
(* and whoever wants the key waits for that one (LocksOK); so who holds it *)
(* is alone, and what is cached stays stale until it is answered.          *)
(***************************************************************************)
CallPhases == {"new", "waiting", "asking", "issued", "served", "failed"}
CallType == [pc : CallPhases, key : Keys, lock : Nat, since : Nat, until : Nat]
Working == {"asking", "issued"}

TimesOK ==
    /\ \A c \in Calls : outbound[c].pc \in Working =>
          outbound[c].since <= clock /\ clock <= outbound[c].since + Timeout
    /\ \A c \in Calls : outbound[c].pc = "issued" => outbound[c].until >= outbound[c].since + Life
    /\ \A k \in Keys : cached[k].fresh <= cached[k].until

LocksOK ==
    /\ \A c, d \in Calls :
          /\ outbound[c].pc \in Working /\ outbound[d].pc \in Working
          /\ outbound[c].key = outbound[d].key /\ outbound[c].lock = outbound[d].lock
          => c = d
    /\ \A c \in Calls :
          outbound[c].pc \in Working \cup {"waiting"} =>
              /\ outbound[c].lock # 0
              /\ outbound[c].key \notin evicted => lock[outbound[c].key] = outbound[c].lock
    /\ \A c \in Calls :
          outbound[c].pc \in Working /\ outbound[c].key \notin evicted => ~Fresh(outbound[c].key)

TokenInv ==
    /\ BrokerTypeOK /\ TimesOK /\ LocksOK /\ TokensAreValid
    /\ IsFiniteSet(Entries) /\ Cardinality(Entries) <= MaxEntries

LEMMA BrokerSizes ==
    /\ Life \in Nat /\ Slack \in Nat /\ SubjectSlack \in Nat /\ Timeout \in Nat
    /\ MaxTime \in Nat /\ MaxTime >= 1 /\ MaxEntries \in Nat /\ MaxEntries >= 1
    /\ IsFiniteSet(Calls) /\ Service \in Keys
    /\ \A c \in Calls : SubjectOf[c] \in Keys
BY BrokerAssumption DEF Keys, Subjects

LEMMA KeysFinite == IsFiniteSet(Keys)
<1> DEFINE f == [c \in Calls |-> SubjectOf[c]]
<1>1. f \in Surjection(Calls, Subjects)
  BY DEF Surjection, Subjects
<1>2. IsFiniteSet(Subjects)
  BY <1>1, BrokerSizes, FS_Surjection
<1>3. IsFiniteSet(Subjects \cup {Service})
  BY <1>2, FS_AddElement
<1> QED
  BY <1>3 DEF Keys

LEMMA EntriesFinite == IsFiniteSet(Entries) /\ IsFiniteSet(Entries') /\ Entries \subseteq Keys
<1>1. Entries \subseteq Keys /\ Entries' \subseteq Keys
  BY DEF Entries
<1> QED
  BY <1>1, KeysFinite, FS_Subset

LEMMA NewLockIs ==
    ASSUME BrokerTypeOK
    PROVE  NewLock \in Nat /\ NewLock # 0
<1> DEFINE S == {lock[k] : k \in Keys}  T == {outbound[c].lock : c \in Calls}
<1>f. PICK f : f = [k \in Keys |-> lock[k]]
  OBVIOUS
<1>g. PICK g : g = [c \in Calls |-> outbound[c].lock]
  OBVIOUS
<1>h. f \in Surjection(Keys, S) /\ g \in Surjection(Calls, T)
  BY <1>f, <1>g DEF Surjection
<1>1. IsFiniteSet(S) /\ IsFiniteSet(T)
  BY <1>h, KeysFinite, BrokerSizes, FS_Surjection
<1>2. S \subseteq Nat /\ T \subseteq Nat
  BY DEF BrokerTypeOK
<1> DEFINE U == {0} \cup S \cup T
<1>3. IsFiniteSet(U)
  BY <1>1, FS_Singleton, FS_Union
<1>4. U \in SUBSET Nat /\ U # {}
  BY <1>2
<1>5. NewLock = 1 + Max(U)
  BY DEF NewLock
<1> HIDE DEF U
<1>6. Max(U) \in Nat
  BY <1>3, <1>4, MaxOf
<1> QED
  BY <1>5, <1>6

LEMMA TokenInit_Inv == BrokerInit => TokenInv
<1> SUFFICES ASSUME BrokerInit PROVE TokenInv
  OBVIOUS
<1>1. BrokerTypeOK
  BY BrokerSizes DEF BrokerInit, BrokerTypeOK, None, NewCall
<1>2. \A c \in Calls : outbound[c].pc = "new"
  BY DEF BrokerInit, NewCall
<1>3. TimesOK
  BY <1>2 DEF BrokerInit, TimesOK, Working, None
<1>4. LocksOK /\ TokensAreValid
  BY <1>2 DEF LocksOK, TokensAreValid, Working
<1>5. Entries = {}
  BY DEF BrokerInit, Entries
<1> QED
  BY <1>1, <1>3, <1>4, <1>5, FS_EmptySet, BrokerSizes DEF TokenInv

-----------------------------------------------------------------------------
LEMMA ServeIs ==
    ASSUME BrokerTypeOK, NEW c \in Calls, NEW k \in Keys, NEW l \in Nat, Serve(c, k, l)
    PROVE  /\ outbound' \in [Calls -> CallType]
           /\ outbound'[c].pc = "served" /\ outbound'[c].since = clock
           /\ outbound'[c].until = cached[k].until
           /\ \A d \in Calls : d # c => outbound'[d] = outbound[d]
<1> DEFINE q == [pc |-> "served", key |-> k, lock |-> l, since |-> clock, until |-> cached[k].until]
<1>1. q \in CallType
  BY BrokerSizes DEF BrokerTypeOK, CallType, CallPhases
<1>2. q.pc = "served" /\ q.since = clock /\ q.until = cached[k].until
  OBVIOUS
<1>3. outbound' = [outbound EXCEPT ![c] = q] /\ outbound \in [Calls -> CallType]
  BY DEF Serve, BrokerTypeOK, CallType, CallPhases
<1> HIDE DEF q
<1> QED
  BY <1>1, <1>2, <1>3

\* The call with a step of its own.
LEMMA OneCall ==
    ASSUME BrokerTypeOK, NEW c \in Calls, NEW q \in CallType, outbound' = [outbound EXCEPT ![c] = q]
    PROVE  /\ outbound' \in [Calls -> CallType] /\ outbound'[c] = q
           /\ \A d \in Calls : d # c => outbound'[d] = outbound[d]
BY DEF BrokerTypeOK, CallType, CallPhases

LEMMA CallIs ==
    ASSUME BrokerTypeOK, NEW c \in Calls
    PROVE  /\ outbound \in [Calls -> CallType] /\ outbound[c] \in CallType
           /\ outbound[c].pc \in CallPhases /\ outbound[c].key \in Keys /\ outbound[c].lock \in Nat
           /\ outbound[c].since \in Nat /\ outbound[c].until \in Nat
           /\ clock \in Nat /\ clock >= 1
           /\ \A k \in Keys : cached[k].fresh \in Nat /\ cached[k].until \in Nat /\ lock[k] \in Nat
<1>1. outbound \in [Calls -> CallType]
  BY DEF BrokerTypeOK, CallType, CallPhases
<1>2. outbound[c] \in CallType
  BY <1>1
<1>3. clock \in Nat /\ clock >= 1
  BY BrokerSizes DEF BrokerTypeOK
<1>4. \A k \in Keys : cached[k].fresh \in Nat /\ cached[k].until \in Nat /\ lock[k] \in Nat
  BY DEF BrokerTypeOK
<1>5. outbound[c].pc \in CallPhases /\ outbound[c].key \in Keys /\ outbound[c].lock \in Nat
  BY <1>2 DEF CallType
<1>6. outbound[c].since \in Nat /\ outbound[c].until \in Nat
  BY <1>2 DEF CallType
<1> QED
  BY <1>1, <1>2, <1>3, <1>4, <1>5, <1>6

\* What a call that is served from the cache, or fails, leaves of the others.
LEMMA LeavesKeep ==
    ASSUME TokenInv, NEW c \in Calls, outbound' \in [Calls -> CallType],
           \A d \in Calls : d # c => outbound'[d] = outbound[d],
           outbound'[c].pc \in {"served", "failed"},
           outbound'[c].pc = "served" => outbound'[c].since < outbound'[c].until,
           UNCHANGED <<clock, cached, evicted>>, lock' = lock
    PROVE  TokenInv'
<1>1. BrokerTypeOK'
  BY DEF TokenInv, BrokerTypeOK, CallType, CallPhases
<1>2. \A d \in Calls : outbound'[d].pc \in Working \cup {"waiting", "issued"} => d # c
  BY DEF Working
<1>3. TimesOK'
  BY <1>2 DEF TokenInv, TimesOK, Working
<1>4. LocksOK'
  BY <1>2 DEF TokenInv, LocksOK, Working, Fresh
<1>5. TokensAreValid'
  BY DEF TokenInv, TokensAreValid
<1>6. Entries' = Entries
  BY DEF Entries
<1> QED
  BY <1>1, <1>3, <1>4, <1>5, <1>6 DEF TokenInv

\* A call that takes the lock, or gets in line, or goes on with the lock.
LEMMA AskKeeps ==
    ASSUME TokenInv, NEW c \in Calls, NEW q \in CallType, outbound' = [outbound EXCEPT ![c] = q],
           q.pc \in Working \cup {"waiting"},
           q.pc \in Working => /\ q.since <= clock /\ clock <= q.since + Timeout
                               /\ InLock(q.key, q.lock) \subseteq {c}
                               /\ q.key \notin evicted => ~Fresh(q.key),
           q.pc = "issued" => q.until >= q.since + Life,
           q.lock # 0, lock'[q.key] = q.lock \/ q.key \in evicted, lock' \in [Keys -> Nat],
           \A k \in Keys : lock[k] # 0 \/ k # q.key => lock'[k] = lock[k],
           UNCHANGED <<clock, cached, evicted>>
    PROVE  TokenInv'
<1>1. /\ outbound' \in [Calls -> CallType] /\ outbound'[c] = q
      /\ \A d \in Calls : d # c => outbound'[d] = outbound[d]
  BY OneCall DEF TokenInv
<1>2. BrokerTypeOK'
  BY <1>1 DEF TokenInv, BrokerTypeOK, CallType, CallPhases
<1>3. TimesOK'
  <2>1. \A d \in Calls : outbound'[d].pc \in Working =>
            outbound'[d].since <= clock /\ clock <= outbound'[d].since + Timeout
    BY <1>1 DEF TokenInv, TimesOK
  <2>2. \A d \in Calls : outbound'[d].pc = "issued" => outbound'[d].until >= outbound'[d].since + Life
    BY <1>1 DEF TokenInv, TimesOK
  <2> QED
    BY <2>1, <2>2 DEF TokenInv, TimesOK
<1>4. LocksOK'
  <2>1. ASSUME NEW d \in Calls, NEW e \in Calls, outbound'[d].pc \in Working, outbound'[e].pc \in Working,
               outbound'[d].key = outbound'[e].key, outbound'[d].lock = outbound'[e].lock
        PROVE  d = e
    <3>1. \A x \in Calls : x # c /\ q.pc \in Working /\ outbound[x].pc \in Working =>
              outbound[x].key # q.key \/ outbound[x].lock # q.lock
      BY DEF InLock, CallsAt, Working
    <3> QED
      BY <1>1, <2>1, <3>1 DEF TokenInv, LocksOK
  <2>l. \A d \in Calls : outbound'[d].pc \in Working \cup {"waiting"} => outbound'[d].lock # 0
    BY <1>1 DEF TokenInv, LocksOK
  <2>2. ASSUME NEW d \in Calls, outbound'[d].pc \in Working \cup {"waiting"}, outbound'[d].key \notin evicted
        PROVE  outbound'[d].lock # 0 /\ lock'[outbound'[d].key] = outbound'[d].lock
    <3>1. CASE d = c
      BY <1>1, <2>2, <3>1
    <3>2. CASE d # c
      <4>1. outbound[d].lock # 0 /\ lock[outbound[d].key] = outbound[d].lock /\ outbound'[d] = outbound[d]
        BY <1>1, <2>2, <3>2 DEF TokenInv, LocksOK
      <4>2. outbound[d].key \in Keys
        BY CallIs DEF TokenInv
      <4> QED
        BY <4>1, <4>2
    <3> QED
      BY <3>1, <3>2
  <2>3. \A d \in Calls : outbound'[d].pc \in Working /\ outbound'[d].key \notin evicted => ~Fresh(outbound'[d].key)
    BY <1>1 DEF TokenInv, LocksOK
  <2>4. \A k : Fresh(k)' <=> Fresh(k)
    BY DEF Fresh
  <2> QED
    BY <2>1, <2>l, <2>2, <2>3, <2>4 DEF LocksOK
<1>5. TokensAreValid'
  BY <1>1 DEF TokenInv, TokensAreValid, Working
<1>6. Entries' = Entries
  BY DEF Entries
<1> QED
  BY <1>2, <1>3, <1>4, <1>5, <1>6 DEF TokenInv

\* What is fresh is valid.
LEMMA FreshIsValid ==
    ASSUME TokenInv, NEW k \in Keys, Fresh(k)
    PROVE  clock < cached[k].until
<1>1. clock < cached[k].fresh /\ cached[k].fresh <= cached[k].until
  BY DEF Fresh, TokenInv, TimesOK
<1>2. clock \in Nat /\ cached[k].fresh \in Nat /\ cached[k].until \in Nat
  BY BrokerSizes DEF TokenInv, BrokerTypeOK
<1> QED
  BY <1>1, <1>2

LEMMA ServeKeeps ==
    ASSUME TokenInv, NEW c \in Calls, NEW k \in Keys, NEW l \in Nat, Serve(c, k, l), Fresh(k),
           UNCHANGED <<clock, cached, evicted>>, lock' = lock
    PROVE  TokenInv'
<1>1. /\ outbound' \in [Calls -> CallType]
      /\ outbound'[c].pc = "served" /\ outbound'[c].since = clock
      /\ outbound'[c].until = cached[k].until
      /\ \A d \in Calls : d # c => outbound'[d] = outbound[d]
  BY ServeIs DEF TokenInv
<1>2. clock < cached[k].until
  BY FreshIsValid
<1> QED
  BY <1>1, <1>2, LeavesKeep

LEMMA CallKeeps ==
    ASSUME TokenInv, NEW c \in Calls, Call(c)
    PROVE  TokenInv'
<1> DEFINE k == KeyFor(c)
<1>1. k \in Keys
  BY BrokerSizes DEF KeyFor
<1>t. BrokerTypeOK
  BY DEF TokenInv
<1>2. CASE Fresh(k)
  <2>1. Serve(c, k, 0) /\ lock' = lock /\ UNCHANGED <<clock, cached, evicted>>
    BY <1>2 DEF Call
  <2> HIDE DEF k
  <2>2. 0 \in Nat
    OBVIOUS
  <2> QED
    BY <1>1, <1>2, <2>1, <2>2, ServeKeeps
<1>3. CASE ~Fresh(k)
  <2> DEFINE l == IF lock[k] = 0 THEN NewLock ELSE lock[k]
             p == IF InLock(k, l) \cup InLine(k, l) = {} THEN "asking" ELSE "waiting"
             q == [pc |-> p, key |-> k, lock |-> l, since |-> clock, until |-> 0]
  <2>1. /\ lock' = [lock EXCEPT ![k] = l] /\ UNCHANGED <<clock, cached, evicted>>
        /\ outbound' = [outbound EXCEPT ![c] =
              [pc |-> p, key |-> k, lock |-> l, since |-> clock, until |-> 0]]
    BY <1>3 DEF Call
  <2>2. l \in Nat /\ l # 0
    BY <1>1, <1>t, NewLockIs DEF BrokerTypeOK
  <2>3. lock' \in [Keys -> Nat] /\ lock'[k] = l /\ \A j \in Keys : lock[j] # 0 \/ j # k => lock'[j] = lock[j]
    BY <1>1, <1>t, <2>1, <2>2 DEF BrokerTypeOK
  <2>4. p \in {"asking", "waiting"} /\ (p = "asking" => InLock(k, l) = {})
    OBVIOUS
  <2> HIDE DEF l, p, k
  <2>6. /\ q \in CallType /\ q.pc = p /\ q.key = k /\ q.lock = l /\ q.since = clock
    BY <1>1, <1>t, <2>2, <2>4, BrokerSizes DEF CallType, CallPhases, BrokerTypeOK
  <2>7. clock \in Nat
    BY <1>t, BrokerSizes DEF BrokerTypeOK
  <2>8. outbound' = [outbound EXCEPT ![c] = q]
    BY <2>1
  <2> HIDE DEF q
  <2>9. /\ q.pc \in Working \cup {"waiting"} /\ q.pc # "issued"
        /\ q.pc \in Working => /\ q.since <= clock /\ clock <= q.since + Timeout
                               /\ InLock(q.key, q.lock) \subseteq {c}
                               /\ ~Fresh(q.key)
    BY <1>3, <2>4, <2>6, <2>7, BrokerSizes DEF Working
  <2>10. q.lock # 0 /\ lock'[q.key] = q.lock /\ \A j \in Keys : lock[j] # 0 \/ j # q.key => lock'[j] = lock[j]
    BY <2>2, <2>3, <2>6
  <2> QED
    BY <2>1, <2>3, <2>6, <2>8, <2>9, <2>10, AskKeeps
<1> QED
  BY <1>2, <1>3

\* A call that moves on, with another time in one of its fields.
LEMMA MovedOn ==
    ASSUME NEW r \in CallType, NEW p \in CallPhases, NEW t \in Nat
    PROVE  /\ [r EXCEPT !.pc = p, !.since = t] =
                  [pc |-> p, key |-> r.key, lock |-> r.lock, since |-> t, until |-> r.until]
           /\ [r EXCEPT !.pc = p, !.until = t] =
                  [pc |-> p, key |-> r.key, lock |-> r.lock, since |-> r.since, until |-> t]
<1>1. PICK x : x = [r EXCEPT !.pc = p]
  OBVIOUS
<1>2. x = [pc |-> p, key |-> r.key, lock |-> r.lock, since |-> r.since, until |-> r.until]
  BY <1>1 DEF CallType
<1>3. x \in CallType
  BY <1>2 DEF CallType
<1>4. [x EXCEPT !.until = t] = [pc |-> x.pc, key |-> x.key, lock |-> x.lock, since |-> x.since, until |-> t]
  BY <1>3 DEF CallType
<1>5. [x EXCEPT !.since = t] = [pc |-> x.pc, key |-> x.key, lock |-> x.lock, since |-> t, until |-> x.until]
  BY <1>3 DEF CallType
<1> QED
  BY <1>1, <1>2, <1>4, <1>5

\* The lock is had: a token came meanwhile, or one is asked for.
LEMMA AcquireKeeps ==
    ASSUME TokenInv, NEW c \in Calls, Acquire(c)
    PROVE  TokenInv'
<1> DEFINE k == outbound[c].key  l == outbound[c].lock
<1>1. /\ k \in Keys /\ l \in Nat /\ clock \in Nat /\ outbound[c] \in CallType
  BY CallIs DEF TokenInv
<1>2. CASE Fresh(k)
  <2>1. Serve(c, k, l) /\ lock' = lock /\ UNCHANGED <<clock, cached, evicted>>
    BY <1>2 DEF Acquire
  <2> HIDE DEF k, l
  <2> QED
    BY <1>1, <1>2, <2>1, ServeKeeps
<1>3. CASE ~Fresh(k)
  <2> DEFINE q == [pc |-> "asking", key |-> k, lock |-> l, since |-> clock, until |-> outbound[c].until]
  <2>1. outbound' = [outbound EXCEPT ![c] = q] /\ UNCHANGED <<clock, cached, lock, evicted>>
    <3>1. outbound' = [outbound EXCEPT ![c] = [outbound[c] EXCEPT !.pc = "asking", !.since = clock]]
          /\ UNCHANGED <<clock, cached, lock, evicted>>
      BY <1>3 DEF Acquire
    <3>2. "asking" \in CallPhases
      BY DEF CallPhases
    <3>3. [outbound[c] EXCEPT !.pc = "asking", !.since = clock] = q
      BY <1>1, <3>2, MovedOn
    <3> HIDE DEF q
    <3> QED
      BY <3>1, <3>3
  <2>2. q \in CallType /\ q.pc = "asking" /\ q.key = k /\ q.lock = l /\ q.since = clock
    BY <1>1 DEF CallType, CallPhases
  <2>3. l # 0 /\ (lock[k] = l \/ k \in evicted)
    <3>1. outbound[c].pc \in Working \cup {"waiting"}
      BY DEF Acquire
    <3> QED
      BY <3>1 DEF TokenInv, LocksOK
  <2>4. InLock(k, l) = {}
    BY DEF Acquire
  <2>5. lock' = lock /\ lock \in [Keys -> Nat]
    BY <2>1 DEF TokenInv, BrokerTypeOK
  <2> HIDE DEF k, l, q
  <2>6. /\ q.pc \in Working /\ q.pc # "issued" /\ q.since <= clock /\ clock <= q.since + Timeout
        /\ InLock(q.key, q.lock) \subseteq {c} /\ ~Fresh(q.key)
        /\ q.lock # 0 /\ (lock'[q.key] = q.lock \/ q.key \in evicted)
    BY <1>1, <1>3, <2>2, <2>3, <2>4, <2>5, BrokerSizes DEF Working
  <2> QED
    BY <2>1, <2>2, <2>5, <2>6, AskKeeps
<1> QED
  BY <1>2, <1>3

LEMMA IssueKeeps ==
    ASSUME TokenInv, NEW c \in Calls, Issue(c)
    PROVE  TokenInv'
<1> DEFINE k == outbound[c].key  l == outbound[c].lock
           q == [pc |-> "issued", key |-> k, lock |-> l, since |-> outbound[c].since,
                 until |-> clock + Life]
<1>1. /\ k \in Keys /\ l \in Nat /\ clock \in Nat /\ outbound[c] \in CallType
      /\ outbound[c].since \in Nat /\ outbound \in [Calls -> CallType]
  BY CallIs DEF TokenInv
<1>2. outbound' = [outbound EXCEPT ![c] = q] /\ UNCHANGED <<clock, cached, lock, evicted>>
  <2>1. outbound' = [outbound EXCEPT ![c] = [outbound[c] EXCEPT !.pc = "issued", !.until = clock + Life]]
        /\ UNCHANGED <<clock, cached, lock, evicted>>
    BY DEF Issue
  <2>2. "issued" \in CallPhases /\ clock + Life \in Nat
    BY <1>1, BrokerSizes DEF CallPhases
  <2>3. [outbound[c] EXCEPT !.pc = "issued", !.until = clock + Life] = q
    BY <1>1, <2>2, MovedOn
  <2> HIDE DEF q
  <2> QED
    BY <2>1, <2>3
<1>3. q \in CallType /\ q.pc = "issued" /\ q.key = k /\ q.lock = l /\ q.since = outbound[c].since
      /\ q.until = clock + Life
  BY <1>1, BrokerSizes DEF CallType, CallPhases
<1>4. outbound[c].pc = "asking" /\ outbound[c].since <= clock /\ clock <= outbound[c].since + Timeout
  BY DEF Issue, TokenInv, TimesOK, Working
<1>5. l # 0 /\ (lock[k] = l \/ k \in evicted) /\ (k \notin evicted => ~Fresh(k))
  <2>1. outbound[c].pc \in Working
    BY <1>4 DEF Working
  <2> QED
    BY <2>1 DEF TokenInv, LocksOK
<1>6. InLock(k, l) \subseteq {c}
  BY <1>4 DEF InLock, CallsAt, TokenInv, LocksOK, Working
<1>7. lock' = lock /\ lock \in [Keys -> Nat]
  BY <1>2 DEF TokenInv, BrokerTypeOK
<1> HIDE DEF k, l, q
<1>8. /\ q.pc \in Working /\ q.since <= clock /\ clock <= q.since + Timeout /\ q.until >= q.since + Life
      /\ InLock(q.key, q.lock) \subseteq {c} /\ (q.key \notin evicted => ~Fresh(q.key))
      /\ q.lock # 0 /\ (lock'[q.key] = q.lock \/ q.key \in evicted)
  BY <1>1, <1>3, <1>4, <1>5, <1>6, <1>7, BrokerSizes DEF Working
<1> QED
  BY <1>2, <1>3, <1>7, <1>8, AskKeeps

-----------------------------------------------------------------------------
\* What is dropped was cached, and it leaves room for one.
LEMMA RoomIsMade ==
    ASSUME TokenInv, NEW gone \in Victims
    PROVE  gone \subseteq Entries /\ Cardinality(Entries \ gone) <= MaxEntries - 1
<1>1. IsFiniteSet(Entries) /\ Cardinality(Entries) \in Nat /\ Cardinality(Entries) <= MaxEntries
  BY FS_CardinalityType DEF TokenInv
<1>2. CASE Cardinality(Entries) < MaxEntries
  <2>1. gone = {}
    BY <1>2 DEF Victims
  <2>2. Entries \ gone = Entries
    BY <2>1
  <2> QED
    BY <1>1, <1>2, <2>1, <2>2, BrokerSizes
<1>3. CASE ~(Cardinality(Entries) < MaxEntries) /\ Cardinality(Entries \ Expired) < MaxEntries
  <2>1. gone = Expired
    BY <1>3 DEF Victims
  <2>2. IsFiniteSet(Entries \ Expired)
    BY <1>1, FS_Subset
  <2>3. Cardinality(Entries \ Expired) \in Nat
    BY <2>2, FS_CardinalityType
  <2> QED
    BY <1>3, <2>1, <2>3, BrokerSizes DEF Expired
<1>4. CASE ~(Cardinality(Entries) < MaxEntries) /\ ~(Cardinality(Entries \ Expired) < MaxEntries)
  <2>1. PICK k \in Entries : gone = {k}
    BY <1>4 DEF Victims
  <2>2. Cardinality(Entries \ {k}) = Cardinality(Entries) - 1
    BY <1>1, <2>1, FS_RemoveElement
  <2> QED
    BY <1>1, <2>1, <2>2, BrokerSizes
<1> QED
  BY <1>2, <1>3, <1>4

LEMMA FreshUntilIs ==
    ASSUME BrokerTypeOK
    PROVE  /\ FreshUntil = clock + FreshFor /\ FreshUntil \in Nat /\ FreshUntil # 0
           /\ FreshFor \in Nat /\ FreshFor >= 1
<1> DEFINE n == Life - Slack
<1>1. n \in Int /\ clock \in Nat
  BY BrokerSizes DEF BrokerTypeOK
<1> HIDE DEF n
<1>2. Max({1, n}) \in {1, n} /\ Max({1, n}) >= 1
  <2>1. \E x \in {1, n} : \A y \in {1, n} : x >= y
    BY <1>1, SMT
  <2> QED
    BY <1>1, <2>1 DEF Max
<1>3. FreshFor = Max({1, n})
  BY DEF FreshFor, n
<1>4. FreshFor \in Int /\ FreshFor >= 1
  BY <1>1, <1>2, <1>3
<1> QED
  BY <1>1, <1>4 DEF FreshUntil

LEMMA ArrivesKeeps ==
    ASSUME TokenInv, NEW c \in Calls, TokenArrives(c)
    PROVE  TokenInv'
<1> DEFINE k == outbound[c].key
           q == [pc |-> "served", key |-> k, lock |-> outbound[c].lock, since |-> clock,
                 until |-> outbound[c].until]
           new == [fresh |-> FreshUntil, until |-> outbound[c].until]
<1>1. PICK gone \in Victims :
        /\ cached' = [j \in Keys |-> IF j = k THEN new ELSE IF j \in gone THEN None ELSE cached[j]]
        /\ lock' = [j \in Keys |-> IF j \in gone THEN 0 ELSE lock[j]]
        /\ evicted' = evicted \cup gone
  BY DEF TokenArrives
<1>2. /\ outbound \in [Calls -> CallType] /\ outbound[c] \in CallType
      /\ k \in Keys /\ outbound[c].lock \in Nat /\ outbound[c].since \in Nat /\ outbound[c].until \in Nat
      /\ clock \in Nat
  BY CallIs DEF TokenInv
<1>3. outbound' = [outbound EXCEPT ![c] = q] /\ clock' = clock
  <2>1. outbound' = [outbound EXCEPT ![c] = [outbound[c] EXCEPT !.pc = "served", !.since = clock]]
        /\ clock' = clock
    BY DEF TokenArrives
  <2>2. "served" \in CallPhases
    BY DEF CallPhases
  <2>3. [outbound[c] EXCEPT !.pc = "served", !.since = clock] = q
    BY <1>2, <2>2, MovedOn
  <2> HIDE DEF q
  <2> QED
    BY <2>1, <2>3
<1>4. q \in CallType /\ q.pc = "served" /\ q.since = clock /\ q.until = outbound[c].until
  BY <1>2 DEF CallType, CallPhases
<1>5. /\ outbound[c].pc = "issued" /\ outbound[c].since <= clock /\ clock <= outbound[c].since + Timeout
      /\ outbound[c].until >= outbound[c].since + Life
  BY DEF TokenArrives, TokenInv, TimesOK, Working
<1>6. /\ FreshUntil = clock + FreshFor /\ FreshUntil \in Nat /\ FreshUntil # 0
      /\ FreshFor \in Nat /\ FreshFor >= 1
  BY FreshUntilIs DEF TokenInv
<1>7. clock < outbound[c].until /\ FreshUntil <= outbound[c].until
  BY <1>2, <1>5, <1>6, BrokerSizes, LifeAssumption
<1>8. new \in [fresh : Nat, until : Nat] /\ new.fresh = FreshUntil /\ new.until = outbound[c].until
  BY <1>2, <1>6
<1>9. gone \subseteq Entries /\ Cardinality(Entries \ gone) <= MaxEntries - 1
  BY RoomIsMade
<1>10. gone \subseteq Keys
  BY <1>9, EntriesFinite
<1> HIDE DEF q, new
<1>11. /\ outbound' \in [Calls -> CallType] /\ outbound'[c] = q
       /\ \A d \in Calls : d # c => outbound'[d] = outbound[d]
  BY <1>3, <1>4, OneCall DEF TokenInv
<1>12. BrokerTypeOK'
  <2>1. cached' \in [Keys -> [fresh : Nat, until : Nat]]
    BY <1>1, <1>8 DEF TokenInv, BrokerTypeOK, None
  <2>2. lock' \in [Keys -> Nat] /\ evicted' \subseteq Keys
    BY <1>1, <1>10 DEF TokenInv, BrokerTypeOK
  <2> QED
    BY <1>3, <1>11, <2>1, <2>2 DEF TokenInv, BrokerTypeOK, CallType, CallPhases
<1>13. TimesOK'
  <2>1. \A d \in Calls : outbound'[d].pc \in Working =>
            outbound'[d].since <= clock' /\ clock' <= outbound'[d].since + Timeout
    BY <1>3, <1>4, <1>11 DEF TokenInv, TimesOK, Working
  <2>2. \A d \in Calls : outbound'[d].pc = "issued" => outbound'[d].until >= outbound'[d].since + Life
    BY <1>4, <1>11 DEF TokenInv, TimesOK
  <2>3. \A j \in Keys : cached'[j].fresh <= cached'[j].until
    BY <1>1, <1>7, <1>8 DEF TokenInv, TimesOK, None
  <2> QED
    BY <2>1, <2>2, <2>3 DEF TimesOK
<1>14. LocksOK'
  <2>0. \A d \in Calls : outbound'[d].pc \in Working \cup {"waiting"} => d # c /\ outbound'[d] = outbound[d]
    BY <1>4, <1>11 DEF Working
  <2>1. \A d, e \in Calls : outbound'[d].pc \in Working /\ outbound'[e].pc \in Working
            /\ outbound'[d].key = outbound'[e].key /\ outbound'[d].lock = outbound'[e].lock => d = e
    BY <2>0 DEF TokenInv, LocksOK
  <2>l. \A d \in Calls : outbound'[d].pc \in Working \cup {"waiting"} => outbound'[d].lock # 0
    BY <2>0 DEF TokenInv, LocksOK
  <2>2. ASSUME NEW d \in Calls, outbound'[d].pc \in Working \cup {"waiting"}, outbound'[d].key \notin evicted'
        PROVE  outbound'[d].lock # 0 /\ lock'[outbound'[d].key] = outbound'[d].lock
    <3>1. d # c /\ outbound'[d] = outbound[d] /\ outbound[d].key \in Keys
      BY <2>0, <2>2, CallIs DEF TokenInv
    <3>2. outbound[d].key \notin evicted /\ outbound[d].key \notin gone
      BY <1>1, <2>2, <3>1
    <3>3. outbound[d].lock # 0 /\ lock[outbound[d].key] = outbound[d].lock
      BY <2>2, <3>1, <3>2 DEF TokenInv, LocksOK
    <3> QED
      BY <1>1, <3>1, <3>2, <3>3
  <2>3. ASSUME NEW d \in Calls, outbound'[d].pc \in Working, outbound'[d].key \notin evicted'
        PROVE  ~(clock' < cached'[outbound'[d].key].fresh)
    <3>1. d # c /\ outbound'[d] = outbound[d] /\ outbound[d].key \in Keys
      BY <2>0, <2>3, CallIs DEF TokenInv
    <3>2. outbound[d].key \notin evicted /\ outbound[d].key \notin gone
      BY <1>1, <2>3, <3>1
    <3>3. outbound[d].key # k
      BY <1>5, <2>3, <3>1, <3>2 DEF TokenInv, LocksOK, Working
    <3>4. cached'[outbound[d].key] = cached[outbound[d].key]
      BY <1>1, <3>1, <3>2, <3>3
    <3>5. ~Fresh(outbound[d].key)
      BY <2>3, <3>1, <3>2 DEF TokenInv, LocksOK
    <3> QED
      BY <1>3, <3>1, <3>4, <3>5 DEF Fresh
  <2> QED
    BY <2>1, <2>l, <2>2, <2>3 DEF LocksOK, Fresh
<1>15. TokensAreValid'
  BY <1>4, <1>7, <1>11 DEF TokenInv, TokensAreValid
<1>16. IsFiniteSet(Entries') /\ Cardinality(Entries') <= MaxEntries
  <2> DEFINE left == Entries \ gone
  <2>1. Entries' \subseteq left \cup {k}
    BY <1>1 DEF Entries
  <2>2. IsFiniteSet(left) /\ IsFiniteSet(left \cup {k}) /\ Cardinality(left) \in Nat
    BY EntriesFinite, FS_Subset, FS_AddElement, FS_CardinalityType
  <2>3. Cardinality(left \cup {k}) <= Cardinality(left) + 1 /\ Cardinality(left \cup {k}) \in Nat
    <3>1. Cardinality(left \cup {k}) = IF k \in left THEN Cardinality(left) ELSE Cardinality(left) + 1
      BY <2>2, FS_AddElement
    <3> HIDE DEF left
    <3> QED
      BY <2>2, <3>1
  <2>4. Cardinality(Entries') <= Cardinality(left \cup {k}) /\ Cardinality(Entries') \in Nat
    BY <2>1, <2>2, EntriesFinite, FS_Subset, FS_CardinalityType
  <2>5. Cardinality(left) <= MaxEntries - 1
    BY <1>9
  <2> HIDE DEF left
  <2> QED
    BY <2>2, <2>3, <2>4, <2>5, EntriesFinite, BrokerSizes
<1> QED
  BY <1>12, <1>13, <1>14, <1>15, <1>16 DEF TokenInv

LEMMA FailsKeep ==
    ASSUME TokenInv, NEW c \in Calls, Fails(c)
    PROVE  TokenInv'
<1> DEFINE q == [outbound[c] EXCEPT !.pc = "failed"]
<1>1. outbound[c] \in CallType
  BY CallIs DEF TokenInv
<1>2. q \in CallType /\ q.pc = "failed"
  BY <1>1 DEF CallType, CallPhases
<1>3. outbound' = [outbound EXCEPT ![c] = q] /\ UNCHANGED <<clock, cached, lock, evicted>>
  BY DEF Fails
<1> HIDE DEF q
<1>4. /\ outbound' \in [Calls -> CallType] /\ outbound'[c] = q
      /\ \A d \in Calls : d # c => outbound'[d] = outbound[d]
  BY <1>2, <1>3, OneCall DEF TokenInv
<1> QED
  BY <1>2, <1>3, <1>4, LeavesKeep

LEMMA TickKeeps ==
    ASSUME TokenInv, Tick
    PROVE  TokenInv'
<1>1. clock \in Nat /\ clock' = clock + 1 /\ clock' \in 1..MaxTime
  BY BrokerSizes DEF Tick, TokenInv, BrokerTypeOK
<1>2. UNCHANGED <<cached, lock, outbound, evicted>>
  BY DEF Tick
<1>3. BrokerTypeOK'
  BY <1>1, <1>2 DEF TokenInv, BrokerTypeOK
<1>4. TimesOK'
  <2>1. ASSUME NEW c \in Calls, outbound[c].pc \in Working
        PROVE  outbound[c].since <= clock + 1 /\ clock + 1 <= outbound[c].since + Timeout
    <3>1. outbound[c].since \in Nat /\ outbound[c].since <= clock
      BY <2>1, CallIs DEF TokenInv, TimesOK
    <3>2. clock - outbound[c].since < Timeout
      BY <2>1 DEF Tick, Working
    <3> QED
      BY <1>1, <3>1, <3>2, BrokerSizes
  <2> QED
    BY <1>1, <1>2, <2>1 DEF TokenInv, TimesOK
<1>5. LocksOK'
  <2>1. \A j \in Keys : Fresh(j)' => Fresh(j)
    <3> TAKE j \in Keys
    <3>1. cached[j].fresh \in Nat
      BY DEF TokenInv, BrokerTypeOK
    <3> QED
      BY <1>1, <1>2, <3>1 DEF Fresh
  <2>2. \A c \in Calls : outbound[c].key \in Keys
    BY CallIs DEF TokenInv
  <2> QED
    BY <1>2, <2>1, <2>2 DEF TokenInv, LocksOK
<1>6. TokensAreValid' /\ Entries' = Entries
  BY <1>2 DEF TokenInv, TokensAreValid, Entries
<1> QED
  BY <1>3, <1>4, <1>5, <1>6 DEF TokenInv

LEMMA TokenStep == TokenInv /\ [BrokerNext]_brokerVars => TokenInv'
<1> SUFFICES ASSUME TokenInv, [BrokerNext]_brokerVars PROVE TokenInv'
  OBVIOUS
<1>1. CASE UNCHANGED brokerVars
  BY <1>1 DEF brokerVars, TokenInv, BrokerTypeOK, TimesOK, LocksOK, TokensAreValid, Entries, Fresh
<1>2. CASE Tick
  BY <1>2, TickKeeps
<1>3. ASSUME NEW c \in Calls, Call(c) PROVE TokenInv'
  BY <1>3, CallKeeps
<1>4. ASSUME NEW c \in Calls, CallSteps(c) PROVE TokenInv'
  BY <1>4, AcquireKeeps, IssueKeeps, ArrivesKeeps, FailsKeep DEF CallSteps
<1> QED
  BY <1>1, <1>2, <1>3, <1>4 DEF BrokerNext

\* Of one key whose lock was not dropped one request asks.
LEMMA TokenInvMeans == TokenInv => TokensAreShared
<1> SUFFICES ASSUME TokenInv PROVE TokensAreShared
  OBVIOUS
<1>1. ASSUME NEW k \in Keys \ evicted
      PROVE  LET asking == {c \in Calls : outbound[c].pc = "asking" /\ outbound[c].key = k}
             IN  Cardinality(asking) <= 1 /\ (asking # {} => ~Fresh(k))
  <2> DEFINE asking == {c \in Calls : outbound[c].pc = "asking" /\ outbound[c].key = k}
  <2>1. \A c \in asking : lock[k] = outbound[c].lock /\ ~Fresh(k)
    BY DEF TokenInv, LocksOK, Working
  <2>2. \A c, d \in asking : c = d
    BY <2>1 DEF TokenInv, LocksOK, Working
  <2>3. CASE asking = {}
    BY <2>3, FS_EmptySet
  <2>4. CASE asking # {}
    <3>1. PICK c \in asking : TRUE
      BY <2>4
    <3>2. asking = {c}
      BY <2>2, <3>1
    <3>3. Cardinality(asking) = 1
      BY <3>2, FS_Singleton
    <3> QED
      BY <2>1, <3>1, <3>3
  <2> QED
    BY <2>3, <2>4
<1> QED
  BY <1>1 DEF TokenInv, TokensAreShared, OneExchangePerKey

-----------------------------------------------------------------------------
(***************************************************************************)
(* The door.  What the cache lacks was published since the keys were last  *)
(* asked for, unless that failed; what it has and is not published any     *)
(* more was retired since they were fetched, or while they were (CacheOK). *)
(***************************************************************************)
VisitType == [pc : {"waiting", "fetching", "read"}, ask : Asks, read : SUBSET KeyIds]
ProviderType == [key : [KeyIds -> {"future", "served", "retired"}], age : [KeyIds -> 0..LongAgo],
                 up : BOOLEAN, outages : 0..MaxOutages]
JwksType == [keys : SUBSET KeyIds, fetched : 0..LongAgo, attempted : 0..LongAgo, failed : BOOLEAN]
VerdictType == [code : {200, 401, 403, 503}, ask : Asks]

DoorOK ==
    /\ provider \in ProviderType /\ jwks \in JwksType
    /\ visit = [v \in Visits |-> visit[v]] /\ \A v \in Visits : visit[v] \in {NoVisit} \cup VisitType
    /\ line \in Seq(Visits) /\ IsInjective(line)
    /\ ToSet(line) = {v \in Visits : visit[v].pc = "waiting"}
    /\ verdict \in {NoVerdict} \cup VerdictType

OneAtLock ==
    /\ \A v, w \in AtLock : v = w
    /\ AtLock # {} => jwks.attempted <= FetchTimeout

CacheOK ==
    /\ AtLock = {} /\ ~jwks.failed =>
          /\ \A k \in Published \ jwks.keys : provider.age[k] <= jwks.attempted
          /\ jwks.fetched <= jwks.attempted
    /\ \A k \in jwks.keys \ Published : provider.age[k] <= jwks.fetched + FetchTimeout
    /\ \A v \in Visits : visit[v].pc = "read" =>
          \A k \in (Published \ visit[v].read) \cup (visit[v].read \ Published) :
              provider.age[k] <= jwks.attempted

DoorInv == DoorOK /\ OneAtLock /\ CacheOK /\ NoSessionDies /\ RetiredKeysGo

LEMMA DoorSizes ==
    /\ KeyTTL \in Nat /\ Interval \in Nat /\ FetchTimeout \in Nat /\ MaxOutages \in Nat
    /\ FetchTimeout >= 1 /\ FetchTimeout <= Interval /\ Interval + FetchTimeout < KeyTTL
    /\ LongAgo = KeyTTL + FetchTimeout /\ LongAgo \in Nat
    /\ SigningKeys \in Seq(STRING) /\ SigningKeys # << >> /\ Nobody \notin KeyIds
    /\ \A ask \in Asks : ask.good => ask.kid \in KeyIds
    /\ \A i \in DOMAIN SigningKeys : SigningKeys[i] \in KeyIds
BY AdmissionAssumption DEF LongAgo, KeyIds, ToSet

LEMMA DoorTypes == DoorInv => AdmissionTypeOK /\ Cardinality(AtLock) <= 1
<1> SUFFICES ASSUME DoorInv PROVE AdmissionTypeOK /\ Cardinality(AtLock) <= 1
  OBVIOUS
<1>1. AdmissionTypeOK
  BY DEF DoorInv, DoorOK, AdmissionTypeOK, ProviderType, JwksType, VisitType
<1>2. CASE AtLock = {}
  BY <1>1, <1>2, FS_EmptySet
<1>3. CASE AtLock # {}
  <2>1. PICK v \in AtLock : TRUE
    BY <1>3
  <2>2. AtLock = {v}
    BY <2>1 DEF DoorInv, OneAtLock
  <2> QED
    BY <1>1, <2>2, FS_Singleton
<1> QED
  BY <1>2, <1>3

LEMMA DoorInit_Inv == AdmissionInit => DoorInv
<1> SUFFICES ASSUME AdmissionInit PROVE DoorInv
  OBVIOUS
<1>1. provider \in ProviderType
  BY DoorSizes DEF AdmissionInit, ProviderType
<1>2. jwks \in JwksType
  BY DoorSizes DEF AdmissionInit, JwksType
<1>3. line = << >> /\ \A v \in Visits : visit[v] = NoVisit /\ visit[v].pc = "free"
  BY DEF AdmissionInit, NoVisit
<1>4. visit = [v \in Visits |-> visit[v]] /\ verdict = NoVerdict
  BY DEF AdmissionInit
<1>5. IsInjective(line) /\ ToSet(line) = {} /\ line \in Seq(Visits)
  BY <1>3 DEF IsInjective, ToSet
<1>6. AtLock = {}
  BY <1>3 DEF AtLock
<1>7. OneAtLock
  BY <1>6 DEF OneAtLock
<1>8. CacheOK
  <2>1. jwks.keys = {} /\ jwks.fetched = LongAgo /\ jwks.attempted = LongAgo
    BY DEF AdmissionInit
  <2>2. \A k \in KeyIds : provider.age[k] = LongAgo
    BY DEF AdmissionInit
  <2> QED
    BY <1>3, <2>1, <2>2, DoorSizes DEF CacheOK, Published
<1>9. NoSessionDies /\ RetiredKeysGo
  BY <1>4 DEF NoSessionDies, RetiredKeysGo, Told, NoVerdict
<1> QED
  BY <1>1, <1>2, <1>3, <1>4, <1>5, <1>7, <1>8, <1>9 DEF DoorInv, DoorOK

-----------------------------------------------------------------------------
\* A line one more joins, and one whose first goes.
LEMMA LineGrows ==
    ASSUME NEW S, NEW s \in Seq(S), IsInjective(s), NEW v \in S, v \notin ToSet(s)
    PROVE  /\ Append(s, v) \in Seq(S) /\ IsInjective(Append(s, v))
           /\ ToSet(Append(s, v)) = ToSet(s) \cup {v}
<1> DEFINE t == Append(s, v)
<1>1. /\ t \in Seq(S) /\ Len(t) = Len(s) + 1 /\ t[Len(s) + 1] = v /\ Len(s) \in Nat
      /\ \A i \in 1..Len(s) : t[i] = s[i] /\ s[i] \in ToSet(s)
      /\ DOMAIN t = 1..(Len(s) + 1) /\ DOMAIN s = 1..Len(s)
  BY DEF ToSet
<1>2. \A i \in DOMAIN t : i = Len(s) + 1 \/ i \in DOMAIN s
  BY <1>1
<1> HIDE DEF t
<1>3. IsInjective(t)
  BY <1>1, <1>2 DEF IsInjective
<1>4. ToSet(t) = ToSet(s) \cup {v}
  BY <1>1, <1>2 DEF ToSet
<1> QED
  BY <1>1, <1>3, <1>4 DEF t

LEMMA LineMoves ==
    ASSUME NEW S, NEW s \in Seq(S), s # << >>, IsInjective(s)
    PROVE  /\ Head(s) \in ToSet(s) /\ Tail(s) \in Seq(S) /\ IsInjective(Tail(s))
           /\ ToSet(Tail(s)) = ToSet(s) \ {Head(s)}
<1> DEFINE t == Tail(s)
<1>1. /\ t \in Seq(S) /\ Len(s) \in Nat /\ Len(s) >= 1 /\ Head(s) = s[1] /\ DOMAIN s = 1..Len(s)
      /\ DOMAIN t = 1..(Len(s) - 1) /\ \A i \in 1..(Len(s) - 1) : t[i] = s[i + 1]
  OBVIOUS
<1> HIDE DEF t
<1>2. IsInjective(t)
  <2>1. ASSUME NEW i \in DOMAIN t, NEW j \in DOMAIN t, t[i] = t[j] PROVE i = j
    <3>1. i + 1 \in DOMAIN s /\ j + 1 \in DOMAIN s /\ s[i + 1] = s[j + 1] /\ i \in Int /\ j \in Int
      BY <1>1, <2>1
    <3>2. i + 1 = j + 1
      BY <3>1 DEF IsInjective
    <3> QED
      BY <3>1, <3>2
  <2> QED
    BY <2>1 DEF IsInjective
<1>3. ASSUME NEW x PROVE x \in ToSet(t) <=> x \in ToSet(s) /\ x # Head(s)
  <2>1. ASSUME x \in ToSet(t) PROVE x \in ToSet(s) /\ x # Head(s)
    <3>1. PICK i \in DOMAIN t : x = t[i]
      BY <2>1 DEF ToSet
    <3>2. i \in Int /\ i + 1 \in DOMAIN s /\ x = s[i + 1] /\ i + 1 # 1 /\ 1 \in DOMAIN s
      BY <1>1, <3>1
    <3>3. s[i + 1] # s[1]
      BY <3>2 DEF IsInjective
    <3> QED
      BY <1>1, <3>2, <3>3 DEF ToSet
  <2>2. ASSUME x \in ToSet(s), x # Head(s) PROVE x \in ToSet(t)
    <3>1. PICK i \in DOMAIN s : x = s[i]
      BY <2>2 DEF ToSet
    <3>2. i \in Int /\ i # 1 /\ i - 1 \in DOMAIN t /\ t[i - 1] = s[(i - 1) + 1] /\ (i - 1) + 1 = i
      BY <1>1, <2>2, <3>1
    <3> QED
      BY <3>1, <3>2 DEF ToSet
  <2> QED
    BY <2>1, <2>2
<1>4. Head(s) \in ToSet(s)
  BY <1>1 DEF ToSet
<1> QED
  BY <1>1, <1>2, <1>3, <1>4 DEF t

\* Two fields of the provider's to, and what the code makes of the cache.
LEMMA FieldsSet ==
    ASSUME NEW r \in ProviderType, NEW a \in [KeyIds -> {"future", "served", "retired"}],
           NEW b \in [KeyIds -> 0..LongAgo]
    PROVE  [r EXCEPT !.key = a, !.age = b] = [key |-> a, age |-> b, up |-> r.up, outages |-> r.outages]
<1>1. PICK x : x = [r EXCEPT !.key = a]
  OBVIOUS
<1>2. x = [key |-> a, age |-> r.age, up |-> r.up, outages |-> r.outages] /\ x \in ProviderType
  BY <1>1 DEF ProviderType
<1>3. [x EXCEPT !.age = b] = [key |-> x.key, age |-> b, up |-> x.up, outages |-> x.outages]
  BY <1>2 DEF ProviderType
<1> QED
  BY <1>1, <1>2, <1>3

\* The type invariant by its fields.
LEMMA DoorFields ==
    ASSUME DoorInv
    PROVE  /\ provider \in ProviderType /\ jwks \in JwksType /\ provider.age \in [KeyIds -> 0..LongAgo]
           /\ provider.key \in [KeyIds -> {"future", "served", "retired"}]
           /\ \A k \in KeyIds : provider.age[k] \in Nat /\ provider.age[k] <= LongAgo
           /\ jwks.keys \subseteq KeyIds /\ Published \subseteq KeyIds
           /\ jwks.fetched \in 0..LongAgo /\ jwks.attempted \in 0..LongAgo /\ jwks.failed \in BOOLEAN
           /\ jwks.fetched \in Nat /\ jwks.attempted \in Nat
           /\ \A v \in Visits : visit[v].pc = "read" => visit[v].read \subseteq KeyIds
           /\ \A c \in {200, 401} : Told(c) => verdict.ask \in Asks /\ verdict.ask.kid \in KeyIds
<1>1. provider \in ProviderType /\ jwks \in JwksType
  BY DEF DoorInv, DoorOK
<1>2. /\ provider.age \in [KeyIds -> 0..LongAgo]
      /\ provider.key \in [KeyIds -> {"future", "served", "retired"}]
  BY <1>1 DEF ProviderType
<1>3. \A k \in KeyIds : provider.age[k] \in Nat /\ provider.age[k] <= LongAgo
  BY <1>2, DoorSizes
<1>4. /\ jwks.keys \subseteq KeyIds /\ Published \subseteq KeyIds
      /\ jwks.fetched \in 0..LongAgo /\ jwks.attempted \in 0..LongAgo /\ jwks.failed \in BOOLEAN
  BY <1>1 DEF JwksType, Published
<1>5. \A v \in Visits : visit[v].pc = "read" => visit[v].read \subseteq KeyIds
  BY DEF DoorInv, DoorOK, VisitType, NoVisit
<1>6. ASSUME NEW c \in {200, 401}, Told(c) PROVE verdict.ask \in Asks /\ verdict.ask.kid \in KeyIds
  <2>1. verdict \in VerdictType /\ verdict.ask.good
    BY <1>6 DEF DoorInv, DoorOK, Told, NoVerdict
  <2>2. verdict.ask \in Asks
    BY <2>1 DEF VerdictType
  <2> QED
    BY <2>1, <2>2, DoorSizes
<1> QED
  BY <1>1, <1>2, <1>3, <1>4, <1>5, <1>6, DoorSizes

\* A key whose to changed is of age zero.
LEMMA ProviderKeeps ==
    ASSUME DoorInv, UNCHANGED <<jwks, visit, line, verdict>>, provider' \in ProviderType,
           \A k \in KeyIds : \/ provider'.age[k] = 0
                             \/ provider'.age[k] = provider.age[k] /\ provider'.key[k] = provider.key[k]
    PROVE  DoorInv'
<1>1. \A k \in KeyIds : \/ provider'.age[k] = 0
                        \/ provider'.age[k] = provider.age[k] /\ (k \in Published' <=> k \in Published)
  BY DEF Published
<1>2. Published' \subseteq KeyIds
  BY DEF Published
<1>3. DoorOK' /\ AtLock' = AtLock
  BY DEF DoorInv, DoorOK, AtLock
<1>4. OneAtLock'
  BY <1>3 DEF DoorInv, OneAtLock
<1>5. CacheOK'
  <2>1. ASSUME AtLock = {}, ~jwks.failed
        PROVE  /\ \A k \in Published' \ jwks.keys : provider'.age[k] <= jwks.attempted
               /\ jwks.fetched <= jwks.attempted
    BY <1>1, <1>2, <2>1, DoorFields DEF DoorInv, CacheOK
  <2>2. \A k \in jwks.keys \ Published' : provider'.age[k] <= jwks.fetched + FetchTimeout
    BY <1>1, <1>2, DoorFields, DoorSizes DEF DoorInv, CacheOK
  <2>3. \A v \in Visits : visit[v].pc = "read" =>
          \A k \in (Published' \ visit[v].read) \cup (visit[v].read \ Published') :
              provider'.age[k] <= jwks.attempted
    BY <1>1, <1>2, DoorFields DEF DoorInv, CacheOK
  <2> QED
    BY <1>3, <2>1, <2>2, <2>3 DEF CacheOK
<1>6. NoSessionDies'
  BY <1>1, DoorFields, DoorSizes DEF DoorInv, NoSessionDies, Told
<1>7. RetiredKeysGo'
  BY <1>1, DoorFields, DoorSizes DEF DoorInv, RetiredKeysGo, Told
<1> QED
  BY <1>3, <1>4, <1>5, <1>6, <1>7 DEF DoorInv

LEMMA BecomesKeeps ==
    ASSUME DoorInv, NEW k \in KeyIds, NEW to \in {"served", "retired"}, KeyBecomes(k, to),
           UNCHANGED <<jwks, visit, line, verdict>>
    PROVE  DoorInv'
<1> DEFINE a == [provider.key EXCEPT ![k] = to]
           b == [provider.age EXCEPT ![k] = 0]
<1>1. provider' = [provider EXCEPT !.key = a, !.age = b]
  BY DEF KeyBecomes
<1>2. /\ a \in [KeyIds -> {"future", "served", "retired"}] /\ b \in [KeyIds -> 0..LongAgo]
      /\ b[k] = 0 /\ \A j \in KeyIds : j # k => a[j] = provider.key[j] /\ b[j] = provider.age[j]
  BY DoorFields, DoorSizes
<1> HIDE DEF a, b
<1>3. provider' = [key |-> a, age |-> b, up |-> provider.up, outages |-> provider.outages]
  BY <1>1, <1>2, DoorFields, FieldsSet
<1>5. provider' \in ProviderType /\ provider'.key = a /\ provider'.age = b
  BY <1>2, <1>3, DoorFields DEF ProviderType
<1> QED
  BY <1>2, <1>5, ProviderKeeps

LEMMA ReachKeeps ==
    ASSUME DoorInv, Reach
    PROVE  DoorInv'
<1> DEFINE u == ~provider.up  n == IF provider.up THEN provider.outages + 1 ELSE provider.outages
<1>1. provider' = [provider EXCEPT !.up = u, !.outages = n] /\ UNCHANGED <<jwks, visit, line, verdict>>
  BY DEF Reach
<1>2. u \in BOOLEAN /\ n \in 0..MaxOutages
  BY DoorFields, DoorSizes DEF Reach, ProviderType
<1> HIDE DEF u, n
<1>3. provider' = [key |-> provider.key, age |-> provider.age, up |-> u, outages |-> n]
  <2>1. provider \in ProviderType
    BY DoorFields
  <2>2. [provider EXCEPT !.up = u, !.outages = n] =
            [key |-> provider.key, age |-> provider.age, up |-> u, outages |-> n]
    <3>1. PICK y : y = [provider EXCEPT !.up = u]
      OBVIOUS
    <3>2. y = [key |-> provider.key, age |-> provider.age, up |-> u, outages |-> provider.outages]
          /\ y \in ProviderType
      BY <1>2, <2>1, <3>1 DEF ProviderType
    <3>3. [y EXCEPT !.outages = n] = [key |-> y.key, age |-> y.age, up |-> y.up, outages |-> n]
      BY <3>2 DEF ProviderType
    <3> QED
      BY <3>1, <3>2, <3>3
  <2> QED
    BY <1>1, <2>2
<1>4. provider' \in ProviderType /\ provider'.key = provider.key /\ provider'.age = provider.age
  BY <1>2, <1>3, DoorFields DEF ProviderType
<1> QED
  BY <1>1, <1>4, ProviderKeeps

LEMMA OlderIs ==
    ASSUME NEW a \in 0..LongAgo
    PROVE  /\ Older(a) \in 0..LongAgo /\ Older(a) <= a + 1 /\ (a # LongAgo => Older(a) = a + 1)
           /\ \A b \in 0..LongAgo : b <= a => Older(b) <= Older(a)
BY DoorSizes DEF Older

LEMMA TimeKeeps ==
    ASSUME DoorInv, TimePasses
    PROVE  DoorInv'
<1> DEFINE b == [k \in KeyIds |-> Older(provider.age[k])]
           f == Older(jwks.fetched)  t == Older(jwks.attempted)
<1>1. provider' = [provider EXCEPT !.age = b] /\ jwks' = [jwks EXCEPT !.fetched = f, !.attempted = t]
      /\ verdict' = NoVerdict /\ UNCHANGED <<visit, line>>
  BY DEF TimePasses
<1>2. b \in [KeyIds -> 0..LongAgo] /\ f \in 0..LongAgo /\ t \in 0..LongAgo
  <2>1. \A k \in KeyIds : provider.age[k] \in 0..LongAgo
    BY DoorFields
  <2>2. \A a \in 0..LongAgo : Older(a) \in 0..LongAgo
    BY OlderIs
  <2>3. jwks.fetched \in 0..LongAgo /\ jwks.attempted \in 0..LongAgo
    BY DoorFields
  <2> QED
    BY <2>1, <2>2, <2>3
<1>3. /\ provider.age \in [KeyIds -> 0..LongAgo] /\ \A k \in KeyIds : b[k] = Older(provider.age[k])
  BY DoorFields
<1> HIDE DEF b
<1>4. provider' \in ProviderType /\ provider'.key = provider.key /\ provider'.age = b
  BY <1>1, <1>2, DoorFields DEF ProviderType
<1>5. jwks' = [keys |-> jwks.keys, fetched |-> f, attempted |-> t, failed |-> jwks.failed]
  <2> HIDE DEF f, t
  <2>1. PICK x : x = [jwks EXCEPT !.fetched = f]
    OBVIOUS
  <2>2. x = [keys |-> jwks.keys, fetched |-> f, attempted |-> jwks.attempted, failed |-> jwks.failed]
        /\ x \in JwksType
    BY <1>2, <2>1, DoorFields DEF JwksType
  <2>3. [x EXCEPT !.attempted = t] = [keys |-> x.keys, fetched |-> x.fetched, attempted |-> t, failed |-> x.failed]
    BY <2>2 DEF JwksType
  <2> QED
    BY <1>1, <2>1, <2>2, <2>3
<1>6. jwks' \in JwksType
  BY <1>2, <1>5, DoorFields DEF JwksType
<1>7. /\ jwks'.keys = jwks.keys /\ jwks'.failed = jwks.failed
      /\ jwks'.fetched = f /\ jwks'.attempted = t
  BY <1>5
<1>8. DoorOK' /\ AtLock' = AtLock /\ Published' = Published
  BY <1>1, <1>4, <1>6 DEF DoorInv, DoorOK, AtLock, Published
<1>9. \A k \in KeyIds : provider.age[k] <= jwks.attempted => b[k] <= t
  BY <1>3, DoorFields, OlderIs
<1>10. OneAtLock'
  <2>1. AtLock # {} => t <= FetchTimeout
    <3>1. AtLock # {} => jwks.attempted < FetchTimeout
      BY DEF TimePasses
    <3>2. t <= jwks.attempted + 1 /\ t \in 0..LongAgo
      BY <1>2, DoorFields, OlderIs
    <3> HIDE DEF t
    <3> QED
      BY <3>1, <3>2, DoorFields, DoorSizes
  <2> QED
    BY <1>7, <1>8, <2>1 DEF DoorInv, OneAtLock
<1>11. CacheOK'
  <2>1. ASSUME AtLock = {}, ~jwks.failed
        PROVE  (\A k \in Published \ jwks.keys : b[k] <= t) /\ f <= t
    BY <1>9, <2>1, DoorFields, OlderIs DEF DoorInv, CacheOK
  <2>2. ASSUME NEW k \in jwks.keys \ Published PROVE b[k] <= f + FetchTimeout
    <3>1. provider.age[k] <= jwks.fetched + FetchTimeout /\ k \in KeyIds
      BY DoorFields DEF DoorInv, CacheOK
    <3>2. b[k] <= provider.age[k] + 1 /\ b[k] \in 0..LongAgo
      <4>1. provider.age[k] \in 0..LongAgo /\ b[k] = Older(provider.age[k])
        BY <1>3, <3>1
      <4> QED
        BY <4>1, OlderIs
    <3>3. f = jwks.fetched + 1 \/ f = LongAgo
      BY DoorFields, OlderIs DEF Older
    <3> HIDE DEF f
    <3> QED
      BY <3>1, <3>2, <3>3, DoorFields, DoorSizes
  <2>3. \A v \in Visits : visit[v].pc = "read" =>
          \A k \in (Published \ visit[v].read) \cup (visit[v].read \ Published) : b[k] <= t
    BY <1>9, DoorFields DEF DoorInv, CacheOK
  <2> QED
    BY <1>1, <1>4, <1>7, <1>8, <2>1, <2>2, <2>3 DEF CacheOK
<1>12. NoSessionDies' /\ RetiredKeysGo'
  BY <1>1 DEF NoSessionDies, RetiredKeysGo, Told, NoVerdict
<1> QED
  BY <1>8, <1>10, <1>11, <1>12 DEF DoorInv

-----------------------------------------------------------------------------
(***************************************************************************)
(* A request that is answered, with what must hold of the key it named.    *)
(***************************************************************************)
Outcomes == {"key", "refused", "unavailable"}
MayRefuse(ask) == ask.kid \notin Published \/ provider.age[ask.kid] <= Interval
MayOpen(ask) ==
    \/ ask.kid \in Published
    \/ provider.age[ask.kid] < KeyTTL + FetchTimeout
    \/ jwks.failed /\ jwks.attempted <= Interval

LEMMA AnsweredIs ==
    ASSUME DoorInv, NEW v \in Visits, NEW ask \in Asks, NEW out \in Outcomes, Answered(v, ask, out)
    PROVE  /\ visit' = [w \in Visits |-> visit'[w]]
           /\ visit'[v] = NoVisit /\ visit'[v].pc = "free"
           /\ \A w \in Visits : w # v => visit'[w] = visit[w]
           /\ verdict' \in VerdictType /\ verdict'.ask = ask
           /\ Told(401)' => out = "refused" /\ ask.good
           /\ Told(200)' => out = "key" /\ ask.good
<1>1. /\ visit' = [visit EXCEPT ![v] = NoVisit]
      /\ verdict' = [code |-> Answer(ask, out), ask |-> ask]
  BY DEF Answered
<1>2. visit = [w \in Visits |-> visit[w]]
  BY DEF DoorInv, DoorOK
<1>3. /\ Answer(ask, out) \in {200, 401, 403, 503}
      /\ Answer(ask, out) = 401 /\ ~ask.anonymous /\ ask.good => out = "refused"
      /\ Answer(ask, out) = 200 /\ ~ask.anonymous => out = "key"
  BY DEF Answer, Outcomes
<1>4. verdict' \in VerdictType /\ verdict'.ask = ask /\ verdict'.code = Answer(ask, out)
  BY <1>1, <1>3 DEF VerdictType
<1>5. (Told(401)' => out = "refused" /\ ask.good) /\ (Told(200)' => out = "key" /\ ask.good)
  BY <1>3, <1>4 DEF Told
<1>6. /\ visit' = [w \in Visits |-> visit'[w]]
      /\ visit'[v] = NoVisit /\ \A w \in Visits : w # v => visit'[w] = visit[w]
  BY <1>1, <1>2
<1> QED
  BY <1>4, <1>5, <1>6 DEF NoVisit

LEMMA AnswerKeeps ==
    ASSUME DoorInv, NEW v \in Visits, NEW ask \in Asks, NEW out \in Outcomes, Answered(v, ask, out),
           provider' = provider, jwks' \in JwksType, jwks' = jwks \/ AtLock = {v}, CacheOK',
           line' \in Seq(Visits), IsInjective(line'), ToSet(line') = ToSet(line) \ {v},
           out = "refused" /\ ask.good => MayRefuse(ask),
           out = "key" /\ ask.good => MayOpen(ask)'
    PROVE  DoorInv'
<1>1. /\ visit' = [w \in Visits |-> visit'[w]]
      /\ visit'[v] = NoVisit /\ visit'[v].pc = "free"
      /\ \A w \in Visits : w # v => visit'[w] = visit[w]
      /\ verdict' \in VerdictType /\ verdict'.ask = ask
      /\ Told(401)' => out = "refused" /\ ask.good
      /\ Told(200)' => out = "key" /\ ask.good
  BY AnsweredIs
<1>2. \A w \in Visits : visit'[w] \in {NoVisit} \cup VisitType
  BY <1>1 DEF DoorInv, DoorOK
<1>3. ToSet(line') = {w \in Visits : visit'[w].pc = "waiting"}
  BY <1>1 DEF DoorInv, DoorOK
<1>4. DoorOK'
  BY <1>1, <1>2, <1>3 DEF DoorInv, DoorOK
<1>5. AtLock' = AtLock \ {v}
  BY <1>1 DEF AtLock
<1>6. OneAtLock'
  BY <1>5 DEF DoorInv, OneAtLock
<1>7. NoSessionDies'
  BY <1>1 DEF NoSessionDies, MayRefuse, Published
<1>8. RetiredKeysGo'
  BY <1>1 DEF RetiredKeysGo, MayOpen, Published
<1> QED
  BY <1>4, <1>6, <1>7, <1>8 DEF DoorInv

\* A request that is not answered yet leaves the last verdict as right as it was.
LEMMA VerdictStays ==
    ASSUME DoorInv, UNCHANGED <<provider, verdict>>, jwks'.failed = jwks.failed,
           jwks'.attempted = jwks.attempted \/ jwks'.attempted = 0
    PROVE  NoSessionDies' /\ RetiredKeysGo'
<1>1. Published' = Published /\ \A c : Told(c)' <=> Told(c)
  BY DEF Published, Told
<1> QED
  BY <1>1, DoorSizes DEF DoorInv, NoSessionDies, RetiredKeysGo

\* What the cache of a lock that is free, or a key that is fresh, lets be said.
LEMMA CacheSays ==
    ASSUME DoorInv, NEW ask \in Asks, ask.good
    PROVE  /\ KeyFresh(ask.kid) => MayOpen(ask)
           /\ AtLock = {} /\ ~MayRefresh /\ ask.kid \in jwks.keys => MayOpen(ask)
           /\ AtLock = {} /\ ~MayRefresh /\ ask.kid \notin jwks.keys /\ ~jwks.failed => MayRefuse(ask)
<1> DEFINE k == ask.kid
<1>1. k \in KeyIds
  BY DoorSizes
<1>2. k \in jwks.keys => k \in Published \/ provider.age[k] <= jwks.fetched + FetchTimeout
  BY DEF DoorInv, CacheOK
<1>3. AtLock = {} /\ ~jwks.failed => jwks.fetched <= jwks.attempted
                                      /\ (k \in Published \ jwks.keys => provider.age[k] <= jwks.attempted)
  BY DEF DoorInv, CacheOK
<1>4. provider.age[k] \in Nat /\ jwks.fetched \in Nat /\ jwks.attempted \in Nat
  BY <1>1, DoorFields
<1> HIDE DEF k
<1>5. k \in jwks.keys /\ jwks.fetched < KeyTTL => k \in Published \/ provider.age[k] < KeyTTL + FetchTimeout
  BY <1>2, <1>4, DoorSizes
<1>6. AtLock = {} /\ jwks.attempted < Interval /\ k \in jwks.keys =>
          \/ k \in Published \/ provider.age[k] < KeyTTL + FetchTimeout
          \/ jwks.failed /\ jwks.attempted <= Interval
  BY <1>2, <1>3, <1>4, DoorSizes
<1>7. AtLock = {} /\ jwks.attempted < Interval /\ k \notin jwks.keys /\ ~jwks.failed =>
          k \notin Published \/ provider.age[k] <= Interval
  BY <1>3, <1>4, DoorSizes
<1>8. ~MayRefresh => jwks.attempted < Interval
  BY <1>4, DoorSizes DEF MayRefresh
<1> QED
  BY <1>5, <1>6, <1>7, <1>8 DEF k, KeyFresh, MayOpen, MayRefuse

-----------------------------------------------------------------------------
LEMMA ComeKeeps ==
    ASSUME DoorInv, NEW v \in Visits, Come(v)
    PROVE  DoorInv'
<1>1. PICK ask \in Asks :
        IF ask.kid = Nobody THEN Answered(v, ask, "refused") /\ line' = line
        ELSE IF KeyFresh(ask.kid) THEN Answered(v, ask, "key") /\ line' = line
        ELSE /\ visit' = [visit EXCEPT ![v] = [pc |-> "waiting", ask |-> ask, read |-> {}]]
             /\ line' = Append(line, v) /\ UNCHANGED verdict
  BY DEF Come
<1>2. visit[v].pc = "free" /\ visit[v] = NoVisit /\ UNCHANGED <<provider, jwks>>
  BY DEF Come, DoorInv, DoorOK, VisitType
<1>3. v \notin AtLock /\ v \notin ToSet(line) /\ line \in Seq(Visits) /\ IsInjective(line)
  BY <1>2 DEF AtLock, DoorInv, DoorOK
<1>4. ASSUME NEW out \in Outcomes, Answered(v, ask, out), line' = line,
             out = "refused" => ~ask.good, out = "key" => KeyFresh(ask.kid)
      PROVE  DoorInv'
  <2>1. CacheOK'
    <3>1. /\ visit'[v].pc = "free" /\ \A w \in Visits : w # v => visit'[w] = visit[w]
      BY <1>4, AnsweredIs
    <3>2. AtLock' = AtLock /\ Published' = Published
      BY <1>2, <1>3, <3>1 DEF AtLock, Published
    <3> QED
      BY <1>2, <3>1, <3>2 DEF DoorInv, CacheOK
  <2>2. out = "key" /\ ask.good => MayOpen(ask)'
    <3>1. MayOpen(ask)' <=> MayOpen(ask)
      BY <1>2 DEF MayOpen, Published
    <3> QED
      BY <1>4, <3>1, CacheSays
  <2>3. jwks' = jwks /\ jwks' \in JwksType /\ provider' = provider
    BY <1>2, DoorFields
  <2>4. ToSet(line') = ToSet(line) \ {v}
    BY <1>3, <1>4
  <2> QED
    BY <1>3, <1>4, <2>1, <2>2, <2>3, <2>4, AnswerKeeps
<1>5. CASE ask.kid = Nobody
  <2>1. Answered(v, ask, "refused") /\ line' = line /\ "refused" \in Outcomes
    BY <1>1, <1>5 DEF Outcomes
  <2>2. ~ask.good
    BY <1>5, DoorSizes
  <2> QED
    BY <1>4, <2>1, <2>2
<1>6. CASE ask.kid # Nobody /\ KeyFresh(ask.kid)
  <2>1. Answered(v, ask, "key") /\ line' = line /\ "key" \in Outcomes
    BY <1>1, <1>6 DEF Outcomes
  <2> QED
    BY <1>4, <1>6, <2>1
<1>7. CASE ask.kid # Nobody /\ ~KeyFresh(ask.kid)
  <2> DEFINE q == [pc |-> "waiting", ask |-> ask, read |-> {}]
  <2>1. /\ visit' = [visit EXCEPT ![v] = q] /\ line' = Append(line, v) /\ UNCHANGED verdict
    BY <1>1, <1>7
  <2>2. q \in VisitType /\ q.pc = "waiting"
    BY DEF VisitType
  <2> HIDE DEF q
  <2>3. visit = [w \in Visits |-> visit[w]]
    BY DEF DoorInv, DoorOK
  <2>4. visit' = [w \in Visits |-> visit'[w]] /\ visit'[v] = q /\ \A w \in Visits : w # v => visit'[w] = visit[w]
    BY <2>1, <2>3
  <2>5. /\ line' \in Seq(Visits) /\ IsInjective(line') /\ ToSet(line') = ToSet(line) \cup {v}
    BY <1>3, <2>1, LineGrows
  <2>6. DoorOK'
    BY <1>2, <2>1, <2>2, <2>4, <2>5 DEF DoorInv, DoorOK
  <2>7. AtLock' = AtLock /\ Published' = Published
    BY <1>2, <1>3, <2>2, <2>4 DEF AtLock, Published
  <2>8. OneAtLock' /\ CacheOK'
    BY <1>2, <2>2, <2>4, <2>7 DEF DoorInv, OneAtLock, CacheOK
  <2>9. NoSessionDies' /\ RetiredKeysGo'
    BY <1>2, <2>1, VerdictStays
  <2> QED
    BY <2>6, <2>8, <2>9 DEF DoorInv
<1> QED
  BY <1>5, <1>6, <1>7

LEMMA LookAgainKeeps ==
    ASSUME DoorInv, NEW v \in Visits, LookAgain(v)
    PROVE  DoorInv'
<1>a. PICK ask : ask = visit[v].ask
  OBVIOUS
<1>1. /\ line # << >> /\ v = Head(line) /\ AtLock = {} /\ line' = Tail(line) /\ provider' = provider
      /\ line \in Seq(Visits) /\ IsInjective(line)
  BY DEF LookAgain, DoorInv, DoorOK
<1>2. /\ v \in ToSet(line) /\ line' \in Seq(Visits) /\ IsInjective(line')
      /\ ToSet(line') = ToSet(line) \ {v}
  BY <1>1, LineMoves
<1>3. visit[v].pc = "waiting" /\ visit[v] \in VisitType /\ ask \in Asks
  BY <1>a, <1>2 DEF DoorInv, DoorOK, NoVisit, VisitType
<1>4. visit = [w \in Visits |-> visit[w]]
  BY DEF DoorInv, DoorOK
<1>5. CASE ~KeyFresh(ask.kid) /\ MayRefresh
  <2> DEFINE q == [visit[v] EXCEPT !.pc = "fetching"]
  <2>1. /\ jwks' = [jwks EXCEPT !.attempted = 0] /\ visit' = [visit EXCEPT ![v] = q] /\ verdict' = verdict
    BY <1>a, <1>5 DEF LookAgain
  <2>2. q \in VisitType /\ q.pc = "fetching"
    BY <1>3 DEF VisitType
  <2> HIDE DEF q
  <2>3. /\ jwks' \in JwksType /\ jwks'.keys = jwks.keys /\ jwks'.fetched = jwks.fetched
        /\ jwks'.attempted = 0 /\ jwks'.failed = jwks.failed
    <3>1. 0 \in 0..LongAgo
      BY DoorSizes
    <3>2. jwks' = [keys |-> jwks.keys, fetched |-> jwks.fetched, attempted |-> 0, failed |-> jwks.failed]
      BY <2>1, DoorFields DEF JwksType
    <3> QED
      BY <3>1, <3>2, DoorFields DEF JwksType
  <2>4. visit' = [w \in Visits |-> visit'[w]] /\ visit'[v] = q /\ \A w \in Visits : w # v => visit'[w] = visit[w]
    BY <1>4, <2>1
  <2>5. DoorOK'
    BY <1>1, <1>2, <2>1, <2>2, <2>3, <2>4 DEF DoorInv, DoorOK
  <2>6. AtLock' = {v} /\ Published' = Published /\ \A w \in Visits : visit'[w].pc # "read"
    BY <1>1, <2>2, <2>4 DEF AtLock, Published
  <2>7. OneAtLock' /\ CacheOK'
    <3>1. OneAtLock'
      BY <2>3, <2>6, DoorSizes DEF OneAtLock
    <3>2. \A k \in jwks'.keys \ Published' : provider'.age[k] <= jwks'.fetched + FetchTimeout
      BY <1>1, <2>3, <2>6 DEF DoorInv, CacheOK
    <3> QED
      BY <2>6, <3>1, <3>2 DEF CacheOK
  <2>8. NoSessionDies' /\ RetiredKeysGo'
    BY <1>1, <2>1, <2>3, VerdictStays
  <2> QED
    BY <2>5, <2>7, <2>8 DEF DoorInv
<1>6. CASE KeyFresh(ask.kid) \/ ~MayRefresh
  <2> DEFINE out == Outcome(ask.kid)
  <2>1. Answered(v, ask, out) /\ jwks' = jwks
    BY <1>a, <1>6 DEF LookAgain
  <2>2. /\ out \in Outcomes /\ out = "key" => ask.kid \in jwks.keys
    BY DEF Outcome, Outcomes
  <2>3. out = "refused" => ask.kid \notin jwks.keys /\ ~jwks.failed
    BY DEF Outcome
  <2>4. out = "refused" => ~KeyFresh(ask.kid)
    BY <2>3 DEF KeyFresh
  <2>5. out = "key" => ask.kid \in jwks.keys
    BY DEF Outcome
  <2> HIDE DEF out
  <2>6. out = "refused" /\ ask.good => MayRefuse(ask)
    BY <1>1, <1>3, <1>6, <2>3, <2>4, CacheSays
  <2>7. out = "key" /\ ask.good => MayOpen(ask)
    BY <1>1, <1>3, <1>6, <2>5, CacheSays
  <2>8. MayOpen(ask)' <=> MayOpen(ask)
    BY <1>1, <2>1 DEF MayOpen, Published
  <2>9. out \in Outcomes
    BY DEF out, Outcome, Outcomes
  <2>10. CacheOK'
    <3>1. /\ visit'[v].pc = "free" /\ \A w \in Visits : w # v => visit'[w] = visit[w]
      BY <1>3, <2>1, <2>9, AnsweredIs
    <3>2. AtLock' = AtLock /\ Published' = Published
      BY <1>1, <3>1 DEF AtLock, Published
    <3> QED
      BY <1>1, <2>1, <3>1, <3>2 DEF DoorInv, CacheOK
  <2>11. jwks' \in JwksType
    BY <2>1, DoorFields
  <2> QED
    BY <1>1, <1>2, <1>3, <2>1, <2>6, <2>7, <2>8, <2>9, <2>10, <2>11, AnswerKeeps
<1> QED
  BY <1>5, <1>6

\* Whoever is at the lock is alone there.
LEMMA AloneAtLock ==
    ASSUME DoorInv, NEW v \in Visits, visit[v].pc \in {"fetching", "read"}
    PROVE  /\ AtLock = {v} /\ visit[v] \in VisitType /\ visit[v].ask \in Asks
           /\ v \notin ToSet(line) /\ line \in Seq(Visits) /\ IsInjective(line)
           /\ jwks.attempted <= FetchTimeout
<1>1. v \in AtLock
  BY DEF AtLock
<1>2. AtLock = {v} /\ jwks.attempted <= FetchTimeout
  BY <1>1 DEF DoorInv, OneAtLock
<1>3. visit[v] \in VisitType
  BY DEF DoorInv, DoorOK, NoVisit
<1> QED
  BY <1>2, <1>3 DEF DoorInv, DoorOK, VisitType

LEMMA ReadKeysKeeps ==
    ASSUME DoorInv, NEW v \in Visits, ReadKeys(v)
    PROVE  DoorInv'
<1> DEFINE q == [pc |-> "read", ask |-> visit[v].ask, read |-> Published]
<1>1. visit[v].pc = "fetching"
  BY DEF ReadKeys
<1>2. /\ AtLock = {v} /\ visit[v] \in VisitType /\ v \notin ToSet(line) /\ visit[v].ask \in Asks
  BY <1>1, AloneAtLock
<1>3. visit' = [visit EXCEPT ![v] = [visit[v] EXCEPT !.pc = "read", !.read = Published]]
      /\ UNCHANGED <<provider, jwks, line, verdict>>
  BY DEF ReadKeys
<1>4. [visit[v] EXCEPT !.pc = "read", !.read = Published] = q
  <2>1. PICK x : x = [visit[v] EXCEPT !.pc = "read"]
    OBVIOUS
  <2>2. x = [pc |-> "read", ask |-> visit[v].ask, read |-> visit[v].read] /\ x \in VisitType
    BY <1>2, <2>1 DEF VisitType
  <2>3. [x EXCEPT !.read = Published] = [pc |-> x.pc, ask |-> x.ask, read |-> Published]
    BY <2>2 DEF VisitType
  <2> QED
    BY <2>1, <2>2, <2>3
<1>5. q \in VisitType /\ q.pc = "read" /\ q.read = Published
  BY <1>2, DoorFields DEF VisitType
<1>6. visit' = [visit EXCEPT ![v] = q]
  BY <1>3, <1>4
<1> HIDE DEF q
<1>7. visit = [w \in Visits |-> visit[w]]
  BY DEF DoorInv, DoorOK
<1>8. visit' = [w \in Visits |-> visit'[w]] /\ visit'[v] = q /\ \A w \in Visits : w # v => visit'[w] = visit[w]
  BY <1>6, <1>7
<1>9. DoorOK'
  BY <1>1, <1>3, <1>5, <1>8 DEF DoorInv, DoorOK
<1>10. AtLock' = AtLock /\ Published' = Published
  BY <1>1, <1>3, <1>5, <1>8 DEF AtLock, Published
<1>11. OneAtLock' /\ CacheOK'
  BY <1>3, <1>5, <1>8, <1>10 DEF DoorInv, OneAtLock, CacheOK
<1>12. NoSessionDies' /\ RetiredKeysGo'
  BY <1>3, VerdictStays
<1> QED
  BY <1>9, <1>11, <1>12 DEF DoorInv

\* The end of a fetch leaves nobody at the lock.
LEMMA FetchOver ==
    ASSUME DoorInv, NEW v \in Visits, AtLock = {v}, NEW ask \in Asks, NEW out \in Outcomes,
           Answered(v, ask, out)
    PROVE  AtLock' = {} /\ \A w \in Visits : visit'[w].pc # "read"
<1>1. /\ visit'[v].pc = "free" /\ \A w \in Visits : w # v => visit'[w] = visit[w]
  BY AnsweredIs
<1> QED
  BY <1>1 DEF AtLock

LEMMA ZeroAge == 0 \in 0..LongAgo
BY DoorSizes

LEMMA RefreshedKeeps ==
    ASSUME DoorInv, NEW v \in Visits, Refreshed(v)
    PROVE  DoorInv'
<1>a. PICK ask, read : ask = visit[v].ask /\ read = visit[v].read
  OBVIOUS
<1> DEFINE out == IF ask.kid \in read THEN "key" ELSE "refused"
<1>1. visit[v].pc = "read"
  BY DEF Refreshed
<1>2. /\ AtLock = {v} /\ visit[v] \in VisitType /\ ask \in Asks
      /\ v \notin ToSet(line) /\ line \in Seq(Visits) /\ IsInjective(line)
      /\ jwks.attempted <= FetchTimeout
  BY <1>a, <1>1, AloneAtLock
<1>3. /\ jwks' = [jwks EXCEPT !.keys = read, !.fetched = 0, !.failed = FALSE]
      /\ Answered(v, ask, out) /\ UNCHANGED <<provider, line>>
  BY <1>a DEF Refreshed
<1>4. read \subseteq KeyIds
  BY <1>a, <1>1, DoorFields
<1>5. out \in Outcomes /\ (out = "refused" => ask.kid \notin read) /\ (out = "key" => ask.kid \in read)
  BY DEF Outcomes
<1>6. \A k \in (Published \ read) \cup (read \ Published) :
          provider.age[k] <= jwks.attempted /\ provider.age[k] <= FetchTimeout
  <2> TAKE k \in (Published \ read) \cup (read \ Published)
  <2>1. k \in KeyIds /\ provider.age[k] <= jwks.attempted
    BY <1>a, <1>1, <1>4 DEF DoorInv, CacheOK, Published
  <2> QED
    BY <1>2, <2>1, DoorFields, DoorSizes
<1> HIDE DEF out
<1>7. jwks' = [keys |-> read, fetched |-> 0, attempted |-> jwks.attempted, failed |-> FALSE]
  <2>1. PICK x : x = [jwks EXCEPT !.keys = read]
    OBVIOUS
  <2>2. x = [keys |-> read, fetched |-> jwks.fetched, attempted |-> jwks.attempted, failed |-> jwks.failed]
        /\ x \in JwksType
    BY <1>4, <2>1, DoorFields DEF JwksType
  <2>3. PICK y : y = [x EXCEPT !.fetched = 0]
    OBVIOUS
  <2>4. y = [keys |-> x.keys, fetched |-> 0, attempted |-> x.attempted, failed |-> x.failed]
        /\ y \in JwksType
    BY <2>2, <2>3, ZeroAge DEF JwksType
  <2>z. PICK no \in BOOLEAN : no = FALSE
    OBVIOUS
  <2>5. [y EXCEPT !.failed = no] = [keys |-> y.keys, fetched |-> y.fetched, attempted |-> y.attempted, failed |-> no]
    BY <2>4 DEF JwksType
  <2> QED
    BY <1>3, <2>1, <2>2, <2>3, <2>4, <2>5, <2>z
<1>8. /\ jwks' \in JwksType /\ jwks'.keys = read /\ jwks'.fetched = 0
      /\ jwks'.attempted = jwks.attempted /\ ~jwks'.failed
  BY <1>4, <1>7, DoorFields, DoorSizes DEF JwksType
<1>9. AtLock' = {} /\ Published' = Published /\ \A w \in Visits : visit'[w].pc # "read"
  BY <1>2, <1>3, <1>5, FetchOver DEF Published
<1>10. CacheOK'
  <2>1. 0 <= jwks.attempted /\ 0 + FetchTimeout = FetchTimeout
    BY DoorFields, DoorSizes
  <2> QED
    BY <1>3, <1>6, <1>8, <1>9, <2>1 DEF CacheOK
<1>11. out = "refused" /\ ask.good => MayRefuse(ask)
  <2>1. ASSUME out = "refused", ask.good, ask.kid \in Published PROVE provider.age[ask.kid] <= Interval
    <3>1. ask.kid \in KeyIds /\ provider.age[ask.kid] <= FetchTimeout
      BY <1>5, <1>6, <2>1 DEF Published
    <3> QED
      BY <3>1, DoorFields, DoorSizes
  <2> QED
    BY <2>1 DEF MayRefuse
<1>12. out = "key" /\ ask.good => MayOpen(ask)'
  <2>1. ASSUME out = "key", ask.good, ask.kid \notin Published
        PROVE  provider.age[ask.kid] < KeyTTL + FetchTimeout
    <3>1. ask.kid \in KeyIds /\ provider.age[ask.kid] <= FetchTimeout
      BY <1>4, <1>5, <1>6, <2>1
    <3> QED
      BY <3>1, DoorFields, DoorSizes
  <2> QED
    BY <1>3, <1>9, <2>1 DEF MayOpen
<1>13. line' = line /\ provider' = provider /\ ToSet(line') = ToSet(line) \ {v}
  BY <1>2, <1>3
<1> QED
  BY <1>2, <1>3, <1>5, <1>8, <1>10, <1>11, <1>12, <1>13, AnswerKeeps

LEMMA RefreshFailsKeeps ==
    ASSUME DoorInv, NEW v \in Visits, RefreshFails(v)
    PROVE  DoorInv'
<1>a. PICK ask : ask = visit[v].ask
  OBVIOUS
<1> DEFINE out == IF ask.kid \in jwks.keys THEN "key" ELSE "unavailable"
<1>1. visit[v].pc \in {"fetching", "read"}
  BY DEF RefreshFails
<1>2. /\ AtLock = {v} /\ visit[v] \in VisitType /\ ask \in Asks
      /\ v \notin ToSet(line) /\ line \in Seq(Visits) /\ IsInjective(line)
      /\ jwks.attempted <= FetchTimeout
  BY <1>a, <1>1, AloneAtLock
<1>3. /\ jwks' = [jwks EXCEPT !.failed = TRUE]
      /\ Answered(v, ask, out) /\ UNCHANGED <<provider, line>>
  BY <1>a DEF RefreshFails, AfterFailure
<1>4. out \in Outcomes /\ out # "refused"
  BY DEF Outcomes
<1> HIDE DEF out
<1>5. /\ jwks' \in JwksType /\ jwks'.keys = jwks.keys /\ jwks'.fetched = jwks.fetched
      /\ jwks'.attempted = jwks.attempted /\ jwks'.failed = TRUE
  BY <1>3, DoorFields DEF JwksType
<1>6. AtLock' = {} /\ Published' = Published /\ \A w \in Visits : visit'[w].pc # "read"
  BY <1>2, <1>3, <1>4, FetchOver DEF Published
<1>7. CacheOK'
  BY <1>3, <1>5, <1>6 DEF DoorInv, CacheOK
<1>8. MayOpen(ask)'
  <2>1. jwks.attempted <= Interval
    BY <1>2, DoorFields, DoorSizes
  <2> QED
    BY <1>5, <2>1 DEF MayOpen
<1>9. line' = line /\ provider' = provider /\ ToSet(line') = ToSet(line) \ {v}
  BY <1>2, <1>3
<1> QED
  BY <1>2, <1>3, <1>4, <1>5, <1>7, <1>8, <1>9, AnswerKeeps

LEMMA DoorStep == DoorInv /\ [AdmissionNext]_doorVars => DoorInv'
<1> SUFFICES ASSUME DoorInv, [AdmissionNext]_doorVars PROVE DoorInv'
  OBVIOUS
<1>1. CASE UNCHANGED doorVars
  <2>1. \A k \in KeyIds : provider'.age[k] = provider.age[k] /\ provider'.key[k] = provider.key[k]
    BY <1>1 DEF doorVars
  <2>2. provider' \in ProviderType /\ UNCHANGED <<jwks, visit, line, verdict>>
    BY <1>1, DoorFields DEF doorVars
  <2> QED
    BY <2>1, <2>2, ProviderKeeps
<1>2. ASSUME NEW i \in DOMAIN SigningKeys, Rotate(i) \/ Retire(i) PROVE DoorInv'
  <2>1. SigningKeys[i] \in KeyIds
    BY DoorSizes
  <2> QED
    BY <1>2, <2>1, BecomesKeeps DEF Rotate, Retire
<1>3. ASSUME NEW v \in Visits, VisitStep(v) PROVE DoorInv'
  BY <1>3, LookAgainKeeps, ReadKeysKeeps, RefreshedKeeps, RefreshFailsKeeps DEF VisitStep
<1> QED
  BY <1>1, <1>2, <1>3, ReachKeeps, TimeKeeps, ComeKeeps DEF AdmissionNext

LEMMA DoorInvMeans == DoorInv => VerdictsAreRight
BY DoorTypes DEF VerdictsAreRight, DoorInv

-----------------------------------------------------------------------------
(***************************************************************************)
(* The policy.  What its copies do together follows, edit by edit, from    *)
(* what the two checks find in step.                                       *)
(***************************************************************************)
LEMMA PolicyFacts ==
    /\ Edges \subseteq Exchangers \X Services /\ Minters \subseteq Exchangers
    /\ AccessRoles \subseteq Roles /\ Admin \in Roles /\ Admin \notin AccessRoles
    /\ Subtrees \subseteq AnonymousPaths /\ MaxEdits \in Nat
    /\ \A path \in AnonymousPaths \cup Below : path \in Seq(STRING)
    /\ Exchangers \subseteq Clients /\ Others \subseteq Clients
    /\ \A edge \in Edges : /\ edge = <<edge[1], edge[2]>> /\ edge[1] \in Exchangers
                           /\ edge[2] \in Services
BY PolicyAssumption DEF Clients

LEMMA PolicyInit_Type == PolicyInit => PolicyTypeOK
<1> SUFFICES ASSUME PolicyInit PROVE PolicyTypeOK
  OBVIOUS
<1>1. {<<"azp", edge[2], edge[1]>> : edge \in Edges} \subseteq {"azp"} \X Services \X Clients
  BY PolicyFacts
<1>2. {<<"scope", edge[1], edge[2]>> : edge \in Edges} \subseteq {"scope"} \X Clients \X Services
  BY PolicyFacts
<1>3. {"origin"} \X (Exchangers \ Minters) \subseteq {"origin"} \X Clients
  BY PolicyFacts
<1>4. {grant \in {"grant"} \X Roles \X Services : grant[3] \in RoleGrants[grant[2]]}
        \subseteq {"grant"} \X Roles \X Services
  OBVIOUS
<1>5. {"role"} \X Roles \subseteq {"role", "admin has", "group has"} \X Roles
  OBVIOUS
<1>6. {"admin has"} \X AccessRoles \subseteq {"role", "admin has", "group has"} \X Roles
  BY PolicyFacts
<1>7. {"anonymous", "exempt"} \X AnonymousPaths
        \subseteq {"anonymous", "exempt", "exempt below"} \X AnonymousPaths
  OBVIOUS
<1>8. {"exempt below"} \X Subtrees \subseteq {"anonymous", "exempt", "exempt below"} \X AnonymousPaths
  BY PolicyFacts
<1>9. policy \subseteq Facts
  <2>1. policy =
        ({"azp key"} \X Services) \cup {<<"azp", edge[2], edge[1]>> : edge \in Edges}
        \cup ({"client"} \X Clients) \cup {<<"scope", edge[1], edge[2]>> : edge \in Edges}
        \cup ({"origin"} \X (Exchangers \ Minters))
        \cup {grant \in {"grant"} \X Roles \X Services : grant[3] \in RoleGrants[grant[2]]}
        \cup ({"role"} \X Roles) \cup ({"admin has"} \X AccessRoles)
        \cup {<<"admin is composite">>}
        \cup ({"anonymous", "exempt"} \X AnonymousPaths) \cup ({"exempt below"} \X Subtrees)
    BY DEF PolicyInit
  <2> QED
    BY ZenonT(60), <1>1, <1>2, <1>3, <1>4, <1>5, <1>6, <1>7, <1>8, <2>1 DEF Facts
<1>10. edits = 0
  BY DEF PolicyInit
<1> QED
  BY <1>9, <1>10, PolicyFacts DEF PolicyTypeOK

LEMMA PolicyStep == PolicyTypeOK /\ [Edit]_policyVars => PolicyTypeOK'
<1> SUFFICES ASSUME PolicyTypeOK, [Edit]_policyVars PROVE PolicyTypeOK'
  OBVIOUS
<1>1. CASE Edit
  <2>1. PICK fact \in Facts : policy' = IF fact \in policy THEN policy \ {fact} ELSE policy \cup {fact}
    BY <1>1 DEF Edit
  <2>2. policy' \subseteq Facts
    BY <2>1 DEF PolicyTypeOK
  <2>3. edits' \in 0..MaxEdits
    BY <1>1, PolicyFacts DEF Edit, PolicyTypeOK
  <2> QED
    BY <2>2, <2>3 DEF PolicyTypeOK
<1>2. CASE UNCHANGED policyVars
  BY <1>2 DEF policyVars, PolicyTypeOK
<1> QED
  BY <1>1, <1>2

LEMMA HopsInStep ==
    ASSUME ScopesInStep, AzpInStep
    PROVE  HopsAreTheEdges
<1> SUFFICES ASSUME NEW c \in Exchangers \cup Others, NEW svc \in Services
             PROVE  /\ HopWorks(c, svc) <=> <<c, svc>> \in Edges
                    /\ svc \in Scopes(c) => <<c, svc>> \in Edges
  BY DEF HopsAreTheEdges
<1>1. c \in Clients
  BY PolicyFacts
<1>2. svc \in Scopes(c) => <<c, svc>> \in Edges
  BY <1>1 DEF ScopesInStep
<1>3. ASSUME <<c, svc>> \in Edges PROVE svc \in Scopes(c) /\ c \in AzpAllow(svc)
  <2>1. PICK edge \in Edges : edge = <<c, svc>>
    BY <1>3
  <2>2. edge[1] = c /\ edge[2] = svc
    BY <2>1
  <2> QED
    BY <2>2 DEF ScopesInStep, AzpInStep
<1> QED
  BY <1>2, <1>3 DEF HopWorks

\* Who exchanges has an edge of its own, so it is a client of the realm.
LEMMA OriginsGoOn ==
    ASSUME ScopesInStep, OriginsInStep
    PROVE  OriginSurvives
<1> SUFFICES ASSUME NEW path \in AgentPaths, NEW i \in 2..Len(path)
             PROVE  path[i] \in Minters \/ CarriesOrigin(path[i])
  BY DEF OriginSurvives
<1>1. PICK n \in 1..Cardinality(Exchangers) : path \in [1..n -> Exchangers]
  BY DEF AgentPaths
<1>2. n \in Nat
  BY <1>1
<1>3. path \in Seq(Exchangers) /\ Len(path) = n
  BY <1>1, <1>2
<1>4. path[i] \in Exchangers
  BY <1>1, <1>2, <1>3
<1>5. PICK edge \in Edges : edge[1] = path[i]
  BY <1>4 DEF Exchangers
<1>6. edge[2] \in Scopes(edge[1])
  BY DEF ScopesInStep
<1>7. <<"client", path[i]>> \in policy
  BY <1>5, <1>6 DEF Scopes
<1> QED
  BY <1>4, <1>7 DEF OriginsInStep

LEMMA RolesInStepMeans ==
    ASSUME GrantsInStep, RolesInStep, GroupsInStep
    PROVE  RolesAreTheSame
<1> DEFINE roles == {role \in GroupHas : Defined(role)}
<1>1. roles \subseteq AccessRoles \cup {Admin} /\ AdminHas = AccessRoles
      /\ <<"admin is composite">> \in policy
  BY DEF GroupsInStep, RolesInStep
<1>2. Held = IF Admin \in roles THEN roles \cup AdminHas ELSE roles
  BY <1>1 DEF Held
<1> HIDE DEF roles
<1>3. Held \subseteq AccessRoles \cup {Admin}
  BY <1>1, <1>2
<1>4. Admin \in Held => AccessRoles \subseteq Held
  BY <1>1, <1>2, PolicyFacts
<1> QED
  BY <1>3, <1>4 DEF GrantsInStep, RolesAreTheSame

LEMMA PrefixOfPrefix ==
    ASSUME NEW S, NEW a \in Seq(S), NEW b \in Seq(S), NEW c \in Seq(S), IsPrefix(a, b), IsPrefix(b, c)
    PROVE  IsPrefix(a, c)
<1>1. /\ Len(a) \in Nat /\ Len(b) \in Nat /\ Len(c) \in Nat /\ Len(a) <= Len(b) /\ Len(b) <= Len(c)
      /\ SubSeq(a, 1, Len(a)) = SubSeq(b, 1, Len(a)) /\ SubSeq(b, 1, Len(b)) = SubSeq(c, 1, Len(b))
  BY DEF IsPrefix
<1>2. \A i \in 1..Len(b) : SubSeq(b, 1, Len(b))[i] = b[i] /\ SubSeq(c, 1, Len(b))[i] = c[i]
  BY <1>1
<1>3. \A i \in 1..Len(a) : b[i] = c[i]
  BY <1>1, <1>2
<1>4. /\ SubSeq(b, 1, Len(a)) = [i \in 1..Len(a) |-> b[i]]
      /\ SubSeq(c, 1, Len(a)) = [i \in 1..Len(a) |-> c[i]]
  BY <1>1
<1>5. SubSeq(b, 1, Len(a)) = SubSeq(c, 1, Len(a))
  BY <1>3, <1>4
<1> QED
  BY <1>1, <1>5 DEF IsPrefix

LEMMA MeshInStep ==
    ASSUME CheckMeshAnonymous
    PROVE  AnonymousGetsThrough
<1> SUFFICES ASSUME NEW path \in AnonymousPaths \cup Below,
                    path \in AnonymousPaths => <<"anonymous", path>> \in policy,
                    path \in Below => \E base \in Subtrees : <<"anonymous", base>> \in policy
                                                              /\ IsPrefix(base, path)
             PROVE  Exempt(path)
  BY DEF AnonymousGetsThrough
<1>1. CASE path \in AnonymousPaths
  BY <1>1 DEF CheckMeshAnonymous, Exempt
<1>2. CASE path \notin AnonymousPaths
  <2>1. PICK base \in Subtrees : <<"anonymous", base>> \in policy /\ IsPrefix(base, path)
    BY <1>2
  <2>2. base \in AnonymousPaths
    BY PolicyFacts
  <2>3. PICK glob \in AnonymousPaths : <<"exempt below", glob>> \in policy /\ IsPrefix(glob, base)
    BY <2>1, <2>2 DEF CheckMeshAnonymous, HasSubtreeGlob
  <2>4. glob \in Seq(STRING) /\ base \in Seq(STRING) /\ path \in Seq(STRING)
    BY <2>2, PolicyFacts
  <2>5. IsPrefix(glob, path)
    BY <2>1, <2>3, <2>4, PrefixOfPrefix
  <2>6. IsStrictPrefix(glob, path)
    BY <1>2, <2>5 DEF IsStrictPrefix
  <2> QED
    BY <2>3, <2>6 DEF Exempt
<1> QED
  BY <1>1, <1>2

LEMMA PolicyInvMeans == PolicyTypeOK => PolicyHolds
BY HopsInStep, OriginsGoOn, RolesInStepMeans, MeshInStep DEF PolicyHolds, VerifyPolicy

-----------------------------------------------------------------------------
(***************************************************************************)
(* The cron expressions.  What the parser keeps of one matches the minutes *)
(* the expression names (MatchesMeansOccurs), and the fires that are       *)
(* sampled are all the matches up to the last of them (SampledAre).   *)
(***************************************************************************)
LEMMA CronSizes ==
    /\ HourLength \in Nat /\ HourLength > 0 /\ DayLength \in Nat /\ DayLength > 0
    /\ WeekLength \in Nat /\ WeekLength > 0 /\ Lookahead \in Nat /\ Floor \in Nat
    /\ MaxLate \in Nat /\ MaxFires \in Nat /\ Starts \subseteq Nat
    /\ MonthLength \in Nat /\ YearLength \in Nat
    /\ Samples \in Nat /\ Samples >= 2 /\ Len(Days) \in Nat /\ Len(Days) > 0
    /\ \A i \in 1..Len(Days) : Days[i] \in [month : 1..YearLength, dom : 1..MonthLength]
<1>1. Len(Days) \in Nat /\ Len(Days) > 0
      /\ \A i \in 1..Len(Days) : Days[i] \in [month : 1..YearLength, dom : 1..MonthLength]
  <2> DEFINE D == [month : 1..YearLength, dom : 1..MonthLength]
  <2>1. Days \in Seq(D) /\ Days # << >>
    BY CronAssumption
  <2> HIDE DEF D
  <2>2. Len(Days) \in Nat /\ Len(Days) > 0 /\ \A i \in 1..Len(Days) : Days[i] \in D
    BY <2>1
  <2> QED
    BY <2>2 DEF D
<1>2. /\ HourLength \in Nat /\ DayLength \in Nat /\ WeekLength \in Nat /\ Lookahead \in Nat
      /\ Floor \in Nat /\ MaxLate \in Nat /\ MaxFires \in Nat /\ Starts \subseteq Nat
      /\ MonthLength \in Nat /\ YearLength \in Nat
  BY CronAssumption
<1>3. HourLength # 0 /\ DayLength # 0 /\ WeekLength # 0
  BY CronAssumption
<1>4. Samples \in Nat /\ Samples # 0 /\ Samples # 1
  BY CronAssumption
<1> QED
  BY <1>1, <1>2, <1>3, <1>4

LEMMA Remainder ==
    ASSUME NEW a \in Nat, NEW b \in Nat, b > 0
    PROVE  /\ a % b \in Nat /\ a % b < b /\ a \div b \in Nat
           /\ a < b => a % b = a
           /\ b % b = 0
<1> DEFINE q == a \div b  r == a % b
<1>1. q \in Int /\ r \in Int /\ r >= 0 /\ r < b /\ a = b * q + r
  OBVIOUS
<1>2. q >= 0
  <2>1. ASSUME q <= -1 PROVE FALSE
    <3>1. b * q <= b * (-1)
      BY <1>1, <2>1
    <3>2. b * (-1) = -b
      OBVIOUS
    <3> HIDE DEF q, r
    <3>3. b * q \in Int
      BY <1>1
    <3> QED
      BY <1>1, <3>1, <3>2, <3>3
  <2> QED
    BY <1>1, <2>1
<1>3. a < b => q = 0
  <2>1. ASSUME a < b, q >= 1 PROVE FALSE
    <3>1. b * q >= b * 1
      BY <1>1, <2>1
    <3> HIDE DEF q, r
    <3>2. b * q \in Int
      BY <1>1
    <3> QED
      BY <1>1, <2>1, <3>1, <3>2
  <2> QED
    BY <1>1, <1>2, <2>1
<1>4. a < b => r = a
  <2> HIDE DEF q, r
  <2> QED
    BY <1>1, <1>3
<1>5. b % b = 0
  OBVIOUS
<1> QED
  BY <1>1, <1>2, <1>4, <1>5

\* A minute of the calendar is within the bounds of its fields.
LEMMA Minute ==
    ASSUME NEW t \in Nat, NEW f \in Fields
    PROVE  /\ At(t)[f] \in Int /\ Lo(f) \in Int /\ Lo(f) <= At(t)[f] /\ At(t)[f] <= Hi(f)
           /\ f = "dow" => At(t)[f] \in 0..(WeekLength - 1)
<1>1. HourLength * DayLength \in Nat /\ HourLength * DayLength > 0
  BY CronSizes
<1>2. DayOf(t) \in Nat
  BY <1>1, Remainder DEF DayOf
<1>3. 1 + (DayOf(t) % Len(Days)) \in 1..Len(Days)
  BY <1>2, CronSizes, Remainder
<1>4. Date(t) \in [month : 1..YearLength, dom : 1..MonthLength]
  BY <1>3, CronSizes DEF Date
<1>5. t \div HourLength \in Nat /\ t % HourLength \in 0..(HourLength - 1)
  BY CronSizes, Remainder
<1>6. (t \div HourLength) % DayLength \in 0..(DayLength - 1)
  BY <1>5, CronSizes, Remainder
<1>7. DayOf(t) % WeekLength \in 0..(WeekLength - 1)
  BY <1>2, CronSizes, Remainder
<1>8. f \in {"minute", "hour", "dom", "month", "dow"}
  BY DEF Fields
<1>9. CASE f = "minute"
  BY <1>5, <1>9, CronSizes DEF At, Lo, Hi
<1>10. CASE f = "hour"
  BY <1>6, <1>10, CronSizes DEF At, Lo, Hi
<1>11. CASE f = "dom"
  BY <1>4, <1>11 DEF At, Lo, Hi
<1>12. CASE f = "month"
  BY <1>4, <1>12 DEF At, Lo, Hi
<1>13. CASE f = "dow"
  BY <1>7, <1>13, CronSizes DEF At, Lo, Hi
<1> QED
  BY <1>8, <1>9, <1>10, <1>11, <1>12, <1>13

\* The values that are kept of a field are those its parts name.
LEMMA InMeansSays ==
    ASSUME NEW expr \in Exprs, IsValid(expr), NEW f \in Fields, NEW t \in Nat
    PROVE  In(ParseCron(expr), f, t) <=> Says(expr, f, t)
<1> DEFINE a == At(t)[f]
<1>1. a \in Int /\ (f = "dow" => a \in 0..(WeekLength - 1))
  BY Minute
<1>2. In(ParseCron(expr), f, t) <=>
        \E item \in expr[f] : \E v \in Walked(f, item) : a = IF f = "dow" THEN v % WeekLength ELSE v
  BY DEF In, ParseCron, Values
<1>3. CASE f # "dow"
  <2>1. Says(expr, f, t) <=> \E item \in expr[f] :
            PartFrom(f, item) <= a /\ a <= PartTo(f, item) /\ (a - PartFrom(f, item)) % item.step = 0
    BY <1>3 DEF Says
  <2>2. \A item : a \in Walked(f, item) <=>
            PartFrom(f, item) <= a /\ a <= PartTo(f, item) /\ (a - PartFrom(f, item)) % item.step = 0
    BY <1>1 DEF Walked
  <2> HIDE DEF a
  <2> QED
    BY <1>2, <1>3, <2>1, <2>2
<1>4. CASE f = "dow"
  <2> DEFINE Named(item, v) == PartFrom(f, item) <= v /\ v <= PartTo(f, item)
                                  /\ (v - PartFrom(f, item)) % item.step = 0
             days == {a} \cup (IF a = 0 THEN {WeekLength} ELSE {})
  <2>1. Says(expr, f, t) <=> \E item \in expr[f] : \E v \in days : Named(item, v)
    BY <1>4 DEF Says
  <2>2. \A item : \A v \in Int : v \in Walked(f, item) <=> Named(item, v)
    BY DEF Walked
  <2>3. \A item \in expr[f] : {PartFrom(f, item), PartTo(f, item)} \subseteq 0..WeekLength
    BY <1>4 DEF IsValid, PartIsValid
  <2>4. \A item \in expr[f] : \A v \in Walked(f, item) : v \in 0..WeekLength
    BY <2>3, CronSizes DEF Walked
  <2>5. \A v \in 0..WeekLength : a = v % WeekLength <=> v \in days
    <3> TAKE v \in 0..WeekLength
    <3>1. CASE v = WeekLength
      <4>1. v % WeekLength = 0
        BY <3>1, CronSizes, Remainder
      <4> HIDE DEF a
      <4> QED
        BY <1>1, <1>4, <3>1, <4>1, CronSizes
    <3>2. CASE v # WeekLength
      <4>1. v \in Nat /\ v < WeekLength
        BY <3>2, CronSizes
      <4>2. v % WeekLength = v
        BY <4>1, CronSizes, Remainder
      <4> HIDE DEF a
      <4> QED
        BY <1>1, <1>4, <4>1, <4>2, CronSizes
    <3> QED
      BY <3>1, <3>2
  <2>6. days \subseteq Int
    BY <1>1, CronSizes
  <2>7. \A item : Walked(f, item) \subseteq Int
    BY DEF Walked
  <2> HIDE DEF a, days, Named
  <2>8. ASSUME NEW item \in expr[f], NEW v \in Walked(f, item), a = v % WeekLength
        PROVE  v \in days /\ Named(item, v)
    BY <2>2, <2>4, <2>5, <2>7, <2>8
  <2>9. ASSUME NEW item \in expr[f], NEW v \in days, Named(item, v)
        PROVE  v \in Walked(f, item) /\ a = v % WeekLength
    BY <2>2, <2>4, <2>5, <2>6, <2>9
  <2>10. In(ParseCron(expr), f, t) <=>
            \E item \in expr[f] : \E v \in Walked(f, item) : a = v % WeekLength
    BY <1>2, <1>4
  <2> QED
    BY <2>1, <2>8, <2>9, <2>10
<1> QED
  BY <1>3, <1>4

\* A field that restricts nothing names every minute.
LEMMA StarSaysAll ==
    ASSUME NEW expr \in Exprs, NEW f \in Fields, NEW t \in Nat, ~Restricted(expr[f])
    PROVE  Says(expr, f, t)
<1>1. Bare \in expr[f]
  BY DEF Restricted
<1>2. PartFrom(f, Bare) = Lo(f) /\ PartTo(f, Bare) = Hi(f) /\ Bare.step = 1
  BY DEF PartFrom, PartTo, IsStar, Bare
<1>3. Lo(f) <= At(t)[f] /\ At(t)[f] <= Hi(f) /\ At(t)[f] \in Int /\ Lo(f) \in Int
  BY Minute
<1>4. (At(t)[f] - Lo(f)) % 1 = 0
  BY <1>3
<1> QED
  BY <1>1, <1>2, <1>3, <1>4 DEF Says

LEMMA MatchesMeansOccurs ==
    ASSUME NEW expr \in Exprs, IsValid(expr), NEW t \in Nat
    PROVE  Matches(ParseCron(expr), t) <=> OccursAt(expr, t)
<1> DEFINE spec == ParseCron(expr)
<1>1. \A f \in Fields : In(spec, f, t) <=> Says(expr, f, t)
  BY InMeansSays
<1>2. {"minute", "hour", "month", "dom", "dow"} \subseteq Fields
  BY DEF Fields
<1>3. spec.restricted = {f \in {"dom", "dow"} : Restricted(expr[f])}
  BY DEF ParseCron
<1>4. \A f \in {"dom", "dow"} : Restricted(expr[f]) \/ Says(expr, f, t)
  BY <1>2, StarSaysAll
<1> HIDE DEF spec
<1>5. DayMatches(spec, t) <=>
        \/ Says(expr, "dom", t) /\ Says(expr, "dow", t)
        \/ Restricted(expr["dom"]) /\ Restricted(expr["dow"])
             /\ (Says(expr, "dom", t) \/ Says(expr, "dow", t))
  BY <1>1, <1>2, <1>3, <1>4 DEF DayMatches
<1>6. (\A f \in {"minute", "hour", "month"} : In(spec, f, t))
        <=> (\A f \in {"minute", "hour", "month"} : Says(expr, f, t))
  BY <1>1, <1>2
<1> QED
  BY <1>5, <1>6 DEF spec, Matches, OccursAt

-----------------------------------------------------------------------------
MatchesAhead(expr, t) == {n \in (t + 1)..(t + Lookahead) : Matches(ParseCron(expr), n)}

LEMMA CronNextIs ==
    ASSUME NEW expr, NEW t \in Nat
    PROVE  \/ CronNext(expr, t) = Never /\ MatchesAhead(expr, t) = {}
           \/ /\ CronNext(expr, t) \in Nat /\ CronNext(expr, t) \in MatchesAhead(expr, t)
              /\ CronNext(expr, t) > t /\ CronNext(expr, t) # Never
              /\ Matches(ParseCron(expr), CronNext(expr, t))
              /\ \A n \in (t + 1)..CronNext(expr, t) :
                    Matches(ParseCron(expr), n) => n = CronNext(expr, t)
              /\ \A n \in MatchesAhead(expr, t) : CronNext(expr, t) <= n
<1> DEFINE due == MatchesAhead(expr, t)
<1>1. CronNext(expr, t) = IF due = {} THEN Never ELSE Min(due)
  BY DEF CronNext, MatchesAhead
<1>2. due \in SUBSET Nat /\ \A n \in due : n > t /\ Matches(ParseCron(expr), n)
  <2>1. due \subseteq (t + 1)..(t + Lookahead) /\ \A n \in due : Matches(ParseCron(expr), n)
    BY DEF MatchesAhead
  <2>2. \A n \in (t + 1)..(t + Lookahead) : n \in Nat /\ n > t
    BY CronSizes
  <2> HIDE DEF due
  <2> QED
    BY <2>1, <2>2
<1>3. CASE due = {}
  BY <1>1, <1>3
<1>4. CASE due # {}
  <2>1. PICK m : m = Min(due)
    OBVIOUS
  <2>2. m \in due /\ \A n \in due : m <= n
    <3> HIDE DEF due
    <3> QED
      BY <1>2, <1>4, <2>1, MinOf
  <2>3. \A n \in (t + 1)..m : Matches(ParseCron(expr), n) => n \in due
    BY <1>2, <2>2, CronSizes DEF MatchesAhead
  <2>4. m \in Nat /\ m > t /\ m # Never /\ Matches(ParseCron(expr), m)
    BY <1>2, <2>2 DEF Never
  <2>5. \A n \in (t + 1)..m : Matches(ParseCron(expr), n) => n = m
    <3> HIDE DEF due
    <3> QED
      BY <2>2, <2>3, <2>4
  <2>6. CronNext(expr, t) = m
    BY <1>1, <1>4, <2>1
  <2> QED
    BY <2>2, <2>4, <2>5, <2>6
<1> QED
  BY <1>3, <1>4

IsWalk(g, expr, now, n) ==
    g = [i \in 0..n |-> IF i = 0 THEN now
                        ELSE IF g[i - 1] = Never THEN Never ELSE CronNext(expr, g[i - 1])]

\* The walk from one firing to the next exists, of any length.
LEMMA WalkExists ==
    ASSUME NEW expr, NEW now, NEW size \in Nat
    PROVE  \E g : IsWalk(g, expr, now, size)
<1> DEFINE bad == {n \in Nat : ~\E g : IsWalk(g, expr, now, n)}
<1>1. ASSUME bad # {} PROVE FALSE
  <2>1. PICK n \in bad : \A m \in bad : n <= m
    <3> HIDE DEF bad
    <3>1. bad \in SUBSET Nat
      BY DEF bad
    <3> QED
      BY <1>1, <3>1, LeastElement
  <2>2. CASE n = 0
    <3> DEFINE g == [i \in 0..0 |-> now]
    <3>1. IsWalk(g, expr, now, 0)
      BY DEF IsWalk
    <3> QED
      BY <2>2, <3>1
  <2>3. CASE n # 0
    <3>1. n - 1 \in Nat /\ n - 1 \notin bad
      BY <2>1, <2>3
    <3>2. PICK g : IsWalk(g, expr, now, n - 1)
      BY <3>1
    <3> DEFINE h == [i \in 0..n |-> IF i = n THEN (IF g[n - 1] = Never THEN Never ELSE CronNext(expr, g[n - 1]))
                                   ELSE g[i]]
               k == [i \in 0..n |-> IF i = 0 THEN now
                                   ELSE IF h[i - 1] = Never THEN Never ELSE CronNext(expr, h[i - 1])]
    <3>3. \A i \in 0..(n - 1) : h[i] = g[i] /\ g[i] = IF i = 0 THEN now
                                   ELSE IF g[i - 1] = Never THEN Never ELSE CronNext(expr, g[i - 1])
      BY <3>1, <3>2 DEF IsWalk
    <3>4. \A i \in 0..n : h[i] = k[i]
      <4> TAKE i \in 0..n
      <4>1. CASE i = n
        <5>1. h[n - 1] = g[n - 1] /\ n \in 0..n /\ n # 0
          BY <2>3, <3>1, <3>3
        <5> QED
          BY <4>1, <5>1
      <4>2. CASE i = 0
        <5>1. 0 \in 0..(n - 1) /\ i # n
          BY <2>3, <3>1, <4>2
        <5>2. h[0] = now
          BY <3>3, <5>1
        <5> HIDE DEF h
        <5> QED
          BY <4>2, <5>2
      <4>3. CASE i # n /\ i # 0
        <5>1. i \in 0..(n - 1) /\ i - 1 \in 0..(n - 1)
          BY <3>1, <4>3
        <5>2. h[i] = g[i] /\ h[i - 1] = g[i - 1]
          BY <3>3, <5>1
        <5>3. g[i] = IF g[i - 1] = Never THEN Never ELSE CronNext(expr, g[i - 1])
          BY <3>3, <4>3, <5>1
        <5> HIDE DEF h
        <5>4. k[i] = IF h[i - 1] = Never THEN Never ELSE CronNext(expr, h[i - 1])
          BY <4>3
        <5> QED
          BY <5>2, <5>3, <5>4
      <4> QED
        BY <4>1, <4>2, <4>3
    <3>5. h = k
      BY <3>4
    <3>6. IsWalk(h, expr, now, n)
      BY <3>5 DEF IsWalk
    <3> QED
      BY <3>6
  <2> QED
    BY <2>2, <2>3
<1> QED
  BY <1>1

LEMMA SampledIs ==
    ASSUME NEW expr, NEW now
    PROVE  \E g : IsWalk(g, expr, now, Samples) /\ SampledFires(expr, now) = {g[i] : i \in 1..Samples} \ {Never}
<1> DEFINE fire == CHOOSE g : g = [i \in 0..Samples |->
                        IF i = 0 THEN now
                        ELSE IF g[i - 1] = Never THEN Never ELSE CronNext(expr, g[i - 1])]
<1>1. \E g : g = [i \in 0..Samples |->
                        IF i = 0 THEN now
                        ELSE IF g[i - 1] = Never THEN Never ELSE CronNext(expr, g[i - 1])]
  <2>1. \E g : IsWalk(g, expr, now, Samples)
    BY WalkExists, CronSizes
  <2> QED
    BY <2>1 DEF IsWalk
<1>2. fire = [i \in 0..Samples |->
                        IF i = 0 THEN now
                        ELSE IF fire[i - 1] = Never THEN Never ELSE CronNext(expr, fire[i - 1])]
  BY <1>1
<1>3. SampledFires(expr, now) = {fire[i] : i \in 1..Samples} \ {Never}
  BY DEF SampledFires
<1> HIDE DEF fire
<1>4. IsWalk(fire, expr, now, Samples)
  BY <1>2 DEF IsWalk
<1> QED
  BY <1>3, <1>4

\* The fires are matches, all there are up to the last of them.
LEMMA SampledAre ==
    ASSUME NEW expr, NEW now \in Nat
    PROVE  LET fires == SampledFires(expr, now) IN
           /\ fires \subseteq Nat /\ IsFiniteSet(fires)
           /\ \A b \in fires : b > now /\ Matches(ParseCron(expr), b)
                 /\ \A n \in (now + 1)..b : Matches(ParseCron(expr), n) => n \in fires
           /\ CronNext(expr, now) = Never => fires = {}
           /\ CronNext(expr, now) # Never => CronNext(expr, now) \in fires
<1> DEFINE fires == SampledFires(expr, now)
           M(n) == Matches(ParseCron(expr), n)
<1>1. PICK g : IsWalk(g, expr, now, Samples) /\ fires = {g[i] : i \in 1..Samples} \ {Never}
  BY SampledIs
<1>2. g[0] = now /\ \A i \in 1..Samples : g[i] = IF g[i - 1] = Never THEN Never ELSE CronNext(expr, g[i - 1])
  BY <1>1, CronSizes DEF IsWalk
<1>3. now # Never
  BY DEF Never
<1> DEFINE Good(j) ==
        g[j] # Never =>
            /\ g[j] \in Nat /\ g[j] > now /\ M(g[j]) /\ g[1] # Never
            /\ \A n \in (now + 1)..g[j] : M(n) => \E i \in 1..j : n = g[i]
      bad == {j \in 1..Samples : ~Good(j)}
<1>4. ASSUME bad # {} PROVE FALSE
  <2>1. PICK j \in bad : \A k \in bad : j <= k
    <3>1. bad \in SUBSET Nat
      BY CronSizes
    <3> HIDE DEF bad
    <3> QED
      BY <1>4, <3>1, LeastElement
  <2>2. j \in 1..Samples /\ ~Good(j) /\ j \in Nat
    BY <2>1, CronSizes
  <2>3. g[j] # Never /\ g[j - 1] # Never /\ g[j] = CronNext(expr, g[j - 1])
    BY <1>2, <2>2
  <2>4. CASE j = 1
    <3>1. g[1] = CronNext(expr, now) /\ g[1] # Never
      BY <1>2, <2>3, <2>4
    <3>2. /\ g[1] \in Nat /\ g[1] > now /\ M(g[1])
          /\ \A n \in (now + 1)..g[1] : M(n) => n = g[1]
      BY <3>1, CronNextIs
    <3> HIDE DEF M
    <3> QED
      BY <2>2, <2>4, <3>1, <3>2
  <2>5. CASE j # 1
    <3>1. j - 1 \in 1..Samples /\ j - 1 \in Nat /\ j - 1 \notin bad
      BY <2>1, <2>2, <2>5, CronSizes
    <3>2. Good(j - 1)
      BY <3>1
    <3>3. /\ g[j - 1] \in Nat /\ g[j - 1] > now /\ g[1] # Never
          /\ \A n \in (now + 1)..g[j - 1] : M(n) => \E i \in 1..(j - 1) : n = g[i]
      BY <2>3, <3>2
    <3>4. /\ g[j] \in Nat /\ g[j] > g[j - 1] /\ M(g[j])
          /\ \A n \in (g[j - 1] + 1)..g[j] : M(n) => n = g[j]
      BY <2>3, <3>3, CronNextIs
    <3> HIDE DEF M
    <3>5. ASSUME NEW n \in (now + 1)..g[j], M(n) PROVE \E i \in 1..j : n = g[i]
      <4>1. CASE n <= g[j - 1]
        <5>1. n \in (now + 1)..g[j - 1]
          BY <3>3, <3>4, <4>1
        <5>2. PICK i \in 1..(j - 1) : n = g[i]
          BY <3>3, <3>5, <5>1
        <5>3. i \in 1..j
          BY <2>2
        <5> QED
          BY <5>2, <5>3
      <4>2. CASE n > g[j - 1]
        <5>1. n \in (g[j - 1] + 1)..g[j]
          BY <3>3, <3>4, <4>2
        <5>2. n = g[j] /\ j \in 1..j
          BY <2>2, <3>4, <3>5, <5>1
        <5> QED
          BY <5>2
      <4> QED
        BY <3>3, <3>4, <4>1, <4>2
    <3> QED
      BY <2>2, <3>3, <3>4, <3>5
  <2> QED
    BY <2>4, <2>5
<1>5. \A j \in 1..Samples : Good(j)
  BY <1>4
<1>6. 1 \in 1..Samples /\ g[1] = CronNext(expr, now)
  <2>1. 1 \in 1..Samples
    BY CronSizes
  <2>2. g[1] = IF g[1 - 1] = Never THEN Never ELSE CronNext(expr, g[1 - 1])
    BY <1>2, <2>1
  <2>3. 1 - 1 = 0
    OBVIOUS
  <2>4. g[1 - 1] = now
    BY <1>2, <2>3
  <2> QED
    BY <1>3, <2>1, <2>2, <2>4
<1>7. fires \subseteq Nat /\ \A b \in fires : b > now /\ M(b) /\ g[1] # Never
        /\ \A n \in (now + 1)..b : M(n) => n \in fires
  <2> HIDE DEF fires, M
  <2>1. fires \subseteq Nat
    BY <1>1, <1>5
  <2>2. ASSUME NEW b \in fires
        PROVE  b > now /\ M(b) /\ g[1] # Never /\ \A n \in (now + 1)..b : M(n) => n \in fires
    <3>1. PICK j \in 1..Samples : b = g[j] /\ b # Never
      BY <1>1
    <3>2. b > now /\ M(b) /\ g[1] # Never /\ \A n \in (now + 1)..b : M(n) => \E i \in 1..j : n = g[i]
      BY <1>5, <3>1
    <3>3. \A i \in 1..j : i \in 1..Samples
      BY CronSizes
    <3>4. \A n \in (now + 1)..b : n # Never
      BY DEF Never
    <3> QED
      BY <1>1, <3>2, <3>3, <3>4
  <2> QED
    BY <2>1, <2>2
<1>8. IsFiniteSet(fires)
  <2> DEFINE h == [i \in 1..Samples |-> g[i]]
             all == {g[i] : i \in 1..Samples}
  <2>1. h \in Surjection(1..Samples, all)
    BY DEF Surjection
  <2>2. IsFiniteSet(1..Samples)
    BY CronSizes, FS_Interval
  <2>3. IsFiniteSet(all)
    <3> HIDE DEF h, all
    <3> QED
      BY <2>1, <2>2, FS_Surjection
  <2>4. fires \subseteq all
    BY <1>1
  <2> HIDE DEF all, fires
  <2> QED
    BY <2>3, <2>4, FS_Subset
<1>9. CronNext(expr, now) = Never => fires = {}
  <2> HIDE DEF fires, M
  <2> QED
    BY <1>6, <1>7
<1>10. CronNext(expr, now) # Never => CronNext(expr, now) \in fires
  <2> HIDE DEF fires
  <2> QED
    BY <1>1, <1>6
<1> QED
  BY <1>7, <1>8, <1>9, <1>10

-----------------------------------------------------------------------------
(***************************************************************************)
(* The schedule: it was sampled when it was made, and what it fired last   *)
(* is among the sampled fires while the next one is (FiredSampled).        *)
(***************************************************************************)
CronPhases == {"asked", "invalid", "too often", "never", "scheduled", "completed"}
CronType == [expr : Exprs, phase : CronPhases, looked : Nat, last : Nat \cup {Never},
             next : Nat \cup {Never}, sampled : SUBSET Nat, fires : 0..MaxFires]
Made == cron.phase \in {"scheduled", "completed"}

SampleOK(expr, fires) ==
    /\ IsFiniteSet(fires) /\ ~TooOften(fires)
    /\ \A a, b \in fires : \A n \in a..b : Matches(ParseCron(expr), n) => n \in fires

FiredSampled ==
    /\ cron.last # Never =>
          /\ Made /\ Matches(ParseCron(cron.expr), cron.last)
          /\ \E a \in cron.sampled : a <= cron.last
          /\ cron.next # Never => cron.last < cron.next
    /\ cron.phase = "scheduled" => \E a \in cron.sampled : a <= cron.next
    /\ Made => IsValid(cron.expr) /\ SampleOK(cron.expr, cron.sampled)
    /\ ~Made => cron.next = Never /\ cron.sampled = {}
    /\ cron.phase = "never" => IsValid(cron.expr)

CronInv == cron \in CronType /\ FiredSampled /\ NextIsTheNext /\ OnlyWrongIsInvalid

LEMMA CronFields ==
    ASSUME cron \in CronType
    PROVE  /\ cron.expr \in Exprs /\ cron.phase \in CronPhases /\ cron.looked \in Nat
           /\ cron.last \in Nat \cup {Never} /\ cron.next \in Nat \cup {Never}
           /\ cron.sampled \subseteq Nat /\ cron.fires \in 0..MaxFires
BY DEF CronType

LEMMA InvMeansFloor == CronInv => FloorHolds
<1> SUFFICES ASSUME CronInv, cron.last # Never, cron.next \in cron.sampled
             PROVE  cron.next - cron.last >= Floor
  BY DEF FloorHolds
<1> DEFINE S == cron.sampled  a == cron.last  b == cron.next
           after == {n \in S : n > a}
<1>1. /\ a \in Nat /\ b \in Nat /\ S \subseteq Nat /\ b # Never /\ b \in S
  BY CronFields DEF CronInv, Never
<1>2. /\ Matches(ParseCron(cron.expr), a) /\ a < b /\ SampleOK(cron.expr, S)
      /\ \E c \in S : c <= a
  BY <1>1 DEF CronInv, FiredSampled
<1>3. a \in S
  <2>1. PICK c \in S : c <= a
    BY <1>2
  <2>2. a \in c..b
    BY <1>1, <1>2, <2>1
  <2> QED
    BY <1>1, <1>2, <2>1, <2>2 DEF SampleOK
<1> HIDE DEF S, a, b
<1>4. Max(S) \in S /\ \A m \in S : m <= Max(S)
  BY <1>1, <1>2, MaxOf DEF SampleOK
<1>5. a # Max(S)
  BY <1>1, <1>2, <1>4
<1>6. after \in SUBSET Nat /\ b \in after
  BY <1>1, <1>2
<1>7. Min(after) \in after /\ \A m \in after : Min(after) <= m
  <2> HIDE DEF after
  <2> QED
    BY <1>6, MinOf
<1>8. Min(after) - a \in Gaps(S)
  BY <1>3, <1>5 DEF Gaps
<1>9. ~(Min(after) - a < Floor)
  BY <1>1, <1>2, <1>8 DEF SampleOK, TooOften
<1>10. Min(after) \in Nat /\ Min(after) <= b
  BY <1>1, <1>6, <1>7
<1>11. b - a >= Floor
  <2> HIDE DEF after
  <2> QED
    BY <1>1, <1>9, <1>10, CronSizes
<1> QED
  BY <1>11 DEF a, b

LEMMA CronInvMeans == CronInv => CronHolds
BY InvMeansFloor, CronFields DEF CronInv, CronHolds, CronTypeOK, CronPhases

LEMMA CronInit_Inv == CronInit => CronInv
<1> SUFFICES ASSUME CronInit PROVE CronInv
  OBVIOUS
<1>1. PICK expr \in Exprs, now \in Starts :
        cron = [expr |-> expr, phase |-> "asked", looked |-> now, last |-> Never, next |-> Never,
                sampled |-> {}, fires |-> 0]
  BY DEF CronInit
<1>2. cron \in CronType
  BY <1>1, CronSizes DEF CronType, CronPhases
<1>3. cron.phase = "asked" /\ cron.last = Never /\ cron.next = Never /\ cron.sampled = {}
  BY <1>1
<1> QED
  BY <1>2, <1>3 DEF CronInv, FiredSampled, Made, NextIsTheNext, OnlyWrongIsInvalid

\* The minutes ahead that the expression names are those that match.
LEMMA AheadIsDue ==
    ASSUME NEW expr \in Exprs, IsValid(expr), NEW t \in Nat
    PROVE  {n \in (t + 1)..(t + Lookahead) : OccursAt(expr, n)} = MatchesAhead(expr, t)
<1>1. \A n \in (t + 1)..(t + Lookahead) : n \in Nat
  BY CronSizes
<1>2. \A n \in (t + 1)..(t + Lookahead) : OccursAt(expr, n) <=> Matches(ParseCron(expr), n)
  BY <1>1, MatchesMeansOccurs
<1> QED
  BY <1>2 DEF MatchesAhead

\* An expression that is refused has an item that is wrong.
LEMMA RefusedIsWrong ==
    ASSUME NEW expr \in Exprs, ~IsValid(expr)
    PROVE  \E f \in Fields : \E item \in expr[f] :
              \/ item.step <= 0
              \/ PartFrom(f, item) < Lo(f) \/ PartFrom(f, item) > PartTo(f, item)
              \/ PartTo(f, item) > (IF f = "dow" THEN WeekLength ELSE Hi(f))
<1> SUFFICES ASSUME \A f \in Fields : \A item \in expr[f] :
                       /\ ~(item.step <= 0)
                       /\ ~(PartFrom(f, item) < Lo(f)) /\ ~(PartFrom(f, item) > PartTo(f, item))
                       /\ ~(PartTo(f, item) > (IF f = "dow" THEN WeekLength ELSE Hi(f)))
             PROVE  FALSE
  OBVIOUS
<1>1. PICK f \in Fields : expr[f] = {} \/ \E item \in expr[f] : ~PartIsValid(f, item)
  BY DEF IsValid
<1>2. expr[f] \in SUBSET FieldItems /\ expr[f] # {}
  <2> DEFINE D == (SUBSET FieldItems) \ {{}}
  <2>1. expr \in [Fields -> D]
    BY CronAssumption
  <2> HIDE DEF D
  <2>2. expr[f] \in D
    BY <2>1
  <2> QED
    BY <2>2 DEF D
<1>3. PICK item \in expr[f] : ~PartIsValid(f, item)
  BY <1>1, <1>2
<1> DEFINE from == PartFrom(f, item)  to == PartTo(f, item)
<1>4. item \in FieldItems
  BY <1>2, <1>3
<1>5. item.step \in Int /\ (IsStar(item) \/ (item.from \in Int /\ item.to \in Int))
  <2>1. CASE item \in [kind : {"bare", "star"}, step : Int]
    <3>1. item.step \in Int
      BY <2>1
    <3>2. item.kind \in {"bare", "star"}
      BY <2>1
    <3>3. IsStar(item)
      BY <3>2 DEF IsStar
    <3> QED
      BY <3>1, <3>3, Zenon
  <2>2. CASE item \in [kind : {"range"}, from : Int, to : Int, step : Int]
    BY <2>2
  <2> QED
    BY <1>4, <2>1, <2>2 DEF FieldItems
<1>6. Lo(f) \in Int
  BY DEF Lo
<1>7. from \in Int
  BY <1>5, <1>6 DEF PartFrom
<1>8. ~(item.step <= 0) /\ ~(from < Lo(f)) /\ ~(from > to)
      /\ ~(to > (IF f = "dow" THEN WeekLength ELSE Hi(f)))
  OBVIOUS
<1>9. item.step > 0
  BY <1>5, <1>8
<1>b. to \in Int /\ Hi(f) \in Int
  <2>1. Hi(f) \in Int
    BY CronSizes DEF Hi, Fields
  <2> QED
    BY <1>5, <2>1 DEF PartTo
<1>c. PartIsValid(f, item)
  <2> HIDE DEF from, to
  <2>1. from <= to /\ from >= Lo(f)
    BY <1>6, <1>7, <1>8, <1>b
  <2>2. CASE f = "dow"
    <3>1. Lo(f) = 0 /\ to <= WeekLength
      BY <1>8, <1>b, <2>2, CronSizes DEF Lo
    <3>2. {from, to} \subseteq 0..WeekLength
      BY <1>7, <1>b, <2>1, <3>1, CronSizes
    <3> QED
      BY <1>9, <2>1, <2>2, <3>2 DEF PartIsValid, from, to
  <2>3. CASE f # "dow"
    <3>1. to <= Hi(f)
      BY <1>8, <1>b, <2>3
    <3>2. Walked(f, item) \subseteq from..to
      BY DEF Walked, from, to
    <3>3. Walked(f, item) \subseteq Lo(f)..Hi(f)
      BY <1>6, <1>7, <1>b, <2>1, <3>1, <3>2
    <3> QED
      BY <1>9, <2>1, <2>3, <3>3 DEF PartIsValid, from, to
  <2> QED
    BY <2>2, <2>3
<1> QED
  BY <1>3, <1>c

LEMMA CreateKeeps ==
    ASSUME CronInv, Create
    PROVE  CronInv'
<1> DEFINE fires == IF IsValid(cron.expr) THEN SampledFires(cron.expr, cron.looked) ELSE {}
<1>1. cron \in CronType /\ cron.phase = "asked"
  BY DEF CronInv, Create
<1>2. /\ cron.expr \in Exprs /\ cron.looked \in Nat /\ cron.next = Never /\ cron.sampled = {}
      /\ cron.last = Never /\ cron.fires \in 0..MaxFires
  BY <1>1, CronFields DEF CronInv, FiredSampled, Made
<1>3. IF ~IsValid(cron.expr) THEN cron' = [cron EXCEPT !.phase = "invalid"]
      ELSE IF TooOften(fires) THEN cron' = [cron EXCEPT !.phase = "too often"]
      ELSE IF fires = {} THEN cron' = [cron EXCEPT !.phase = "never"]
      ELSE cron' = [expr |-> cron.expr, phase |-> "scheduled", looked |-> cron.looked, last |-> cron.last,
                    next |-> CronNext(cron.expr, cron.looked), sampled |-> fires, fires |-> cron.fires]
  BY DEF Create
<1>4. ASSUME NEW p \in CronPhases, cron' = [cron EXCEPT !.phase = p]
      PROVE  /\ cron' \in CronType /\ cron'.phase = p /\ cron'.expr = cron.expr
             /\ cron'.looked = cron.looked /\ cron'.last = Never /\ cron'.next = Never
             /\ cron'.sampled = {}
  BY <1>1, <1>2, <1>4 DEF CronType
<1>5. CASE ~IsValid(cron.expr)
  <2>1. cron' = [cron EXCEPT !.phase = "invalid"] /\ "invalid" \in CronPhases
    BY <1>3, <1>5 DEF CronPhases
  <2>2. /\ cron' \in CronType /\ cron'.phase = "invalid" /\ cron'.expr = cron.expr
        /\ cron'.last = Never /\ cron'.next = Never /\ cron'.sampled = {}
    BY <1>4, <2>1
  <2>3. OnlyWrongIsInvalid'
    BY <1>2, <1>5, <2>2, RefusedIsWrong DEF OnlyWrongIsInvalid
  <2> QED
    BY <2>2, <2>3 DEF CronInv, FiredSampled, Made, NextIsTheNext
<1>6. CASE IsValid(cron.expr)
  <2>1. fires = SampledFires(cron.expr, cron.looked)
    BY <1>6
  <2>2. /\ fires \subseteq Nat /\ IsFiniteSet(fires)
        /\ \A b \in fires : b > cron.looked /\ Matches(ParseCron(cron.expr), b)
              /\ \A n \in (cron.looked + 1)..b : Matches(ParseCron(cron.expr), n) => n \in fires
        /\ CronNext(cron.expr, cron.looked) = Never => fires = {}
        /\ CronNext(cron.expr, cron.looked) # Never => CronNext(cron.expr, cron.looked) \in fires
    BY <1>2, <2>1, SampledAre
  <2>3. MatchesAhead(cron.expr, cron.looked)
            = {t \in (cron.looked + 1)..(cron.looked + Lookahead) : OccursAt(cron.expr, t)}
    BY <1>2, <1>6, AheadIsDue
  <2> HIDE DEF fires
  <2>4. CASE TooOften(fires)
    <3>1. cron' = [cron EXCEPT !.phase = "too often"] /\ "too often" \in CronPhases
      BY <1>3, <1>6, <2>4 DEF CronPhases
    <3>2. /\ cron' \in CronType /\ cron'.phase = "too often"
          /\ cron'.last = Never /\ cron'.next = Never /\ cron'.sampled = {}
      BY <1>4, <3>1
    <3> QED
      BY <3>2 DEF CronInv, FiredSampled, Made, NextIsTheNext, OnlyWrongIsInvalid
  <2>5. CASE ~TooOften(fires) /\ fires = {}
    <3>1. cron' = [cron EXCEPT !.phase = "never"] /\ "never" \in CronPhases
      BY <1>3, <1>6, <2>5 DEF CronPhases
    <3>2. /\ cron' \in CronType /\ cron'.phase = "never" /\ cron'.expr = cron.expr
          /\ cron'.looked = cron.looked
          /\ cron'.last = Never /\ cron'.next = Never /\ cron'.sampled = {}
      BY <1>4, <3>1
    <3>3. CronNext(cron.expr, cron.looked) = Never
      BY <2>2, <2>5
    <3>4. MatchesAhead(cron.expr, cron.looked) = {}
      BY <1>2, <3>3, CronNextIs
    <3>5. NextIsTheNext'
      BY <2>3, <3>2, <3>4 DEF NextIsTheNext
    <3> QED
      BY <1>6, <3>2, <3>5 DEF CronInv, FiredSampled, Made, OnlyWrongIsInvalid
  <2>6. CASE ~TooOften(fires) /\ fires # {}
    <3> DEFINE n == CronNext(cron.expr, cron.looked)
    <3>1. cron' = [expr |-> cron.expr, phase |-> "scheduled", looked |-> cron.looked, last |-> cron.last,
                   next |-> n, sampled |-> fires, fires |-> cron.fires]
      BY <1>3, <1>6, <2>6
    <3>2. n # Never /\ n \in fires
      BY <2>2, <2>6
    <3>3. n \in Nat /\ n \in MatchesAhead(cron.expr, cron.looked) /\ \A m \in MatchesAhead(cron.expr, cron.looked) : n <= m
      BY <1>2, <3>2, CronNextIs
    <3> HIDE DEF n
    <3>4. /\ cron'.phase = "scheduled" /\ cron'.expr = cron.expr /\ cron'.looked = cron.looked
          /\ cron'.last = Never /\ cron'.next = n /\ cron'.sampled = fires
      BY <1>2, <3>1
    <3>5. cron' \in CronType
      BY <1>2, <2>2, <3>1, <3>3 DEF CronType, CronPhases
    <3>6. NextIsTheNext'
      BY <2>3, <3>3, <3>4 DEF NextIsTheNext
    <3>7. \A a, b \in fires : \A m \in a..b : Matches(ParseCron(cron.expr), m) => m \in fires
      <4> TAKE a, b \in fires
      <4>1. a..b \subseteq (cron.looked + 1)..b
        BY <1>2, <2>2
      <4> QED
        BY <2>2, <4>1
    <3>8. SampleOK(cron.expr, fires)
      BY <2>2, <2>6, <3>7 DEF SampleOK
    <3>9. \E a \in fires : a <= n
      BY <3>2, <3>3
    <3> QED
      BY <1>6, <3>4, <3>5, <3>6, <3>8, <3>9 DEF CronInv, FiredSampled, Made, OnlyWrongIsInvalid
  <2> QED
    BY <2>4, <2>5, <2>6
<1> QED
  BY <1>5, <1>6

LEMMA FireKeeps ==
    ASSUME CronInv, Fire
    PROVE  CronInv'
<1>1. cron \in CronType /\ cron.phase = "scheduled" /\ cron.fires < MaxFires
  BY DEF CronInv, Fire
<1>2. /\ cron.expr \in Exprs /\ cron.looked \in Nat /\ cron.fires \in 0..MaxFires
      /\ cron.next \in Nat \cup {Never} /\ cron.sampled \subseteq Nat
  BY <1>1, CronFields
<1>3. /\ IsValid(cron.expr) /\ SampleOK(cron.expr, cron.sampled)
      /\ \E a \in cron.sampled : a <= cron.next
  BY <1>1 DEF CronInv, FiredSampled, Made
<1>4. cron.next \in (cron.looked + 1)..(cron.looked + Lookahead) /\ OccursAt(cron.expr, cron.next)
  BY <1>1 DEF CronInv, NextIsTheNext
<1>5. cron.next \in Nat /\ cron.next # Never
  BY <1>2, <1>4, CronSizes DEF Never
<1>6. Matches(ParseCron(cron.expr), cron.next)
  BY <1>2, <1>3, <1>4, <1>5, MatchesMeansOccurs
<1>7. PICK now \in cron.next..(cron.next + MaxLate) :
        LET next == CronNext(cron.expr, now) IN
        cron' = [expr |-> cron.expr, phase |-> IF next = Never THEN "completed" ELSE "scheduled",
                 looked |-> now, last |-> cron.next, next |-> next,
                 sampled |-> cron.sampled, fires |-> cron.fires + 1]
  BY DEF Fire
<1>8. now \in Nat /\ now >= cron.next
  BY <1>5, <1>7, CronSizes
<1> DEFINE n == CronNext(cron.expr, now)
           p == IF n = Never THEN "completed" ELSE "scheduled"
<1>9. cron' = [expr |-> cron.expr, phase |-> p, looked |-> now, last |-> cron.next, next |-> n,
               sampled |-> cron.sampled, fires |-> cron.fires + 1]
  BY <1>7
<1>10. \/ n = Never /\ MatchesAhead(cron.expr, now) = {}
       \/ /\ n \in Nat /\ n # Never /\ n > now /\ n \in MatchesAhead(cron.expr, now)
          /\ \A m \in MatchesAhead(cron.expr, now) : n <= m
  BY <1>8, CronNextIs
<1>11. p \in CronPhases /\ (p = "scheduled" <=> n # Never) /\ p \in {"scheduled", "completed"}
  BY DEF CronPhases
<1>12. MatchesAhead(cron.expr, now) = {t \in (now + 1)..(now + Lookahead) : OccursAt(cron.expr, t)}
  BY <1>2, <1>3, <1>8, AheadIsDue
<1> HIDE DEF n, p
<1>13. /\ cron'.phase = p /\ cron'.expr = cron.expr /\ cron'.looked = now
       /\ cron'.last = cron.next /\ cron'.next = n /\ cron'.sampled = cron.sampled
  BY <1>9
<1>14. cron' \in CronType
  <2>1. cron.fires + 1 \in 0..MaxFires
    BY <1>1, <1>2, CronSizes
  <2>2. n \in Nat \cup {Never}
    BY <1>10
  <2> QED
    BY <1>2, <1>5, <1>8, <1>9, <1>11, <2>1, <2>2 DEF CronType
<1>15. NextIsTheNext'
  BY <1>10, <1>11, <1>12, <1>13 DEF NextIsTheNext
<1>16. FiredSampled'
  <2>1. PICK a \in cron.sampled : a <= cron.next
    BY <1>3
  <2>2. n # Never => cron.next < n /\ a <= n
    BY <1>2, <1>5, <1>8, <1>10, <2>1
  <2>3. Made'
    BY <1>11, <1>13 DEF Made
  <2> QED
    BY <1>3, <1>6, <1>11, <1>13, <2>1, <2>2, <2>3 DEF FiredSampled
<1>17. OnlyWrongIsInvalid'
  BY <1>11, <1>13 DEF OnlyWrongIsInvalid
<1> QED
  BY <1>14, <1>15, <1>16, <1>17 DEF CronInv

LEMMA CronStepKeeps == CronInv /\ [CronStep]_cron => CronInv'
<1> SUFFICES ASSUME CronInv, [CronStep]_cron PROVE CronInv'
  OBVIOUS
<1>1. CASE UNCHANGED cron
  BY <1>1 DEF CronInv, FiredSampled, Made, NextIsTheNext, OnlyWrongIsInvalid
<1> QED
  BY <1>1, CreateKeeps, FireKeeps DEF CronStep

-----------------------------------------------------------------------------
(***************************************************************************)
(* The parts together.  A step of the platform is a step of each part or   *)
(* leaves it alone, so each keeps its invariant.                           *)
(***************************************************************************)
LEMMA PartsInit ==
    PlatformInit => BrokerInit /\ AdmissionInit /\ CronInit /\ PolicyInit /\ GateInit
BY DEF PlatformInit

LEMMA PartsNext ==
    [PlatformNext]_platformVars =>
        /\ [BrokerNext]_brokerVars /\ [AdmissionNext]_doorVars /\ [CronStep]_cron
        /\ [Edit]_policyVars /\ [GateNext]_gateVars
<1> SUFFICES ASSUME [PlatformNext]_platformVars
             PROVE  /\ [BrokerNext]_brokerVars /\ [AdmissionNext]_doorVars /\ [CronStep]_cron
                    /\ [Edit]_policyVars /\ [GateNext]_gateVars
  OBVIOUS
<1>1. CASE UNCHANGED platformVars
  BY <1>1 DEF platformVars
<1>2. CASE TokensPart
  BY <1>2 DEF TokensPart
<1>3. CASE DoorPart
  BY <1>3 DEF DoorPart
<1>4. CASE CronPart
  BY <1>4 DEF CronPart
<1>5. CASE PolicyPart
  BY <1>5 DEF PolicyPart
<1>6. CASE GatePart
  BY <1>6 DEF GatePart
<1> QED
  BY <1>1, <1>2, <1>3, <1>4, <1>5, <1>6 DEF PlatformNext

(***************************************************************************)
(* For every size, batch and threshold, and however requests, approvals,   *)
(* retries and merges interleave: a campaign that runs is no larger than   *)
(* the threshold or what its human agreed to, but for lists that were      *)
(* merged side by side; what an agent runs is within two buckets of what   *)
(* its human approved, and a backfill within one of what was shown         *)
(* (require_confirmation, verify_human_approval).                          *)
(***************************************************************************)
THEOREM CostsAreAgreedToHolds == PlatformSpec => []CostsAreAgreedTo
<1>1. PlatformInit => GateInv
  BY PartsInit, GateInit_Inv
<1>2. GateInv /\ [PlatformNext]_platformVars => GateInv'
  BY PartsNext, GateStep
<1>3. GateInv => CostsAreAgreedTo
  BY DEF GateInv, CostsAreAgreedTo
<1> QED
  BY <1>1, <1>2, <1>3, PTL DEF PlatformSpec

(***************************************************************************)
(* For every finite set of calls, lifetimes and slacks: a key whose lock   *)
(* was not dropped has one exchange at a time, none while its token is     *)
(* fresh, and no token is over when it is handed out (token_for). For any  *)
(* visits, keys and intervals: a token in order is refused only at the     *)
(* publication of its key or after its retirement, and a retired key       *)
(* opens the door only for as long as it may be cached, or while           *)
(* refreshes fail (parse_token, key_for).                                  *)
(***************************************************************************)
THEOREM IdentityHoldsAlways == PlatformSpec => []IdentityHolds
<1>1. PlatformInit => TokenInv /\ DoorInv
  BY PartsInit, TokenInit_Inv, DoorInit_Inv
<1>2. TokenInv /\ DoorInv /\ [PlatformNext]_platformVars => TokenInv' /\ DoorInv'
  BY PartsNext, TokenStep, DoorStep
<1>3. TokenInv /\ DoorInv => IdentityHolds
  BY TokenInvMeans, DoorInvMeans DEF IdentityHolds
<1> QED
  BY <1>1, <1>2, <1>3, PTL DEF PlatformSpec

(***************************************************************************)
(* For every policy and edit of it, where the checks are silent its        *)
(* copies do together what the code means: hops, origins, roles and        *)
(* anonymous paths (verify_policy, check_mesh_anonymous). For every        *)
(* calendar and expression, what is scheduled fires next at the first      *)
(* minute its fields name, and fires that were sampled are never closer    *)
(* than the floor (cron_next, schedule_prompt).                            *)
(***************************************************************************)
THEOREM RulesHoldAlways == PlatformSpec => []RulesHold
<1>1. PlatformInit => PolicyTypeOK /\ CronInv
  BY PartsInit, PolicyInit_Type, CronInit_Inv
<1>2. PolicyTypeOK /\ CronInv /\ [PlatformNext]_platformVars => PolicyTypeOK' /\ CronInv'
  BY PartsNext, PolicyStep, CronStepKeeps
<1>3. PolicyTypeOK /\ CronInv => RulesHold
  BY PolicyInvMeans, CronInvMeans DEF RulesHold
<1> QED
  BY <1>1, <1>2, <1>3, PTL DEF PlatformSpec
=============================================================================
