---------------------------- MODULE CronSchedule ----------------------------
(***************************************************************************)
(* The cron expressions of the agents scheduler: how one is parsed, which  *)
(* minutes it matches, the floor under its interval when it is created,    *)
(* and the walk from each firing to the next.  A minute is a number, and   *)
(* the calendar, the bounds of its fields with it, is a parameter.         *)
(***************************************************************************)
EXTENDS Integers, Sequences, FiniteSets, FiniteSetsExt

CONSTANTS
    Exprs,          \* expressions: per field, the set of its parts
    Starts,         \* minutes at which one is created
    HourLength, DayLength, WeekLength, MonthLength, YearLength,
    Days,           \* month and day of the month of the days of one cycle of the calendar
    Lookahead,      \* _MAX_LOOKAHEAD, in minutes
    Samples,        \* _MIN_INTERVAL_SAMPLES
    Floor,          \* schedule_min_recurring_interval_minutes
    MaxLate,        \* bound: how late a poll finds a due schedule
    MaxFires        \* bound: firings

Fields == {"minute", "hour", "dom", "month", "dow"}

\* An item of a field, of which there is one at least.
FieldItems == [kind : {"bare", "star"}, step : Int] \cup [kind : {"range"}, from : Int, to : Int, step : Int]

ASSUME CronAssumption ==
    /\ {HourLength, DayLength, WeekLength, MonthLength, YearLength} \subseteq Nat
    /\ {Lookahead, Floor, MaxLate, MaxFires} \subseteq Nat
    /\ {HourLength, DayLength, WeekLength} \cap {0} = {} /\ Starts \subseteq Nat
    /\ Samples \in Nat \ {0, 1} /\ Days # << >>
    /\ Exprs \subseteq [Fields -> (SUBSET FieldItems) \ {{}}]
    /\ Days \in Seq([month : 1..YearLength, dom : 1..MonthLength])

VARIABLE cron   \* the schedule: expression, phase, last and next firing

-----------------------------------------------------------------------------
(***************************************************************************)
(* The calendar.                                                           *)
(***************************************************************************)
Lo(f) == IF f \in {"dom", "month"} THEN 1 ELSE 0
Hi(f) ==
    CASE f = "minute" -> HourLength - 1
      [] f = "hour" -> DayLength - 1
      [] f = "dom" -> MonthLength
      [] f = "month" -> YearLength
      [] f = "dow" -> WeekLength - 1

DayOf(t) == t \div (HourLength * DayLength)
Date(t) == Days[1 + (DayOf(t) % Len(Days))]

At(t) == [minute |-> t % HourLength, hour |-> (t \div HourLength) % DayLength,
          dom |-> Date(t).dom, month |-> Date(t).month, dow |-> DayOf(t) % WeekLength]

-----------------------------------------------------------------------------
(***************************************************************************)
(* _parse_field.  A part is a star or a range, with a step; a single value *)
(* is a range of one.  A field that is the bare star, and only that text,  *)
(* restricts nothing: a star in a list or with a step, even of one, does.  *)
(***************************************************************************)
Bare == [kind |-> "bare", step |-> 1]
Restricted(field) == field # {Bare}

IsStar(part) == part.kind \in {"bare", "star"}
PartFrom(f, part) == IF IsStar(part) THEN Lo(f) ELSE part.from
PartTo(f, part) == IF IsStar(part) THEN Hi(f) ELSE part.to

Walked(f, part) ==
    {v \in PartFrom(f, part)..PartTo(f, part) : (v - PartFrom(f, part)) % part.step = 0}

\* A day of the week may be given as the week's length; else each value, but
\* not the end of its range, is held against the bounds.
PartIsValid(f, part) ==
    /\ part.step > 0 /\ PartFrom(f, part) <= PartTo(f, part)
    /\ IF f = "dow" THEN {PartFrom(f, part), PartTo(f, part)} \subseteq 0..WeekLength
       ELSE Walked(f, part) \subseteq Lo(f)..Hi(f)

IsValid(expr) == \A f \in Fields : expr[f] # {} /\ \A part \in expr[f] : PartIsValid(f, part)

Values(f, field) ==
    {IF f = "dow" THEN v % WeekLength ELSE v : v \in UNION {Walked(f, part) : part \in field}}

-----------------------------------------------------------------------------
\* parse_cron.
ParseCron(expr) ==
    [values |-> [f \in Fields |-> Values(f, expr[f])],
     restricted |-> {f \in {"dom", "dow"} : Restricted(expr[f])}]

In(spec, f, t) == At(t)[f] \in spec.values[f]

\* Mutant: both must match when both are restricted.
BothDays(spec, t) == \A f \in spec.restricted : In(spec, f, t)

\* Vixie cron: of two restricted fields either will do.
DayMatches(spec, t) ==
    spec.restricted # {} => \E f \in spec.restricted : In(spec, f, t)

Matches(spec, t) ==
    /\ \A f \in {"minute", "hour", "month"} : In(spec, f, t)
    /\ DayMatches(spec, t)

Never == -1

\* cron_next: the first match strictly after t, if there is one within reach.
CronNext(expr, t) ==
    LET spec == ParseCron(expr)
        due == {n \in (t + 1)..(t + Lookahead) : Matches(spec, n)}
    IN  IF due = {} THEN Never ELSE Min(due)

\* The fires cron_min_interval_minutes samples.
SampledFires(expr, now) ==
    LET fire[i \in 0..Samples] ==
            IF i = 0 THEN now
            ELSE LET before == fire[i - 1] IN
                 IF before = Never THEN Never ELSE CronNext(expr, before)
    IN  {fire[i] : i \in 1..Samples} \ {Never}

Gaps(fires) == {Min({n \in fires : n > t}) - t : t \in fires \ {Max(fires)}}

\* Of fewer than two fires there is no interval.
TooOften(fires) == \E gap \in (IF fires = {} THEN {} ELSE Gaps(fires)) : gap < Floor

-----------------------------------------------------------------------------
CronInit ==
    \E expr \in Exprs, now \in Starts :
        cron = [expr |-> expr, phase |-> "asked", looked |-> now, last |-> Never, next |-> Never,
                sampled |-> {}, fires |-> 0]

\* schedule_prompt with a cron.
Create ==
    /\ cron.phase = "asked"
    /\ LET fires == IF IsValid(cron.expr) THEN SampledFires(cron.expr, cron.looked) ELSE {} IN
       IF ~IsValid(cron.expr) THEN cron' = [cron EXCEPT !.phase = "invalid"]
       ELSE IF TooOften(fires) THEN cron' = [cron EXCEPT !.phase = "too often"]
       ELSE IF fires = {} THEN cron' = [cron EXCEPT !.phase = "never"]
       ELSE cron' = [expr |-> cron.expr, phase |-> "scheduled", looked |-> cron.looked, last |-> cron.last,
                     next |-> CronNext(cron.expr, cron.looked), sampled |-> fires, fires |-> cron.fires]

\* The poll that finds it due; what it missed while it was late it skips.
Fire ==
    /\ cron.phase = "scheduled" /\ cron.fires < MaxFires
    /\ \E now \in cron.next..(cron.next + MaxLate) :
        LET next == CronNext(cron.expr, now) IN
        cron' = [expr |-> cron.expr, phase |-> IF next = Never THEN "completed" ELSE "scheduled",
                 looked |-> now, last |-> cron.next, next |-> next,
                 sampled |-> cron.sampled, fires |-> cron.fires + 1]

CronStep == Create \/ Fire

-----------------------------------------------------------------------------
CronTypeOK ==
    /\ cron.phase \in {"asked", "invalid", "too often", "never", "scheduled", "completed"}
    /\ cron.expr \in Exprs /\ cron.looked \in Nat /\ cron.fires \in 0..MaxFires
    /\ {cron.last, cron.next} \subseteq Nat \cup {Never} /\ cron.sampled \subseteq Nat

(***************************************************************************)
(* What an expression says, part by part: a value of the clock, Sunday     *)
(* being the first and the last day of a week, is on the walk of a part.   *)
(***************************************************************************)
Says(expr, f, t) ==
    \E part \in expr[f] :
        \E v \in {At(t)[f]} \cup (IF f = "dow" /\ At(t)[f] = 0 THEN {WeekLength} ELSE {}) :
            PartFrom(f, part) <= v /\ v <= PartTo(f, part) /\ (v - PartFrom(f, part)) % part.step = 0

OccursAt(expr, t) ==
    /\ \A f \in {"minute", "hour", "month"} : Says(expr, f, t)
    /\ \/ Says(expr, "dom", t) /\ Says(expr, "dow", t)
       \/ Restricted(expr["dom"]) /\ Restricted(expr["dow"])
            /\ (Says(expr, "dom", t) \/ Says(expr, "dow", t))

\* The schedule fires next at a minute its expression names, the first there
\* is since it was last looked at; it ends when there is none in reach.
NextIsTheNext ==
    LET ahead == {t \in (cron.looked + 1)..(cron.looked + Lookahead) : OccursAt(cron.expr, t)} IN
    /\ cron.phase = "scheduled" => cron.next \in ahead /\ \A t \in ahead : cron.next <= t
    /\ cron.phase \in {"never", "completed"} => ahead = {}

\* A schedule whose tightest interval was above the floor does not fire more
\* often, as far as the sample reached.
FloorHolds ==
    cron.last # Never /\ cron.next \in cron.sampled => cron.next - cron.last >= Floor

\* What is called invalid has a step or a range that is.
OnlyWrongIsInvalid ==
    cron.phase = "invalid" =>
        \E f \in Fields : \E part \in cron.expr[f] :
            \/ part.step <= 0
            \/ PartFrom(f, part) < Lo(f) \/ PartFrom(f, part) > PartTo(f, part)
            \/ PartTo(f, part) > (IF f = "dow" THEN WeekLength ELSE Hi(f))

CronHolds == CronTypeOK /\ NextIsTheNext /\ FloorHolds /\ OnlyWrongIsInvalid
=============================================================================
