---- MODULE Period ----
(***************************************************************************)
(* pkg/period: what one period of a spec says of an instant, and what      *)
(* SetActivePeriod makes of a list of them.                                *)
(*                                                                         *)
(* A period is [name, type, min, max, time, days, start, end, once,        *)
(* reverse, loads].  time tells which of recurring and fixed is given; one *)
(* with both, which no scaler is admitted with, is left out.               *)
(* days is a sequence of indices into weekDays.  start and end are minutes *)
(* of the day in a recurring period and minutes of the calendar in a fixed *)
(* one.  loads is FALSE when its time zone or its grace period does not    *)
(* parse, which fails on every day.                                        *)
(***************************************************************************)
EXTENDS Integers, Sequences

CONSTANT DayLength   \* minutes in a day: 1440, and fewer for TLC
ASSUME DayAssumption == DayLength \in Nat \ {0}

\* A count, or a text that does not parse, that is not there.
Nil == -1

\* The index of "all" in weekDays, after those of the seven days, and what
\* slices.Index answers for a text that is no day.
AllDays == 7
BadDay  == -1

\* Three instants of each minute are told apart: its first (hh:mm:00), its last
\* second (hh:mm:59) and whatever lies between them.
PerMinute == 3
Instants == 0 .. 7 * DayLength * PerMinute - 1
DayOf(now) == now \div (DayLength * PerMinute)

\* Minutes that a text gives, or Nil.
Minutes == Nat \cup {Nil}

PeriodRecords == [name : STRING, type : STRING, min : Int, max : Int,
                  time : {"recurring", "fixed", "none"}, days : Seq(Int), start : Minutes, end : Minutes,
                  once : BOOLEAN, reverse : BOOLEAN, loads : BOOLEAN]

----
(***************************************************************************)
(* The days of a period.                                                   *)
(***************************************************************************)
IsDay(day, now) == day = AllDays \/ day = DayOf(now)

\* The days are tried in order until one is today or is no day.
BadDayFirst(days, now) ==
    \E i \in DOMAIN days : days[i] = BadDay /\ \A j \in 1 .. i - 1 : ~IsDay(days[j], now)
OnDay(days, now) ==
    \E i \in DOMAIN days : IsDay(days[i], now) /\ \A j \in 1 .. i - 1 : days[j] # BadDay

----
(***************************************************************************)
(* isPeriodActive                                                          *)
(***************************************************************************)
\* convertFixedToRecurring: every day, and never reverse.
Converted(p) ==
    IF p.time = "fixed" THEN [p EXCEPT !.days = <<AllDays>>, !.reverse = FALSE] ELSE p

\* getTime: a recurring time is anchored to the day it is.
Anchor(p, now) ==
    IF p.time = "recurring" THEN DayOf(now) * DayLength * PerMinute ELSE 0

\* An end at midnight is the end of the day.
EndMinute(p) == IF p.time = "recurring" /\ p.end = 0 THEN DayLength - 1 ELSE p.end

StartInstant(p, now) == Anchor(p, now) + p.start * PerMinute
\* The 59 seconds that make the end inclusive.
EndInstant(p, now) == Anchor(p, now) + EndMinute(p) * PerMinute + (PerMinute - 1)

\* What a period whose day it is says: nothing when its times do not parse or
\* are the wrong way round.
Readable(p, now) ==
    p.start # Nil /\ p.end # Nil /\ StartInstant(p, now) <= EndInstant(p, now)

Within(p, now) == StartInstant(p, now) < now /\ now < EndInstant(p, now)

----
(***************************************************************************)
(* NewWithClock and SetActivePeriod                                        *)
(***************************************************************************)
MinReplicas(p) == IF p.min = Nil THEN 1 ELSE p.min
MaxReplicas(p) == IF p.max = Nil THEN MinReplicas(p) ELSE p.max

\* Loading the period at that instant is an error.  A period that is not for
\* today is not looked at any further.
Fails(p, now) ==
    LET c == Converted(p) IN
    \/ MinReplicas(p) > MaxReplicas(p) \/ ~p.loads
    \/ BadDayFirst(c.days, now)
    \/ OnDay(c.days, now) /\ ~Readable(c, now)

IsActive(p, now) ==
    LET c == Converted(p) IN
    ~Fails(p, now) /\ OnDay(c.days, now) /\ (Within(c, now) # c.reverse)

\* What SetActivePeriod finds besides the periods themselves.
NoPeriod  == 0
LoadError == -1

\* SetActivePeriod without forceRestore: the index of the first active period.  One
\* that fails is only noticed when no earlier one is active.
SetActivePeriod(periods, now) ==
    LET decides == {i \in DOMAIN periods : IsActive(periods[i], now) \/ Fails(periods[i], now)}
        first == CHOOSE i \in decides : \A j \in decides : i <= j
    IN  IF decides = {} THEN NoPeriod
        ELSE IF Fails(periods[first], now) THEN LoadError ELSE first
====
