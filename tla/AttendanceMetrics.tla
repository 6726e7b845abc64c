------------------------- MODULE AttendanceMetrics -------------------------
(***************************************************************************)
(* The pure arithmetic of attendance: which day an instant belongs to,     *)
(* what the work schedule asks of that day, and the minutes and the status *)
(* AttendanceService derives from a day's first check-in and last          *)
(* check-out.  Instants are counted from the start of day 0 in the         *)
(* company's time zone, in the unit of the clock: a day is DayLength of    *)
(* them and a minute MinuteLength.  The schedule, leave and derived        *)
(* columns are in minutes.                                                 *)
(***************************************************************************)
EXTENDS Integers

CONSTANTS
    None,         \* null
    DayLength,    \* instants in a calendar day
    MinuteLength, \* instants in a minute
    Schedule      \* [active, start, end, grace, workDays]: the work schedule

ASSUME DayLengthAssumption == DayLength \in Nat \ {0}

ASSUME MinuteLengthAssumption == MinuteLength \in Nat \ {0}

ASSUME ScheduleAssumption ==
    /\ Schedule.active \in BOOLEAN
    /\ Schedule.start \in Int
    /\ Schedule.end \in Int
    /\ Schedule.grace \in Nat

ASSUME NoneIsNotATime == None \notin Int

\* The calendar day an instant falls on.
Day(t) == t \div DayLength

\* Sunday is 7; day 0 is a Sunday.
WorkDayNumber(d) == IF d % 7 = 0 THEN 7 ELSE d % 7

\* Slip: the difference not floored at 0.
SignedDifference(start, end) ==
    IF start = None \/ end = None THEN 0 ELSE (end - start) \div MinuteLength

\* Whole minutes from start to end, never negative, 0 when either is missing.
MinutesDifference(start, end) ==
    IF start = None \/ end = None \/ end < start THEN 0
    ELSE (end - start) \div MinuteLength

ScheduledStart(d) == d * DayLength + Schedule.start * MinuteLength
ScheduledEnd(d) == d * DayLength + Schedule.end * MinuteLength

\* The day is one the schedule says anything about.
OnSchedule(d) == Schedule.active /\ WorkDayNumber(d) \in Schedule.workDays

\* Minutes after the (leave-shifted) start, less the grace period.
LateMinutes(d, checkIn, leave) ==
    LET late == MinutesDifference(ScheduledStart(d) + leave * MinuteLength, checkIn)
    IN  IF OnSchedule(d) /\ late > Schedule.grace THEN late - Schedule.grace ELSE 0

EarlyLeaveMinutes(d, checkOut) ==
    IF OnSchedule(d) THEN MinutesDifference(checkOut, ScheduledEnd(d)) ELSE 0

OvertimeMinutes(d, checkOut) ==
    IF OnSchedule(d) THEN MinutesDifference(ScheduledEnd(d), checkOut) ELSE 0

Status(late, early, checkIn, checkOut) ==
    IF checkIn = None /\ checkOut = None THEN "absent"
    ELSE IF late > 0 THEN "late"
    ELSE IF early > 0 THEN "early_leave"
    ELSE "present"

\* The derived columns of a day's row.
Metrics(d, checkIn, checkOut, leave) ==
    LET late == LateMinutes(d, checkIn, leave)
        early == EarlyLeaveMinutes(d, checkOut)
    IN  [worked   |-> MinutesDifference(checkIn, checkOut),
         late     |-> late,
         early    |-> early,
         overtime |-> OvertimeMinutes(d, checkOut),
         status   |-> Status(late, early, checkIn, checkOut)]

Statuses == {"absent", "present", "late", "early_leave"}

=============================================================================
