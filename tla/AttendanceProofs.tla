-------------------------- MODULE AttendanceProofs --------------------------
(***************************************************************************)
(* Proofs about Attendance for every number of employees, calls, days and  *)
(* minutes, every schedule, leave and rate, and every overlap of the calls.*)
(***************************************************************************)
EXTENDS Attendance, TLAPS

(***************************************************************************)
(* Lemmas about the operators.                                             *)
(***************************************************************************)

\* The whole minutes in a number of instants (Math.floor, helpers.ts).
Whole(x) == x \div MinuteLength

LEMMA WholeBounds ==
    ASSUME NEW x \in Int
    PROVE  /\ Whole(x) \in Int
           /\ MinuteLength * Whole(x) <= x
           /\ x < MinuteLength * Whole(x) + MinuteLength
BY MinuteLengthAssumption, SMT DEF Whole

\* A product with the length of a minute is positive only if the other factor is.
LEMMA PositiveFactor ==
    ASSUME NEW z \in Int, MinuteLength * z > 0
    PROVE  z >= 1
BY MinuteLengthAssumption, SMT

\* More instants hold no fewer whole minutes, and a minute more hold one more.
LEMMA WholeMonotone ==
    ASSUME NEW x \in Int, NEW y \in Int
    PROVE  /\ x <= y => Whole(x) <= Whole(y)
           /\ x + MinuteLength <= y => Whole(x) < Whole(y)
           /\ 0 <= x => 0 <= Whole(x)
<1> DEFINE a == Whole(x)
           b == Whole(y)
<1>1. /\ a \in Int /\ MinuteLength * a <= x /\ x < MinuteLength * a + MinuteLength
      /\ b \in Int /\ MinuteLength * b <= y /\ y < MinuteLength * b + MinuteLength
    BY WholeBounds
<1> HIDE DEF a, b
<1>2. x <= y => a <= b
    <2> SUFFICES ASSUME x <= y PROVE a <= b
        OBVIOUS
    <2>1. MinuteLength * (b - a + 1) > 0
        BY <1>1, MinuteLengthAssumption, SMT
    <2>2. b - a + 1 >= 1
        BY <1>1, <2>1, PositiveFactor
    <2>3. QED
        BY <1>1, <2>2
<1>3. x + MinuteLength <= y => a < b
    <2> SUFFICES ASSUME x + MinuteLength <= y PROVE a < b
        OBVIOUS
    <2>1. MinuteLength * (b - a) > 0
        BY <1>1, MinuteLengthAssumption, SMT
    <2>2. QED
        BY <1>1, <2>1, PositiveFactor
<1>4. 0 <= x => 0 <= a
    <2> SUFFICES ASSUME 0 <= x PROVE 0 <= a
        OBVIOUS
    <2>1. MinuteLength * (a + 1) > 0
        BY <1>1, MinuteLengthAssumption, SMT
    <2>2. a + 1 >= 1
        BY <1>1, <2>1, PositiveFactor
    <2>3. QED
        BY <1>1, <2>2
<1>5. QED
    BY <1>2, <1>3, <1>4 DEF a, b

\* A difference of two instants in minutes is a natural number.
LEMMA MinutesDifferenceType ==
    ASSUME NEW a \in Int \cup {None}, NEW b \in Int \cup {None}
    PROVE  MinutesDifference(a, b) \in Nat
<1>1. CASE a = None \/ b = None
    BY <1>1 DEF MinutesDifference
<1>2. CASE a \in Int /\ b \in Int
    <2>1. b - a \in Int /\ (~(b < a) => 0 <= b - a)
        BY <1>2
    <2>2. Whole(b - a) \in Int /\ (~(b < a) => 0 <= Whole(b - a))
        BY <2>1, WholeBounds, WholeMonotone
    <2>3. QED
        BY <2>2 DEF MinutesDifference, Whole
<1>3. QED
    BY <1>1, <1>2

MetricsRecord == [worked : Nat, late : Nat, early : Nat, overtime : Nat, status : Statuses]

\* The derived columns are naturals and a status, whatever the schedule.
LEMMA MetricsType ==
    ASSUME NEW d \in Int, NEW checkIn \in Int \cup {None},
           NEW checkOut \in Int \cup {None}, NEW leave \in Nat
    PROVE  Metrics(d, checkIn, checkOut, leave) \in MetricsRecord
<1>1. ScheduledStart(d) + leave * MinuteLength \in Int /\ ScheduledEnd(d) \in Int
    BY DayLengthAssumption, MinuteLengthAssumption, ScheduleAssumption
       DEF ScheduledStart, ScheduledEnd
<1>2. LateMinutes(d, checkIn, leave) \in Nat
    <2>1. MinutesDifference(ScheduledStart(d) + leave * MinuteLength, checkIn) \in Nat
        BY <1>1, MinutesDifferenceType
    <2>2. QED
        BY <2>1, ScheduleAssumption DEF LateMinutes
<1>3. EarlyLeaveMinutes(d, checkOut) \in Nat /\ OvertimeMinutes(d, checkOut) \in Nat
    BY <1>1, MinutesDifferenceType DEF EarlyLeaveMinutes, OvertimeMinutes
<1>4. MinutesDifference(checkIn, checkOut) \in Nat
    BY MinutesDifferenceType
<1>5. \A l, e : Status(l, e, checkIn, checkOut) \in Statuses
    BY DEF Status, Statuses
<1>6. QED
    BY <1>2, <1>3, <1>4, <1>5 DEF Metrics, MetricsRecord

(***************************************************************************)
(* What the minutes of a day say.                                          *)
(***************************************************************************)

\* A difference of two instants, and the instants of the schedule, in plain arithmetic.
LEMMA MinutesDifferenceIs ==
    ASSUME NEW a \in Int, NEW b \in Int
    PROVE  MinutesDifference(a, b) = IF b < a THEN 0 ELSE Whole(b - a)
BY NoneIsNotATime DEF MinutesDifference, Whole

LEMMA ScheduledType ==
    ASSUME NEW d \in Int
    PROVE  /\ ScheduledStart(d) \in Int
           /\ ScheduledEnd(d) \in Int
           /\ ScheduledEnd(d) - ScheduledStart(d)
                  = MinuteLength * (Schedule.end - Schedule.start)
<1>1. d * DayLength \in Int
    BY DayLengthAssumption
<1>2. /\ Schedule.start * MinuteLength \in Int /\ Schedule.end * MinuteLength \in Int
      /\ Schedule.end * MinuteLength - Schedule.start * MinuteLength
            = MinuteLength * (Schedule.end - Schedule.start)
    BY ScheduleAssumption, MinuteLengthAssumption, SMT
<1>3. QED
    BY <1>1, <1>2 DEF ScheduledStart, ScheduledEnd

ColumnsAre(m, from, start, to, checkIn, checkOut) ==
    /\ m.worked = IF checkOut < checkIn THEN 0 ELSE Whole(checkOut - checkIn)
    /\ m.late = IF checkIn < start \/ Whole(checkIn - start) <= Schedule.grace THEN 0
                ELSE Whole(checkIn - start) - Schedule.grace
    /\ m.early = IF to < checkOut THEN 0 ELSE Whole(to - checkOut)
    /\ m.overtime = IF checkOut < to THEN 0 ELSE Whole(checkOut - to)
    /\ m.status = IF m.late > 0 THEN "late" ELSE IF m.early > 0 THEN "early_leave" ELSE "present"

\* When the shift begins, an hourly leave at its start taken into account.
LeaveEnd(d, leave) == ScheduledStart(d) + leave * MinuteLength

LEMMA LeaveEndType ==
    ASSUME NEW d \in Int, NEW leave \in Nat, NEW longer \in Nat, leave <= longer
    PROVE  /\ LeaveEnd(d, leave) \in Int
           /\ ScheduledStart(d) <= LeaveEnd(d, leave)
           /\ LeaveEnd(d, leave) <= LeaveEnd(d, longer)
<1>1. /\ leave * MinuteLength \in Nat /\ longer * MinuteLength \in Nat
      /\ leave * MinuteLength <= longer * MinuteLength
    BY MinuteLengthAssumption, SMT
<1>2. QED
    BY <1>1, ScheduledType DEF LeaveEnd

\* The columns of a scheduled day by the instants they are computed from.
LEMMA MetricsAre ==
    ASSUME NEW d \in Int, OnSchedule(d), NEW leave \in Nat,
           NEW checkIn \in Int, NEW checkOut \in Int
    PROVE  ColumnsAre(Metrics(d, checkIn, checkOut, leave), ScheduledStart(d),
                      LeaveEnd(d, leave), ScheduledEnd(d), checkIn, checkOut)
<1> DEFINE start == LeaveEnd(d, leave)
           to == ScheduledEnd(d)
<1>1. start \in Int /\ to \in Int /\ Schedule.grace \in Nat
    BY ScheduledType, LeaveEndType, ScheduleAssumption
<1>2. MinutesDifference(checkIn, checkOut)
          = IF checkOut < checkIn THEN 0 ELSE Whole(checkOut - checkIn)
    BY MinutesDifferenceIs
<1>3. LateMinutes(d, checkIn, leave)
          = IF checkIn < start \/ Whole(checkIn - start) <= Schedule.grace THEN 0
            ELSE Whole(checkIn - start) - Schedule.grace
    <2>1. MinutesDifference(start, checkIn)
              = IF checkIn < start THEN 0 ELSE Whole(checkIn - start)
        BY <1>1, MinutesDifferenceIs
    <2>2. Whole(checkIn - start) \in Int
        BY <1>1, WholeBounds
    <2>3. LateMinutes(d, checkIn, leave)
              = IF MinutesDifference(start, checkIn) > Schedule.grace
                THEN MinutesDifference(start, checkIn) - Schedule.grace ELSE 0
        BY DEF LateMinutes, LeaveEnd
    <2> HIDE DEF start
    <2>4. QED
        BY <1>1, <2>1, <2>2, <2>3
<1>4. EarlyLeaveMinutes(d, checkOut) = IF to < checkOut THEN 0 ELSE Whole(to - checkOut)
    BY <1>1, MinutesDifferenceIs DEF EarlyLeaveMinutes
<1>5. OvertimeMinutes(d, checkOut) = IF checkOut < to THEN 0 ELSE Whole(checkOut - to)
    BY <1>1, MinutesDifferenceIs DEF OvertimeMinutes
<1>6. checkIn # None
    BY NoneIsNotATime
<1>7. QED
    BY <1>2, <1>3, <1>4, <1>5, <1>6 DEF ColumnsAre, Metrics, Status

LEMMA Distributes ==
    ASSUME NEW m \in Int, NEW a \in Int, NEW b \in Int
    PROVE  /\ m * (a + b) = m * a + m * b
           /\ m * (a - b) = m * a - m * b
           /\ m * a \in Int
BY SMT

\* Three parts, each rounded to less than a minute below or above it.
LEMMA RoundedParts ==
    ASSUME NEW m \in Nat \ {0}, NEW w \in Int, NEW in \in Int, NEW out \in Int,
           NEW W \in Int, W <= w, w < W + m,
           NEW P \in Int, \/ P <= in /\ in < P + m
                          \/ in <= P /\ P < in + m,
           NEW Q \in Int, \/ Q <= out /\ out < Q + m
                          \/ out <= Q /\ Q < out + m
    PROVE  /\ w + in + out - (W + P + Q) + (m + m) > 0
           /\ (W + P + Q) - (w + in + out) + (m + m + m) > 0
OBVIOUS

\* What rounding down does to a balance of five instants: of w + a - b + c - d = length, where
\* of a and b, and of c and d, one is zero, the whole minutes add up to no more than one minute
\* more and no less than two minutes less.
LEMMA RoundedBalance ==
    ASSUME NEW w \in Nat, NEW in \in Int, NEW out \in Int, NEW length \in Int,
           w + in + out = MinuteLength * length,
           NEW A \in Int, NEW B \in Int, NEW C \in Int, NEW D \in Int,
           A = IF in < 0 THEN 0 ELSE Whole(in), B = IF in < 0 THEN Whole(-in) ELSE 0,
           C = IF out < 0 THEN 0 ELSE Whole(out), D = IF out < 0 THEN Whole(-out) ELSE 0
    PROVE  /\ Whole(w) + A + C - B - D <= length + 1
           /\ length - 2 <= Whole(w) + A + C - B - D
<1> DEFINE M == MinuteLength
           W == Whole(w)
<1>1. W \in Int /\ M * W <= w /\ w < M * W + M /\ M \in Nat \ {0}
    BY WholeBounds, MinuteLengthAssumption
<1>2. \/ M * (A - B) <= in /\ in < M * (A - B) + M /\ 0 <= in
      \/ in <= M * (A - B) /\ M * (A - B) < in + M /\ in < 0
    <2>1. CASE in < 0
        <3>1. -in \in Int /\ A = 0 /\ B = Whole(-in)
            BY <2>1
        <3>2. M * B <= -in /\ -in < M * B + M
            BY <3>1, WholeBounds
        <3>3. M * (A - B) = -(M * B)
            BY <1>1, <3>1, SMT
        <3>4. M * B \in Int
            BY <1>1
        <3> HIDE DEF M
        <3>5. QED
            BY <1>1, <2>1, <3>2, <3>3, <3>4
    <2>2. CASE ~(in < 0)
        <3>1. A = Whole(in) /\ A - B = A
            BY <2>2
        <3>2. QED
            BY <2>2, <3>1, WholeBounds
    <2>3. QED
        BY <2>1, <2>2
<1>3. \/ M * (C - D) <= out /\ out < M * (C - D) + M /\ 0 <= out
      \/ out <= M * (C - D) /\ M * (C - D) < out + M /\ out < 0
    <2>1. CASE out < 0
        <3>1. -out \in Int /\ C = 0 /\ D = Whole(-out)
            BY <2>1
        <3>2. M * D <= -out /\ -out < M * D + M
            BY <3>1, WholeBounds
        <3>3. M * (C - D) = -(M * D)
            BY <1>1, <3>1, SMT
        <3>4. M * D \in Int
            BY <1>1
        <3> HIDE DEF M
        <3>5. QED
            BY <1>1, <2>1, <3>2, <3>3, <3>4
    <2>2. CASE ~(out < 0)
        <3>1. C = Whole(out) /\ C - D = C
            BY <2>2
        <3>2. QED
            BY <2>2, <3>1, WholeBounds
    <2>3. QED
        BY <2>1, <2>2
<1> DEFINE P == A - B
           Q == C - D
           S == W + P + Q
<1>4. P \in Int /\ Q \in Int /\ S \in Int /\ M * W \in Int /\ M * P \in Int /\ M * Q \in Int
      /\ W + A + C - B - D = S
    BY <1>1
<1> HIDE DEF W, M, P, Q, S
<1>5. M * S = M * W + M * P + M * Q
    <2>1. M * (W + P) = M * W + M * P /\ M * ((W + P) + Q) = M * (W + P) + M * Q
        BY <1>1, <1>4, Distributes
    <2>2. QED
        BY <2>1 DEF S
<1>6. /\ M * length - M * S + (M + M) > 0
      /\ M * S - M * length + (M + M + M) > 0
    <2> DEFINE all == w + in + out
               parts == M * W + M * P + M * Q
    <2>1. all - parts + (M + M) > 0 /\ parts - all + (M + M + M) > 0
        BY <1>1, <1>2, <1>3, <1>4, RoundedParts DEF P, Q
    <2>2. all = M * length /\ parts = M * S
        BY <1>5 DEF M
    <2> HIDE DEF all, parts
    <2>3. QED
        BY <2>1, <2>2
<1>7. M * 2 = M + M /\ M * 3 = M + M + M
    BY <1>1
<1>8. M * (length - S) = M * length - M * S /\ M * (S - length) = M * S - M * length
    BY <1>1, <1>4, Distributes
<1>9. M * ((length - S) + 2) > 0 /\ M * ((S - length) + 3) > 0
    <2>1. /\ M * ((length - S) + 2) = M * (length - S) + M * 2
          /\ M * ((S - length) + 3) = M * (S - length) + M * 3
        BY <1>1, <1>4, Distributes
    <2>2. QED
        BY <1>6, <1>7, <1>8, <2>1
<1>10. (length - S) + 2 >= 1 /\ (S - length) + 3 >= 1
    BY <1>4, <1>9, PositiveFactor DEF M
<1>11. QED
    BY <1>4, <1>10 DEF W

\* What the columns of a scheduled day add up to, whatever the leave: the minutes worked, those
\* missed at either end and those beyond either end make up the schedule but for the seconds
\* each drops for itself, which cost the day at most two minutes and give it at most one; and
\* what is called late is no more than was missed at the start (attendance.service.ts,
\* calculateAttendanceMetrics; helpers.ts, calculateMinutesDifference).
THEOREM DayBalances ==
    ASSUME NEW d \in Int, OnSchedule(d), NEW leave \in Nat,
           NEW checkIn \in Int, NEW checkOut \in Int, checkIn <= checkOut
    PROVE  LET m == Metrics(d, checkIn, checkOut, leave)
               missed == MinutesDifference(ScheduledStart(d), checkIn)
               before == MinutesDifference(checkIn, ScheduledStart(d))
               length == Schedule.end - Schedule.start
           IN  /\ m.worked + missed + m.early - before - m.overtime <= length + 1
               /\ length - 2 <= m.worked + missed + m.early - before - m.overtime
               /\ m.late <= missed
<1> DEFINE from == ScheduledStart(d)
           start == LeaveEnd(d, leave)
           to == ScheduledEnd(d)
           m == Metrics(d, checkIn, checkOut, leave)
           missed == MinutesDifference(from, checkIn)
           before == MinutesDifference(checkIn, from)
           length == Schedule.end - Schedule.start
<1>1. /\ from \in Int /\ to \in Int /\ length \in Int /\ to - from = MinuteLength * length
      /\ start \in Int /\ from <= start /\ Schedule.grace \in Nat
    <2>1. start \in Int /\ from <= start
        BY LeaveEndType
    <2>2. QED
        BY <2>1, ScheduledType, ScheduleAssumption
<1>2. /\ missed = IF checkIn < from THEN 0 ELSE Whole(checkIn - from)
      /\ before = IF from < checkIn THEN 0 ELSE Whole(from - checkIn)
    BY <1>1, MinutesDifferenceIs
<1>3. ColumnsAre(m, from, start, to, checkIn, checkOut)
    BY MetricsAre
<1>4. Whole(0) = 0
    BY MinuteLengthAssumption, SMT DEF Whole
<1> HIDE DEF m, from, to, start, missed, before, length
<1>5. /\ m.worked + missed + m.early - before - m.overtime <= length + 1
      /\ length - 2 <= m.worked + missed + m.early - before - m.overtime
    <2> DEFINE w == checkOut - checkIn
               in == checkIn - from
               out == to - checkOut
    <2>1. w \in Nat /\ in \in Int /\ out \in Int /\ w + in + out = MinuteLength * length
        <3>1. w + in + out = to - from
            BY <1>1
        <3>2. QED
            BY <1>1, <3>1
    <2>2. /\ -in = from - checkIn /\ -out = checkOut - to
          /\ (in < 0 <=> checkIn < from) /\ (out < 0 <=> to < checkOut)
        BY <1>1
    <2>3. missed = IF in < 0 THEN 0 ELSE Whole(in)
        BY <1>2, <2>2
    <2>4. before = IF in < 0 THEN Whole(-in) ELSE 0
        <3>1. CASE checkIn = from
            BY <1>1, <1>2, <1>4, <2>2, <3>1
        <3>2. CASE checkIn # from
            <4>1. from < checkIn <=> ~(checkIn < from)
                BY <1>1, <3>2
            <4>2. QED
                BY <1>2, <2>2, <4>1
        <3>3. QED
            BY <3>1, <3>2
    <2>5. m.early = IF out < 0 THEN 0 ELSE Whole(out)
        BY <1>3, <2>2 DEF ColumnsAre
    <2>6. m.overtime = IF out < 0 THEN Whole(-out) ELSE 0
        <3>1. CASE checkOut = to
            BY <1>1, <1>3, <1>4, <2>2, <3>1 DEF ColumnsAre
        <3>2. CASE checkOut # to
            <4>1. checkOut < to <=> ~(to < checkOut)
                BY <1>1, <3>2
            <4>2. QED
                BY <1>3, <2>2, <4>1 DEF ColumnsAre
        <3>3. QED
            BY <3>1, <3>2
    <2>7. m.worked = Whole(w)
        BY <1>3 DEF ColumnsAre
    <2>8. -in \in Int /\ -out \in Int
        BY <2>1
    <2> HIDE DEF w, in, out
    <2>9. missed \in Int /\ before \in Int /\ m.early \in Int /\ m.overtime \in Int
        BY <2>1, <2>3, <2>4, <2>5, <2>6, <2>8, WholeBounds
    <2>10. /\ Whole(w) + missed + m.early - before - m.overtime <= length + 1
           /\ length - 2 <= Whole(w) + missed + m.early - before - m.overtime
        <3>1. PICK A \in Int, B \in Int, C \in Int, D \in Int :
                 A = missed /\ B = before /\ C = m.early /\ D = m.overtime
            BY <2>9
        <3>2. /\ A = IF in < 0 THEN 0 ELSE Whole(in)
              /\ B = IF in < 0 THEN Whole(-in) ELSE 0
              /\ C = IF out < 0 THEN 0 ELSE Whole(out)
              /\ D = IF out < 0 THEN Whole(-out) ELSE 0
            BY <2>3, <2>4, <2>5, <2>6, <3>1, Zenon
        <3>3. /\ Whole(w) + A + C - B - D <= length + 1
              /\ length - 2 <= Whole(w) + A + C - B - D
            <4>1. length \in Int
                BY <1>1
            <4>2. QED
                BY <2>1, <3>2, <4>1, RoundedBalance, ZenonT(60)
        <3>4. QED
            BY <3>1, <3>3, Zenon
    <2>11. QED
        BY <2>7, <2>10
<1>6. m.late <= missed
    <2>1. CASE checkIn < start
        <3>1. m.late = 0
            BY <1>3, <2>1 DEF ColumnsAre
        <3>2. missed \in Nat
            BY <1>1, MinutesDifferenceType DEF missed
        <3>3. QED
            BY <3>1, <3>2
    <2>2. CASE ~(checkIn < start)
        <3>1. missed = Whole(checkIn - from)
            BY <1>1, <1>2, <2>2
        <3>2. /\ Whole(checkIn - start) <= Whole(checkIn - from)
              /\ Whole(checkIn - start) \in Int /\ Whole(checkIn - from) \in Int
              /\ 0 <= Whole(checkIn - from)
            <4>1. /\ checkIn - start \in Int /\ checkIn - from \in Int
                  /\ checkIn - start <= checkIn - from /\ 0 <= checkIn - from
                BY <1>1, <2>2
            <4>2. QED
                BY <4>1, WholeBounds, WholeMonotone
        <3>3. m.late = 0 \/ m.late = Whole(checkIn - start) - Schedule.grace
            BY <1>3 DEF ColumnsAre
        <3>4. QED
            BY <1>1, <3>1, <3>2, <3>3
    <2>3. QED
        BY <2>1, <2>2
<1>7. QED
    BY <1>5, <1>6 DEF m, from, missed, before, length

\* One minute column grows with the instants it is the difference of.
LEMMA ColumnGrows ==
    ASSUME NEW x \in Int, NEW y \in Int, x <= y
    PROVE  LET a == IF x < 0 THEN 0 ELSE Whole(x)
               b == IF y < 0 THEN 0 ELSE Whole(y)
           IN  a \in Nat /\ b \in Nat /\ a <= b
<1>1. Whole(x) \in Int /\ Whole(y) \in Int /\ Whole(x) <= Whole(y)
      /\ (0 <= x => 0 <= Whole(x)) /\ (0 <= y => 0 <= Whole(y))
    BY WholeBounds, WholeMonotone
<1>2. QED
    BY <1>1

\* Collapsing an event into a day never costs the employee anything, nor does a longer leave:
\* with an earlier check-in, a later check-out and more leave no fewer minutes are worked and
\* none more are late or early, whatever the schedule, also on a day that is not a work day.
THEOREM CollapsingHelps ==
    ASSUME NEW d \in Int, NEW leave \in Nat, NEW longer \in Nat, leave <= longer,
           NEW checkIn \in Int, NEW checkOut \in Int,
           NEW earlier \in Int, earlier <= checkIn,
           NEW later \in Int, checkOut <= later
    PROVE  LET m == Metrics(d, checkIn, checkOut, leave)
               n == Metrics(d, earlier, later, longer)
           IN  /\ n.worked >= m.worked
               /\ n.late <= m.late
               /\ n.early <= m.early
               /\ n.overtime >= m.overtime
               /\ m.status = "present" => n.status = "present"
<1> DEFINE from == ScheduledStart(d)
           to == ScheduledEnd(d)
           m == Metrics(d, checkIn, checkOut, leave)
           n == Metrics(d, earlier, later, longer)
           of(x) == IF x < 0 THEN 0 ELSE Whole(x)
<1>0. /\ checkOut - checkIn \in Int /\ later - earlier \in Int
      /\ checkOut - checkIn <= later - earlier
      /\ (checkOut < checkIn <=> checkOut - checkIn < 0)
      /\ (later < earlier <=> later - earlier < 0)
    OBVIOUS
<1>1. CASE OnSchedule(d)
    <2> DEFINE start == LeaveEnd(d, leave)
               begin == LeaveEnd(d, longer)
    <2>1. ColumnsAre(m, from, start, to, checkIn, checkOut)
        BY <1>1, MetricsAre
    <2>2. ColumnsAre(n, from, begin, to, earlier, later)
        BY <1>1, MetricsAre
    <2>3. /\ to \in Int /\ Schedule.grace \in Nat
          /\ start \in Int /\ begin \in Int /\ start <= begin
        <3>1. start \in Int /\ start <= begin
            BY LeaveEndType
        <3>2. begin \in Int
            BY LeaveEndType
        <3>3. QED
            BY <3>1, <3>2, ScheduledType, ScheduleAssumption
    <2> HIDE DEF m, n, from, to, start, begin
    <2>4. n.worked >= m.worked
        <3>1. m.worked = of(checkOut - checkIn) /\ n.worked = of(later - earlier)
            BY <1>0, <2>1, <2>2 DEF ColumnsAre
        <3>2. of(checkOut - checkIn) \in Nat /\ of(later - earlier) \in Nat
              /\ of(checkOut - checkIn) <= of(later - earlier)
            BY <1>0, ColumnGrows
        <3> HIDE DEF of
        <3>3. QED
            BY <3>1, <3>2
    <2>5. n.early <= m.early /\ n.early \in Nat /\ m.early \in Nat
        <3>1. /\ to - checkOut \in Int /\ to - later \in Int /\ to - later <= to - checkOut
              /\ (to < checkOut <=> to - checkOut < 0) /\ (to < later <=> to - later < 0)
            BY <2>3
        <3>2. m.early = of(to - checkOut) /\ n.early = of(to - later)
            BY <2>1, <2>2, <3>1 DEF ColumnsAre
        <3>3. of(to - later) \in Nat /\ of(to - checkOut) \in Nat
              /\ of(to - later) <= of(to - checkOut)
            BY <3>1, ColumnGrows
        <3> HIDE DEF of
        <3>4. QED
            BY <3>2, <3>3
    <2>6. n.overtime >= m.overtime
        <3>1. /\ checkOut - to \in Int /\ later - to \in Int /\ checkOut - to <= later - to
              /\ (checkOut < to <=> checkOut - to < 0) /\ (later < to <=> later - to < 0)
            BY <2>3
        <3>2. m.overtime = of(checkOut - to) /\ n.overtime = of(later - to)
            BY <2>1, <2>2, <3>1 DEF ColumnsAre
        <3>3. of(later - to) \in Nat /\ of(checkOut - to) \in Nat
              /\ of(checkOut - to) <= of(later - to)
            BY <3>1, ColumnGrows
        <3> HIDE DEF of
        <3>4. QED
            BY <3>2, <3>3
    <2>7. n.late <= m.late /\ n.late \in Nat /\ m.late \in Nat
        <3>1. /\ checkIn - start \in Int /\ earlier - begin \in Int
              /\ earlier - begin <= checkIn - start
              /\ (checkIn < start <=> checkIn - start < 0)
              /\ (earlier < begin <=> earlier - begin < 0)
            BY <2>3
        <3>2. of(earlier - begin) \in Nat /\ of(checkIn - start) \in Nat
              /\ of(earlier - begin) <= of(checkIn - start)
            BY <3>1, ColumnGrows
        <3>3. /\ m.late = IF of(checkIn - start) <= Schedule.grace THEN 0
                          ELSE of(checkIn - start) - Schedule.grace
              /\ n.late = IF of(earlier - begin) <= Schedule.grace THEN 0
                          ELSE of(earlier - begin) - Schedule.grace
            BY <2>1, <2>2, <2>3, <3>1 DEF ColumnsAre
        <3> HIDE DEF of
        <3>4. QED
            BY <2>3, <3>2, <3>3
    <2>8. m.status = "present" => n.status = "present"
        BY <2>1, <2>2, <2>5, <2>7 DEF ColumnsAre
    <2>9. QED
        BY <2>4, <2>5, <2>6, <2>7, <2>8 DEF m, n
<1>2. CASE ~OnSchedule(d)
    <2>1. \A in, out \in Int, l \in Nat :
             LET day == Metrics(d, in, out, l)
             IN  /\ day.late = 0 /\ day.early = 0 /\ day.overtime = 0 /\ day.status = "present"
                 /\ day.worked = IF out < in THEN 0 ELSE Whole(out - in)
        BY <1>2, MinutesDifferenceIs, NoneIsNotATime
           DEF Metrics, LateMinutes, EarlyLeaveMinutes, OvertimeMinutes, Status
    <2>2. /\ m.late = 0 /\ m.early = 0 /\ m.overtime = 0 /\ m.worked = of(checkOut - checkIn)
        BY <1>0, <2>1
    <2>3. /\ n.late = 0 /\ n.early = 0 /\ n.overtime = 0 /\ n.status = "present"
          /\ n.worked = of(later - earlier)
        BY <1>0, <2>1
    <2>4. of(checkOut - checkIn) \in Nat /\ of(later - earlier) \in Nat
          /\ of(checkOut - checkIn) <= of(later - earlier)
        BY <1>0, ColumnGrows
    <2> HIDE DEF m, n, of
    <2>5. n.worked >= m.worked
        BY <2>2, <2>3, <2>4
    <2>6. QED
        BY <2>2, <2>3, <2>5 DEF m, n
<1>3. QED
    BY <1>1, <1>2

\* A shift that ends after midnight: its end, put on the day it starts, is before its start, so
\* whoever checks in no earlier than the start never leaves early, however short the stay, and
\* all of it and more is overtime (helpers.ts, parseTimeToZonedDate).
THEOREM NightShiftIsOvertime ==
    ASSUME NEW d \in Int, OnSchedule(d), Schedule.end < Schedule.start, NEW leave \in Nat,
           NEW checkIn \in Int, ScheduledStart(d) <= checkIn,
           NEW checkOut \in Int, checkIn <= checkOut
    PROVE  LET m == Metrics(d, checkIn, checkOut, leave)
           IN  /\ m.early = 0
               /\ m.overtime > m.worked
               /\ m.status # "early_leave"
<1> DEFINE from == ScheduledStart(d)
           to == ScheduledEnd(d)
           m == Metrics(d, checkIn, checkOut, leave)
<1>1. from \in Int /\ to \in Int /\ to + MinuteLength <= from /\ MinuteLength \in Nat \ {0}
    <2>1. Schedule.start \in Int /\ Schedule.end \in Int /\ MinuteLength \in Nat \ {0}
        BY ScheduleAssumption, MinuteLengthAssumption
    <2>2. MinuteLength * (Schedule.end - Schedule.start) <= -MinuteLength
        BY <2>1, SMT
    <2>3. from \in Int /\ to \in Int /\ to - from <= -MinuteLength
        BY <2>2, ScheduledType
    <2>4. QED
        BY <2>1, <2>3
<1>2. ColumnsAre(m, from, LeaveEnd(d, leave), to, checkIn, checkOut)
    BY MetricsAre
<1>3. from <= checkIn
    OBVIOUS
<1> HIDE DEF m, from, to
<1>4. to < checkOut /\ ~(checkOut < checkIn) /\ ~(checkOut < to)
      /\ (checkOut - checkIn) + MinuteLength <= checkOut - to
      /\ checkOut - checkIn \in Int /\ checkOut - to \in Int
    BY <1>1, <1>3
<1>5. m.early = 0
    BY <1>2, <1>4 DEF ColumnsAre
<1>6. m.overtime > m.worked
    <2>1. m.worked = Whole(checkOut - checkIn) /\ m.overtime = Whole(checkOut - to)
        BY <1>2, <1>4 DEF ColumnsAre
    <2>2. Whole(checkOut - checkIn) < Whole(checkOut - to)
          /\ Whole(checkOut - checkIn) \in Int /\ Whole(checkOut - to) \in Int
        BY <1>4, WholeBounds, WholeMonotone
    <2>3. QED
        BY <2>1, <2>2
<1>7. m.status # "early_leave"
    BY <1>2, <1>5 DEF ColumnsAre
<1>8. QED
    BY <1>5, <1>6, <1>7 DEF m

\* Days, and the times of a row, are integers where the metrics need them.
LEMMA DayType == \A d \in Days : d \in Int
BY DayLengthAssumption, AttendanceAssumption DEF Days, Day, Times

LEMMA OptionalTimeType == OptionalTime \subseteq Int \cup {None}
BY AttendanceAssumption DEF OptionalTime, Times

LEMMA DayMetricsType ==
    ASSUME NEW k \in Keys, NEW checkIn \in OptionalTime, NEW checkOut \in OptionalTime
    PROVE  DayMetrics(k, checkIn, checkOut) \in MetricsRecord
<1>1. k[2] \in Int
    BY DayType DEF Keys
<1>2. LeaveMinutes(k) \in Nat
    BY AttendanceAssumption DEF LeaveMinutes
<1>3. checkIn \in Int \cup {None} /\ checkOut \in Int \cup {None}
    BY OptionalTimeType
<1>4. QED
    BY <1>1, <1>2, <1>3, MetricsType DEF DayMetrics

LEMMA NewRowType ==
    ASSUME NEW checkIn \in OptionalTime, NEW checkOut \in OptionalTime,
           NEW m \in MetricsRecord, NEW source \in AllPaths
    PROVE  NewRow(checkIn, checkOut, m, source) \in Row
BY DEF NewRow, Row, MetricsRecord

LEMMA SetMetricsType ==
    ASSUME NEW row \in Row, NEW m \in MetricsRecord, NEW source \in AllPaths
    PROVE  /\ SetMetrics(row, m, source) \in Row
           /\ SetMetrics(row, m, source).source = source
           /\ SetMetrics(row, m, source).checkIn = row.checkIn
           /\ SetMetrics(row, m, source).checkOut = row.checkOut
BY DEF SetMetrics, Row, MetricsRecord

\* The times read from a row, if any, are times of the row.
LEMMA TimesOfType ==
    ASSUME NEW row \in Row \cup {None}
    PROVE  CheckInOf(row) \in OptionalTime /\ CheckOutOf(row) \in OptionalTime
BY DEF CheckInOf, CheckOutOf, Row, OptionalTime

\* A collapsed time is the row's own or the event's, the latter only for an
\* event of the matching type.
LEMMA CollapseChooses ==
    ASSUME NEW row \in Row \cup {None}, NEW type, NEW t \in Times
    PROVE  /\ CollapseCheckIn(row, type, t) \in OptionalTime
           /\ CollapseCheckOut(row, type, t) \in OptionalTime
           /\ \/ CollapseCheckIn(row, type, t) = CheckInOf(row)
              \/ type = "check_in" /\ CollapseCheckIn(row, type, t) = t
           /\ \/ CollapseCheckOut(row, type, t) = CheckOutOf(row)
              \/ type = "check_out" /\ CollapseCheckOut(row, type, t) = t
BY TimesOfType DEF CollapseCheckIn, CollapseCheckOut, OptionalTime

\* The adjustments of a row are typed, are all of that row, and are one to a
\* category.
LEMMA FeesFacts ==
    ASSUME NEW k \in Keys, NEW row \in Row, NEW r \in Requests
    PROVE  /\ Fees(k, row, r) \subseteq Adjustment
           /\ \A a \in Fees(k, row, r) : a.key = k
           /\ \A a, b \in Fees(k, row, r) : a.category = b.category => a = b
<1>1. \A c \in Categories : Minutes(row)[c] \in Nat /\ Rate[c] \in Nat
    BY AttendanceAssumption DEF Minutes, Categories, Row
<1>2. \A c \in Categories : Minutes(row)[c] * Rate[c] \in Nat
    BY <1>1
<1>3. QED
    BY <1>2 DEF Fees, Charged, Adjustment

(***************************************************************************)
(* Calls.                                                                  *)
(***************************************************************************)
LEMMA IdleType == Idle \in Call
BY AttendanceAssumption DEF Idle, NewCall, Call, Phases, AllPaths, Times

\* The row of an employee's call is one of the table's.
LEMMA KeyType ==
    ASSUME TypeOK, NEW r \in Requests, call[r].who \in Employees
    PROVE  Key(r) \in Keys
BY DEF TypeOK, Call, Key, Keys, Days

\* Every action but a commit leaves the tables alone.
TablesUnchanged == UNCHANGED <<attendance, session, adjustments, rawLog, office>>

\* A call that leaves its handler keeps who, when and what it was.
LEMMA LeftFacts ==
    ASSUME NEW c \in Call, NEW phase \in Phases, NEW due \in SUBSET Categories
    PROVE  LET d == Left(c, phase, due)
           IN  /\ d \in Call
               /\ d.phase = phase /\ d.row = None /\ d.session = None
               /\ d.path = c.path /\ d.type = c.type /\ d.who = c.who /\ d.at = c.at
BY DEF Left, Call

\* What the end of a call does to it.
LEMMA AnswerFacts ==
    ASSUME TypeOK, NEW r \in Requests, NEW due \in SUBSET Categories, Answer(r, due)
    PROVE  /\ call' \in [Requests -> Call]
           /\ \A q \in Requests : q # r => call'[q] = call[q]
           /\ call'[r].phase \in {"done", "committed"}
           /\ call'[r].row = None
           /\ call'[r].path = call[r].path /\ call'[r].type = call[r].type
           /\ call'[r].who = call[r].who /\ call'[r].at = call[r].at
<1>1. call[r] \in Call
    BY DEF TypeOK
<1>2. call'[r] = Left(call[r], IF due = {} THEN "done" ELSE "committed", due)
    BY DEF TypeOK, Answer
<1>3. \A phase \in Phases : Left(call[r], phase, due) \in Call
    BY <1>1, LeftFacts
<1>4. QED
    BY <1>1, <1>2, <1>3, LeftFacts DEF TypeOK, Answer, Phases

\* The row a self-service call or a terminal event writes.
LEMMA CollapsedType ==
    ASSUME TypeOK, NEW r \in Requests
    PROVE  CollapsedIn(r) \in OptionalTime /\ CollapsedOut(r) \in OptionalTime
<1>1. call[r].row \in Row \cup {None} /\ call[r].at \in Times
    BY DEF TypeOK, Call
<1>2. QED
    BY <1>1, CollapseChooses DEF CollapsedIn, CollapsedOut

LEMMA MobileRowType ==
    ASSUME TypeOK, NEW r \in Requests, call[r].who \in Employees
    PROVE  MobileRow(r) \in Row /\ MobileRow(r).source = "mobile"
<1>1. DayMetrics(Key(r), CollapsedIn(r), CollapsedOut(r)) \in MetricsRecord
    BY KeyType, CollapsedType, DayMetricsType
<1>2. MobileRow(r) \in Row
    BY <1>1, CollapsedType, NewRowType DEF MobileRow, AllPaths
<1>3. QED
    BY <1>2 DEF MobileRow, NewRow

LEMMA TerminalRowType ==
    ASSUME TypeOK, NEW r \in Requests
    PROVE  TerminalRow(r) \in Row /\ TerminalRow(r).source = "terminal"
<1>1. MinutesDifference(CollapsedIn(r), CollapsedOut(r)) \in Nat
    <2>1. CollapsedIn(r) \in Int \cup {None} /\ CollapsedOut(r) \in Int \cup {None}
        BY CollapsedType, OptionalTimeType
    <2>2. QED
        BY <2>1, MinutesDifferenceType
<1>2. Status(0, 0, CollapsedIn(r), CollapsedOut(r)) \in Statuses
    BY DEF Status, Statuses
<1>3. TerminalRow(r) \in Row
    BY <1>1, <1>2, CollapsedType, NewRowType DEF TerminalRow, AllPaths, MetricsRecord
<1>4. QED
    BY <1>3 DEF TerminalRow, NewRow

(***************************************************************************)
(* Type correctness and soundness of the calls: one induction, one step    *)
(* per action.                                                             *)
(***************************************************************************)
TypeInv == TypeOK /\ CallsSound

LEMMA TypeInvInit == Init => TypeInv
BY IdleType, AttendanceAssumption, NoneIsNoRecord
   DEF Init, TypeInv, TypeOK, CallsSound, SoundCall, Idle, NewCall, Times

\* The start of a call, on any path.
LEMMA TypeInvStart ==
    ASSUME TypeInv, NEW r \in Requests, NEW path \in AllPaths,
           NEW type \in {"check_in", "check_out", "unknown"},
           NEW who \in Employees \cup Strangers, NEW t \in Times,
           NEW phase \in {"started", "checked"},
           path = "mobile" => phase = "started",
           path # "terminal" => who \in Employees /\ type \in {"check_in", "check_out"},
           Start(r, path, type, who, t, phase)
    PROVE  TypeInv'
<1> DEFINE c == NewCall(path, type, who, t, phase)
<1>1. c \in Call
    BY DEF Call, Phases, NewCall
<1>2. call' = [call EXCEPT ![r] = c]
    BY DEF Start
<1>3. TablesUnchanged /\ now' = now
    BY DEF Start, TablesUnchanged
<1>4. TypeOK'
    BY <1>1, <1>2, <1>3 DEF TypeInv, TypeOK, TablesUnchanged
<1>5. CallsSound'
    <2> SUFFICES ASSUME NEW q \in Requests PROVE SoundCall(q)'
        BY DEF CallsSound
    <2>1. CASE q = r
        BY <1>2, <1>3, <2>1 DEF NewCall, TypeInv, TypeOK, TablesUnchanged, SoundCall
    <2>2. CASE q # r
        BY <1>2, <1>3, <2>2 DEF TypeInv, TypeOK, CallsSound, SoundCall, TablesUnchanged, Key
    <2>3. QED
        BY <2>1, <2>2
<1>6. QED
    BY <1>4, <1>5 DEF TypeInv

\* A step of one call that writes no table: r's record becomes c, the others
\* keep theirs.
LEMMA TypeInvRead ==
    ASSUME TypeInv, NEW r \in Requests, NEW c \in Call,
           call' = [call EXCEPT ![r] = c], TablesUnchanged, now' = now,
           SoundCall(r)'
    PROVE  TypeInv'
<1>1. TypeOK'
    BY DEF TypeInv, TypeOK, TablesUnchanged
<1>2. ASSUME NEW q \in Requests, q # r PROVE SoundCall(q)'
    BY <1>2 DEF TypeInv, TypeOK, CallsSound, SoundCall, TablesUnchanged, Key
<1>3. QED
    BY <1>1, <1>2 DEF TypeInv, CallsSound

LEMMA TypeInvCheckNoOpenSession ==
    ASSUME TypeInv, NEW r \in Requests, CheckNoOpenSession(r) PROVE TypeInv'
<1> DEFINE phase == IF OpenSessions(Key(r)) = {} THEN "checked" ELSE "refused"
           c == [call[r] EXCEPT !.phase = phase]
<1>1. call[r] \in Call /\ phase \in Phases /\ phase \in {"checked", "refused"}
    BY DEF TypeInv, TypeOK, Phases
<1>2. c \in Call /\ c.phase = phase /\ c.row = call[r].row /\ c.path = call[r].path
      /\ c.type = call[r].type /\ c.who = call[r].who /\ c.at = call[r].at
    BY <1>1 DEF Call
<1>3. call' = [call EXCEPT ![r] = c] /\ TablesUnchanged /\ now' = now
    BY DEF CheckNoOpenSession, Become, TablesUnchanged
<1>4. SoundCall(r)'
    <2>1. call'[r] = c
        BY <1>3 DEF TypeInv, TypeOK
    <2>2. SoundCall(r) /\ call[r].phase = "started" /\ call[r].path = "mobile"
          /\ call[r].type = "check_in"
        BY DEF TypeInv, CallsSound, CheckNoOpenSession
    <2>3. QED
        BY <1>1, <1>2, <2>1, <2>2 DEF SoundCall
<1>5. QED
    BY <1>2, <1>3, <1>4, TypeInvRead

LEMMA TypeInvCheckDuplicate ==
    ASSUME TypeInv, NEW r \in Requests, CheckDuplicate(r) PROVE TypeInv'
<1> DEFINE phase == IF Duplicates(r) = {} THEN "checked" ELSE "refused"
           c == [call[r] EXCEPT !.phase = phase]
<1>1. call[r] \in Call /\ phase \in Phases /\ phase \in {"checked", "refused"}
    BY DEF TypeInv, TypeOK, Phases
<1>2. c \in Call /\ c.phase = phase /\ c.row = call[r].row /\ c.path = call[r].path
      /\ c.type = call[r].type /\ c.who = call[r].who /\ c.at = call[r].at
    BY <1>1 DEF Call
<1>3. call' = [call EXCEPT ![r] = c] /\ TablesUnchanged /\ now' = now
    BY DEF CheckDuplicate, Become, TablesUnchanged
<1>4. SoundCall(r)'
    <2>1. call'[r] = c
        BY <1>3 DEF TypeInv, TypeOK
    <2>2. SoundCall(r) /\ call[r].phase = "started" /\ call[r].path = "terminal"
        BY DEF TypeInv, CallsSound, CheckDuplicate
    <2>3. QED
        BY <1>1, <1>2, <2>1, <2>2 DEF SoundCall
<1>5. QED
    BY <1>2, <1>3, <1>4, TypeInvRead

\* A call that ends without writing holds nothing any more.
LEMMA TypeInvLeave ==
    ASSUME TypeInv, NEW r \in Requests, InFlight(r),
           NEW phase \in {"done", "unnotified", "refused"},
           call' = [call EXCEPT ![r] = Left(call[r], phase, {})],
           TablesUnchanged, now' = now
    PROVE  TypeInv'
<1> DEFINE c == Left(call[r], phase, {})
<1>1. /\ c \in Call /\ c.phase = phase /\ c.row = None
      /\ c.path = call[r].path /\ c.type = call[r].type /\ c.who = call[r].who
    BY LeftFacts DEF TypeInv, TypeOK, Phases
<1>2. call'[r] = c
    BY DEF TypeInv, TypeOK
<1>3. SoundCall(r) /\ call[r].phase # "idle"
    BY DEF TypeInv, CallsSound, InFlight, InFlightPhases
<1> HIDE DEF c
<1>4. SoundCall(r)'
    BY <1>1, <1>2, <1>3 DEF SoundCall
<1>5. QED
    BY <1>1, <1>4, TypeInvRead DEF c

LEMMA TypeInvFindOpenSession ==
    ASSUME TypeInv, NEW r \in Requests, FindOpenSession(r) PROVE TypeInv'
<1>1. call[r] \in Call /\ SoundCall(r)
      /\ call[r].phase = "started" /\ call[r].path = "mobile" /\ call[r].type = "check_out"
      /\ TablesUnchanged /\ now' = now
    BY DEF TypeInv, TypeOK, CallsSound, FindOpenSession, TablesUnchanged
<1>2. CASE Become(r, "refused")
    <2> DEFINE c == [call[r] EXCEPT !.phase = "refused"]
    <2>1. c \in Call /\ c.phase = "refused" /\ c.row = call[r].row /\ c.path = call[r].path
          /\ c.type = call[r].type /\ c.who = call[r].who /\ c.at = call[r].at
        BY <1>1 DEF Call, Phases
    <2>2. call' = [call EXCEPT ![r] = c] /\ call'[r] = c
        BY <1>2 DEF Become, TypeInv, TypeOK
    <2>3. SoundCall(r)'
        BY <1>1, <2>1, <2>2 DEF SoundCall
    <2>4. QED
        BY <1>1, <2>1, <2>2, <2>3, TypeInvRead
<1>3. ASSUME NEW s \in LatestOpenSessions(Key(r)),
             call' = [call EXCEPT ![r] = [@ EXCEPT !.phase = "checked", !.session = s]]
      PROVE  TypeInv'
    <2> DEFINE c == [call[r] EXCEPT !.phase = "checked", !.session = s]
    <2>1. s \in Requests /\ session[s] # None
        BY DEF LatestOpenSessions, OpenSessions
    <2>2. c \in Call /\ c.phase = "checked" /\ c.session = s /\ c.row = call[r].row
          /\ c.path = call[r].path /\ c.type = call[r].type /\ c.who = call[r].who
          /\ c.at = call[r].at
        BY <1>1, <2>1 DEF Call, Phases
    <2>3. call' = [call EXCEPT ![r] = c] /\ call'[r] = c
        BY <1>3 DEF TypeInv, TypeOK
    <2>4. SoundCall(r)'
        BY <1>1, <2>1, <2>2, <2>3 DEF SoundCall, TablesUnchanged
    <2>5. QED
        BY <1>1, <2>2, <2>3, <2>4, TypeInvRead
<1>4. QED
    BY <1>2, <1>3 DEF FindOpenSession

LEMMA TypeInvReadRow ==
    ASSUME TypeInv, NEW r \in Requests, ReadRow(r) PROVE TypeInv'
<1> DEFINE row == IF call[r].who \in Employees THEN attendance[Key(r)] ELSE None
           c == [call[r] EXCEPT !.phase = "ready", !.row = row]
<1>1. call[r] \in Call /\ SoundCall(r) /\ call[r].phase = "checked"
      /\ TablesUnchanged /\ now' = now /\ InFlight(r)
    BY DEF TypeInv, TypeOK, CallsSound, ReadRow, TablesUnchanged, InFlight, InFlightPhases
<1>2. CASE Refuses(r, row)
    <2>1. call' = [call EXCEPT ![r] = Left(call[r], "refused", {})]
        BY <1>2 DEF ReadRow
    <2>2. QED
        BY <1>1, <2>1, TypeInvLeave
<1>3. CASE ~Refuses(r, row)
    <2>1. call' = [call EXCEPT ![r] = c]
        BY <1>3 DEF ReadRow
    <2>2. row \in Row \cup {None}
        BY KeyType DEF TypeInv, TypeOK
    <2>3. /\ c \in Call /\ c.phase = "ready" /\ c.row = row /\ c.session = call[r].session
          /\ c.path = call[r].path /\ c.type = call[r].type /\ c.who = call[r].who
          /\ c.at = call[r].at
        BY <1>1, <2>2 DEF Call, Phases
    <2>4. call'[r] = c
        BY <2>1 DEF TypeInv, TypeOK
    <2>5. row # None => call[r].who \in Employees /\ attendance[Key(r)] # None
        OBVIOUS
    <2>6. call[r].path # "terminal" /\ call[r].type = "check_out" => row # None
        BY <1>1, <1>3 DEF Refuses, SoundCall, CheckInOf, Call, AllPaths
    <2> HIDE DEF row, c
    <2>7. SoundCall(r)'
        BY <1>1, <2>3, <2>4, <2>5, <2>6 DEF SoundCall, TablesUnchanged, Key
    <2>8. QED
        BY <1>1, <2>1, <2>3, <2>7, TypeInvRead DEF c
<1>4. QED
    BY <1>2, <1>3

LEMMA TypeInvNotifyOrFail ==
    ASSUME TypeInv, NEW r \in Requests, Notify(r) \/ Fail(r) PROVE TypeInv'
<1>1. CASE Notify(r)
    <2>1. call' = [call EXCEPT ![r] = Left(call[r], "done", {})]
          /\ TablesUnchanged /\ now' = now /\ InFlight(r)
        BY <1>1 DEF Notify, TablesUnchanged, InFlight, InFlightPhases
    <2>2. QED
        BY <2>1, TypeInvLeave
<1>2. CASE Fail(r)
    <2> DEFINE phase == IF call[r].phase = "committed" THEN "unnotified" ELSE "refused"
    <2>1. call' = [call EXCEPT ![r] = Left(call[r], phase, {})]
          /\ TablesUnchanged /\ now' = now /\ InFlight(r)
        BY <1>2 DEF Fail, TablesUnchanged
    <2>2. QED
        BY <2>1, TypeInvLeave
<1>3. QED
    BY <1>1, <1>2

\* A commit: the call is answered and rows, sessions and logs only appear or
\* change, never disappear.
LEMMA TypeInvCommit ==
    ASSUME TypeInv, NEW r \in Requests, InFlight(r),
           NEW due \in SUBSET Categories, Answer(r, due), now' = now,
           attendance' \in [Keys -> Row \cup {None}],
           session' \in [Requests -> Session \cup {None}],
           adjustments' \subseteq Adjustment,
           rawLog' \in [Requests -> RawLog \cup {None}],
           office' \in [writes : 0..MaxWrites, touched : SUBSET Keys],
           \A k \in Keys : attendance[k] # None => attendance'[k] # None,
           \A s \in Requests : session[s] # None => session'[s] # None
    PROVE  TypeInv'
<1>1. TypeOK'
    BY AnswerFacts DEF TypeInv, TypeOK
<1>2. ASSUME NEW q \in Requests PROVE SoundCall(q)'
    <2>1. SoundCall(q)
        BY DEF TypeInv, CallsSound
    <2>2. call[q].who \in Employees => Key(q) \in Keys
        BY KeyType DEF TypeInv
    <2>3. CASE q = r
        BY <2>1, <2>3, AnswerFacts
           DEF TypeInv, SoundCall, InFlight, InFlightPhases
    <2>4. CASE q # r
        BY <2>1, <2>2, <2>4, AnswerFacts DEF TypeInv, SoundCall, Key
    <2>5. QED
        BY <2>3, <2>4
<1>3. QED
    BY <1>1, <1>2 DEF TypeInv, CallsSound

\* Writing a row and replacing its adjustments keeps both tables typed.
LEMMA WriteAndSyncFacts ==
    ASSUME TypeInv, NEW r \in Requests, call[r].who \in Employees,
           NEW row \in Row, WriteAndSync(r, row)
    PROVE  /\ attendance' \in [Keys -> Row \cup {None}]
           /\ adjustments' \subseteq Adjustment
           /\ office' \in [writes : 0..MaxWrites, touched : SUBSET Keys]
           /\ attendance'[Key(r)] = row
           /\ \A k \in Keys : k # Key(r) => attendance'[k] = attendance[k]
           /\ \A k \in Keys : attendance[k] # None => attendance'[k] # None
<1>1. Key(r) \in Keys
    BY KeyType DEF TypeInv
<1>2. attendance' = [attendance EXCEPT ![Key(r)] = row] /\ row # None
    BY NoneIsNoRecord DEF WriteAndSync
<1>3. adjustments' \subseteq Adjustment
    BY <1>1, FeesFacts DEF TypeInv, TypeOK, WriteAndSync, SyncAdjustments
<1>4. office' \in [writes : 0..MaxWrites, touched : SUBSET Keys]
    BY DEF TypeInv, TypeOK, WriteAndSync
<1>5. QED
    BY <1>1, <1>2, <1>3, <1>4 DEF TypeInv, TypeOK

\* The row an operator's check-in or check-out writes is a row.
LEMMA ManualCheckInRow ==
    ASSUME TypeInv, NEW r \in Requests, CommitCheckIn(r)
    PROVE  \E row \in Row : /\ WriteAndSync(r, row)
                            /\ row.source = "manual"
                            /\ row.checkIn = call[r].at
                            /\ \/ call[r].row = None /\ row.checkOut = None
                               \/ attendance[Key(r)] # None
                                  /\ row.checkOut = attendance[Key(r)].checkOut
                            /\ Answer(r, LateNotice(Key(r), row))
<1> DEFINE k == Key(r)
           t == call[r].at
           m == DayMetrics(k, t, CheckOutOf(call[r].row))
           kept == [attendance[k] EXCEPT !.checkIn = t]
           row == IF call[r].row = None
                  THEN NewRow(t, None, m, "manual")
                  ELSE SetMetrics(kept, m, "manual")
<1>1. SoundCall(r) /\ call[r] \in Call /\ call[r].phase = "ready" /\ call[r].path = "manual"
    BY DEF TypeInv, TypeOK, CallsSound, CommitCheckIn
<1>2. call[r].who \in Employees /\ k \in Keys /\ t \in OptionalTime
    BY <1>1, KeyType DEF TypeInv, SoundCall, Call, OptionalTime
<1>3. m \in MetricsRecord
    BY <1>1, <1>2, TimesOfType, DayMetricsType DEF Call
<1>4. CASE call[r].row = None
    <2>1. row = NewRow(t, None, m, "manual")
        BY <1>4
    <2>2. row \in Row
        BY <1>2, <1>3, <2>1, NewRowType DEF OptionalTime, AllPaths
    <2>3. row.source = "manual" /\ row.checkIn = t /\ row.checkOut = None
        BY <2>1 DEF NewRow
    <2>4. WriteAndSync(r, row) /\ Answer(r, LateNotice(k, row))
        BY DEF CommitCheckIn
    <2>5. QED
        BY <1>4, <2>2, <2>3, <2>4
<1>5. CASE call[r].row # None
    <2>1. attendance[k] \in Row /\ attendance[k] # None
        BY <1>1, <1>2, <1>5 DEF TypeInv, TypeOK, SoundCall
    <2>2. kept \in Row /\ kept.checkIn = t /\ kept.checkOut = attendance[k].checkOut
        BY <1>2, <2>1 DEF Row
    <2>3. row = SetMetrics(kept, m, "manual")
        BY <1>5
    <2>4. /\ row \in Row /\ row.source = "manual" /\ row.checkIn = t
          /\ row.checkOut = attendance[k].checkOut
        <3> HIDE DEF kept, m
        <3>1. QED
            BY <1>3, <2>2, <2>3, SetMetricsType DEF AllPaths
    <2>5. WriteAndSync(r, row) /\ Answer(r, LateNotice(k, row))
        BY DEF CommitCheckIn
    <2>6. QED
        BY <2>1, <2>4, <2>5
<1>6. QED
    BY <1>4, <1>5

LEMMA ManualCheckOutRow ==
    ASSUME TypeInv, NEW r \in Requests, CommitCheckOut(r)
    PROVE  \E row \in Row : /\ WriteAndSync(r, row)
                            /\ row.source = "manual"
                            /\ attendance[Key(r)] # None
                            /\ row.checkIn = attendance[Key(r)].checkIn
                            /\ row.checkOut = call[r].at
                            /\ Answer(r, Charged(row))
<1> DEFINE k == Key(r)
           t == call[r].at
           m == DayMetrics(k, CheckInOf(call[r].row), t)
           kept == [attendance[k] EXCEPT !.checkOut = t]
           row == SetMetrics(kept, m, "manual")
<1>1. /\ SoundCall(r) /\ call[r] \in Call /\ call[r].phase = "ready"
      /\ call[r].path = "manual" /\ call[r].type = "check_out"
    BY DEF TypeInv, TypeOK, CallsSound, CommitCheckOut
<1>2. call[r].who \in Employees /\ k \in Keys /\ t \in OptionalTime
    BY <1>1, KeyType DEF TypeInv, SoundCall, Call, OptionalTime
<1>3. m \in MetricsRecord
    BY <1>1, <1>2, TimesOfType, DayMetricsType DEF Call
<1>4. attendance[k] \in Row /\ attendance[k] # None
    BY <1>1, <1>2 DEF TypeInv, TypeOK, SoundCall
<1>5. kept \in Row /\ kept.checkOut = t /\ kept.checkIn = attendance[k].checkIn
    BY <1>2, <1>4 DEF Row
<1>6. WriteAndSync(r, row) /\ Answer(r, Charged(row))
    BY DEF CommitCheckOut
<1>7. /\ row \in Row /\ row.source = "manual" /\ row.checkOut = t
      /\ row.checkIn = attendance[k].checkIn
    <2> HIDE DEF kept, m
    <2>1. QED
        BY <1>3, <1>5, SetMetricsType DEF AllPaths
<1>8. QED
    BY <1>4, <1>6, <1>7

LEMMA NoticeType ==
    ASSUME NEW k, NEW row
    PROVE  LateNotice(k, row) \in SUBSET Categories /\ Charged(row) \in SUBSET Categories
BY DEF LateNotice, Charged, Categories

LEMMA TypeInvManual ==
    ASSUME TypeInv, NEW r \in Requests, CommitCheckIn(r) \/ CommitCheckOut(r)
    PROVE  TypeInv'
<1>1. /\ InFlight(r) /\ call[r].who \in Employees
      /\ session' = session /\ rawLog' = rawLog /\ now' = now
    BY DEF TypeInv, CallsSound, SoundCall, CommitCheckIn, CommitCheckOut, InFlight,
           InFlightPhases
<1>2. PICK row \in Row, due \in SUBSET Categories : WriteAndSync(r, row) /\ Answer(r, due)
    BY ManualCheckInRow, ManualCheckOutRow, NoticeType
<1>3. QED
    BY <1>1, <1>2, WriteAndSyncFacts, TypeInvCommit DEF TypeInv, TypeOK

LEMMA TypeInvSelfCheckIn ==
    ASSUME TypeInv, NEW r \in Requests, CommitSelfCheckIn(r) PROVE TypeInv'
<1> DEFINE new == [employee |-> call[r].who, date |-> Day(call[r].at),
                   checkIn |-> call[r].at, checkOut |-> None, worked |-> 0]
           due == LateNotice(Key(r), MobileRow(r))
<1>1. InFlight(r) /\ call[r].who \in Employees /\ call[r].at \in Times
    BY DEF TypeInv, TypeOK, CallsSound, SoundCall, Call, CommitSelfCheckIn, InFlight,
           InFlightPhases
<1>2. new \in Session /\ new # None
    BY <1>1, NoneIsNoRecord DEF Session, Days, OptionalTime
<1>3. /\ session' = [session EXCEPT ![r] = new] /\ rawLog' = rawLog /\ now' = now
      /\ WriteAndSync(r, MobileRow(r)) /\ Answer(r, due)
    BY DEF CommitSelfCheckIn
<1>4. MobileRow(r) \in Row /\ due \in SUBSET Categories
    BY <1>1, MobileRowType, NoticeType DEF TypeInv
<1> HIDE DEF new, due
<1>5. /\ session' \in [Requests -> Session \cup {None}]
      /\ \A s \in Requests : session[s] # None => session'[s] # None
    BY <1>2, <1>3 DEF TypeInv, TypeOK
<1>6. QED
    BY <1>1, <1>3, <1>4, <1>5, WriteAndSyncFacts, TypeInvCommit DEF TypeInv, TypeOK

LEMMA TypeInvSelfCheckOut ==
    ASSUME TypeInv, NEW r \in Requests, CommitSelfCheckOut(r) PROVE TypeInv'
<1> DEFINE s == call[r].session
           worked == MinutesDifference(session[s].checkIn, call[r].at)
           closed == [session[s] EXCEPT !.checkOut = call[r].at, !.worked = worked]
           due == Charged(MobileRow(r))
<1>1. /\ InFlight(r) /\ call[r].who \in Employees /\ call[r].at \in Times
      /\ s \in Requests /\ session[s] # None
    BY DEF TypeInv, TypeOK, CallsSound, SoundCall, Call, CommitSelfCheckOut, InFlight,
           InFlightPhases
<1>2. session[s] \in Session
    BY <1>1 DEF TypeInv, TypeOK
<1>3. worked \in Nat
    <2>1. session[s].checkIn \in Int \cup {None} /\ call[r].at \in Int \cup {None}
        BY <1>1, <1>2, OptionalTimeType DEF Session, OptionalTime
    <2>2. QED
        BY <2>1, MinutesDifferenceType
<1>4. closed \in Session /\ closed # None
    <2> HIDE DEF worked
    <2>1. closed \in Session
        BY <1>1, <1>2, <1>3 DEF Session, OptionalTime
    <2>2. QED
        BY <2>1, NoneIsNoRecord
<1>5. /\ session' = [session EXCEPT ![s] = closed] /\ rawLog' = rawLog /\ now' = now
      /\ WriteAndSync(r, MobileRow(r)) /\ Answer(r, due)
    BY DEF CommitSelfCheckOut
<1>6. MobileRow(r) \in Row /\ due \in SUBSET Categories
    BY <1>1, MobileRowType, NoticeType DEF TypeInv
<1> HIDE DEF closed, due
<1>7. /\ session' \in [Requests -> Session \cup {None}]
      /\ \A q \in Requests : session[q] # None => session'[q] # None
    BY <1>1, <1>4, <1>5 DEF TypeInv, TypeOK
<1>8. QED
    BY <1>1, <1>5, <1>6, <1>7, WriteAndSyncFacts, TypeInvCommit DEF TypeInv, TypeOK

LEMMA TypeInvIngest ==
    ASSUME TypeInv, NEW r \in Requests, CommitIngest(r) PROVE TypeInv'
<1> DEFINE log == [who |-> call[r].who, at |-> call[r].at, type |-> call[r].type,
                   processed |-> call[r].who \in Employees]
<1>1. /\ InFlight(r) /\ call[r].who \in Employees \cup Strangers
      /\ call[r].at \in Times /\ call[r].type \in {"check_in", "check_out", "unknown"}
    BY DEF TypeInv, TypeOK, CallsSound, SoundCall, Call, CommitIngest, InFlight,
           InFlightPhases
<1>2. /\ rawLog' = [rawLog EXCEPT ![r] = log] /\ Answer(r, {})
      /\ now' = now /\ session' = session /\ adjustments' = adjustments /\ office' = office
    BY DEF CommitIngest
<1>3. log \in RawLog
    BY <1>1 DEF RawLog
<1> HIDE DEF log
<1>4. /\ attendance' \in [Keys -> Row \cup {None}]
      /\ \A k \in Keys : attendance[k] # None => attendance'[k] # None
    <2>1. CASE /\ call[r].who \in Employees
               /\ attendance' = [attendance EXCEPT ![Key(r)] = TerminalRow(r)]
        BY <2>1, KeyType, TerminalRowType, NoneIsNoRecord DEF TypeInv, TypeOK
    <2>2. CASE attendance' = attendance
        BY <2>2 DEF TypeInv, TypeOK
    <2>3. QED
        BY <2>1, <2>2 DEF CommitIngest
<1>5. {} \in SUBSET Categories
    OBVIOUS
<1>6. rawLog' \in [Requests -> RawLog \cup {None}]
    BY <1>2, <1>3 DEF TypeInv, TypeOK
<1>7. QED
    BY <1>1, <1>2, <1>4, <1>5, <1>6, TypeInvCommit DEF TypeInv, TypeOK

LEMMA TypeInvStarts ==
    ASSUME TypeInv, NEW r \in Requests,
           StartManual(r) \/ StartMobile(r) \/ StartTerminal(r)
    PROVE  TypeInv'
<1>1. CASE StartManual(r)
    <2>1. PICK type \in {"check_in", "check_out"}, who \in Employees, t \in EventTimes :
             Start(r, "manual", type, who, t, "checked")
        BY <1>1 DEF StartManual
    <2>2. t \in Times
        BY AttendanceAssumption
    <2>3. QED
        BY <2>1, <2>2, TypeInvStart DEF AllPaths
<1>2. CASE StartMobile(r)
    <2>1. PICK type \in {"check_in", "check_out"}, who \in Employees :
             Start(r, "mobile", type, who, now, "started")
        BY <1>2 DEF StartMobile
    <2>2. now \in Times
        BY DEF TypeInv, TypeOK
    <2>3. QED
        BY <2>1, <2>2, TypeInvStart DEF AllPaths
<1>3. CASE StartTerminal(r)
    <2>1. PICK type \in {"check_in", "check_out", "unknown"},
               who \in Employees \cup Strangers, t \in EventTimes :
             Start(r, "terminal", type, who, t, "started")
        BY <1>3 DEF StartTerminal
    <2>2. t \in Times
        BY AttendanceAssumption
    <2>3. QED
        BY <2>1, <2>2, TypeInvStart DEF AllPaths
<1>4. QED
    BY <1>1, <1>2, <1>3

LEMMA TypeInvTick == ASSUME TypeInv, Tick PROVE TypeInv'
<1>1. now' \in Times
    BY AttendanceAssumption DEF TypeInv, TypeOK, Tick, Times
<1>2. QED
    BY <1>1 DEF Tick, TypeInv, TypeOK, CallsSound, SoundCall, Key

\* The office writes adjustments only, and only such as there may be.
OfficeStep == CreateAdjustment \/ EditAdjustment \/ DeleteAdjustment

LEMMA OfficeFacts ==
    ASSUME TypeInv, OfficeStep
    PROVE  /\ UNCHANGED <<now, call, attendance, session, rawLog>>
           /\ adjustments' \subseteq Adjustment
           /\ office' = [writes |-> office.writes + 1,
                         touched |-> office.touched \cup {k \in Keys : FeesOf(k)' # FeesOf(k)}]
           /\ office.writes < MaxWrites
<1>1. adjustments \subseteq Adjustment
    BY DEF TypeInv, TypeOK
<1>2. CASE CreateAdjustment
    <2>1. PICK new \in [key : Keys, category : Categories, amount : Amounts, id : {None}] :
             OfficeWrites(adjustments \cup {new})
        BY <1>2 DEF CreateAdjustment
    <2>2. new \in Adjustment
        BY AttendanceAssumption DEF Adjustment
    <2>3. QED
        BY <1>1, <2>1, <2>2 DEF OfficeWrites
<1>3. CASE EditAdjustment
    <2>1. PICK old \in adjustments :
             \E new \in [key : Keys, category : Categories, amount : Amounts \cup {old.amount},
                         id : {old.id}] : OfficeWrites((adjustments \ {old}) \cup {new})
        BY <1>3 DEF EditAdjustment
    <2>2. PICK new \in [key : Keys, category : Categories, amount : Amounts \cup {old.amount},
                        id : {old.id}] : OfficeWrites((adjustments \ {old}) \cup {new})
        BY <2>1
    <2>3. old \in Adjustment
        BY <1>1
    <2>4. new \in Adjustment
        BY <2>3, AttendanceAssumption DEF Adjustment
    <2>5. QED
        BY <1>1, <2>2, <2>4 DEF OfficeWrites
<1>4. CASE DeleteAdjustment
    BY <1>1, <1>4 DEF DeleteAdjustment, OfficeWrites
<1>5. QED
    BY <1>2, <1>3, <1>4 DEF OfficeStep

LEMMA TypeInvOffice == ASSUME TypeInv, OfficeStep PROVE TypeInv'
<1>1. office \in [writes : 0..MaxWrites, touched : SUBSET Keys]
      /\ office.writes + 1 \in 0..MaxWrites
    BY OfficeFacts, AttendanceAssumption DEF TypeInv, TypeOK
<1>2. office' \in [writes : 0..MaxWrites, touched : SUBSET Keys]
    BY <1>1, OfficeFacts
<1>3. TypeOK'
    BY <1>2, OfficeFacts DEF TypeInv, TypeOK
<1>4. CallsSound'
    BY OfficeFacts DEF TypeInv, CallsSound, SoundCall, Key
<1>5. QED
    BY <1>3, <1>4 DEF TypeInv

LEMMA TypeInvNext == TypeInv /\ [Next]_vars => TypeInv'
<1> SUFFICES ASSUME TypeInv, [Next]_vars PROVE TypeInv'
    OBVIOUS
<1>1. CASE UNCHANGED vars
    BY <1>1 DEF vars, TypeInv, TypeOK, CallsSound, SoundCall, Key
<1>2. CASE Tick
    BY <1>2, TypeInvTick
<1>3. ASSUME NEW r \in Requests,
             \/ StartManual(r) \/ StartMobile(r) \/ StartTerminal(r)
             \/ CheckNoOpenSession(r) \/ FindOpenSession(r) \/ CheckDuplicate(r)
             \/ ReadRow(r) \/ Notify(r) \/ Fail(r)
      PROVE  TypeInv'
    BY <1>3, TypeInvStarts, TypeInvCheckNoOpenSession, TypeInvFindOpenSession,
       TypeInvCheckDuplicate, TypeInvReadRow, TypeInvNotifyOrFail
<1>4. ASSUME NEW r \in Requests,
             \/ CommitCheckIn(r) \/ CommitCheckOut(r) \/ CommitSelfCheckIn(r)
             \/ CommitSelfCheckOut(r) \/ CommitIngest(r)
      PROVE  TypeInv'
    BY <1>4, TypeInvManual, TypeInvSelfCheckIn, TypeInvSelfCheckOut, TypeInvIngest
<1>5. CASE OfficeStep
    BY <1>5, TypeInvOffice
<1>6. QED
    BY <1>1, <1>2, <1>3, <1>4, <1>5 DEF Next, OfficeStep

\* Every table holds rows of its type, and a call about to commit has a row (and
\* a session) to write to, in every reachable state.
THEOREM TypeCorrect == Spec => [](TypeOK /\ CallsSound)
<1>1. Spec => []TypeInv
    BY TypeInvInit, TypeInvNext, PTL DEF Spec
<1>2. TypeInv => TypeOK /\ CallsSound
    BY DEF TypeInv
<1>3. QED
    BY <1>1, <1>2, PTL

(***************************************************************************)
(* The automatic salary adjustments.                                       *)
(***************************************************************************)

\* What a step can do to a day and its adjustments: nothing, a write by
\* AttendanceService together with the adjustments, a terminal's write, or a
\* write of adjustments by the office.
LEMMA StepEffect ==
    ASSUME TypeInv, [Next]_vars
    PROVE  \/ UNCHANGED <<attendance, adjustments, office>>
           \/ OfficeStep
           \/ \E r \in Requests, row \in Row :
                 /\ call[r].who \in Employees
                 /\ row.source # "terminal"
                 /\ WriteAndSync(r, row)
           \/ \E r \in Requests :
                 /\ call[r].who \in Employees
                 /\ attendance' = [attendance EXCEPT ![Key(r)] = TerminalRow(r)]
                 /\ adjustments' = adjustments /\ office' = office
<1>1. CASE UNCHANGED vars \/ Tick
    BY <1>1 DEF vars, Tick
<1>2. ASSUME NEW r \in Requests,
             \/ StartManual(r) \/ StartMobile(r) \/ StartTerminal(r)
             \/ CheckNoOpenSession(r) \/ FindOpenSession(r) \/ CheckDuplicate(r)
             \/ ReadRow(r) \/ Notify(r) \/ Fail(r)
      PROVE  UNCHANGED <<attendance, adjustments, office>>
    BY <1>2 DEF StartManual, StartMobile, StartTerminal, Start, CheckNoOpenSession,
                FindOpenSession, CheckDuplicate, ReadRow, Notify, Fail
<1>3. ASSUME NEW r \in Requests,
             CommitCheckIn(r) \/ CommitCheckOut(r)
      PROVE  \E row \in Row : /\ call[r].who \in Employees
                              /\ row.source # "terminal"
                              /\ WriteAndSync(r, row)
    <2>1. call[r].who \in Employees
        BY <1>3 DEF TypeInv, CallsSound, SoundCall, CommitCheckIn, CommitCheckOut
    <2>2. PICK row \in Row : row.source = "manual" /\ WriteAndSync(r, row)
        BY <1>3, ManualCheckInRow, ManualCheckOutRow
    <2>3. QED
        BY <2>1, <2>2
<1>4. ASSUME NEW r \in Requests,
             CommitSelfCheckIn(r) \/ CommitSelfCheckOut(r)
      PROVE  \E row \in Row : /\ call[r].who \in Employees
                              /\ row.source # "terminal"
                              /\ WriteAndSync(r, row)
    <2>1. call[r].who \in Employees
        BY <1>4 DEF TypeInv, CallsSound, SoundCall, CommitSelfCheckIn, CommitSelfCheckOut
    <2>2. WriteAndSync(r, MobileRow(r))
        BY <1>4 DEF CommitSelfCheckIn, CommitSelfCheckOut
    <2>3. QED
        BY <2>1, <2>2, MobileRowType DEF TypeInv
<1>5. ASSUME NEW r \in Requests, CommitIngest(r)
      PROVE  \/ UNCHANGED <<attendance, adjustments, office>>
             \/ /\ call[r].who \in Employees
                /\ attendance' = [attendance EXCEPT ![Key(r)] = TerminalRow(r)]
                /\ adjustments' = adjustments /\ office' = office
    BY <1>5 DEF CommitIngest
<1>6. QED
    BY <1>1, <1>2, <1>3, <1>4, <1>5 DEF Next, OfficeStep

LEMMA SyncFacts ==
    ASSUME TypeInv, NEW r \in Requests, call[r].who \in Employees,
           NEW row \in Row, WriteAndSync(r, row), NEW k \in Keys
    PROVE  /\ FeesOf(k)' = IF k = Key(r) THEN Fees(k, row, r) ELSE FeesOf(k)
           /\ k \in office.touched /\ k # Key(r) => k \in office'.touched
<1>1. Key(r) \in Keys
    BY KeyType DEF TypeInv
<1>2. \A a \in Fees(Key(r), row, r) : a.key = Key(r)
    BY <1>1, FeesFacts
<1>3. adjustments' = {a \in adjustments : a.key # Key(r)} \cup Fees(Key(r), row, r)
    BY DEF WriteAndSync, SyncAdjustments, FeesOf
<1>4. office' = [office EXCEPT !.touched = @ \ {Key(r)}]
      /\ office \in [writes : 0..MaxWrites, touched : SUBSET Keys]
    BY DEF WriteAndSync, TypeInv, TypeOK
<1>5. office'.touched = office.touched \ {Key(r)}
    BY <1>4
<1>6. FeesOf(k)' = IF k = Key(r) THEN Fees(k, row, r) ELSE FeesOf(k)
    BY <1>2, <1>3 DEF FeesOf
<1>7. QED
    BY <1>5, <1>6

FeesFollow(k) ==
    /\ attendance[k] = None => FeesOf(k) = {}
    /\ attendance[k] # None /\ attendance[k].source # "terminal" =>
           \E r \in Requests : FeesOf(k) = Fees(k, attendance[k], r)
    /\ \A a, b \in FeesOf(k) : a.category = b.category => a = b

LEMMA AdjustmentsStep ==
    TypeInv /\ AdjustmentsFollowRow /\ [Next]_vars => AdjustmentsFollowRow'
<1> SUFFICES ASSUME TypeInv, AdjustmentsFollowRow, [Next]_vars, NEW k \in Keys,
                    k \notin office'.touched
             PROVE  FeesFollow(k)'
    BY DEF AdjustmentsFollowRow, FeesFollow
<1>0. k \notin office.touched => FeesFollow(k)
    BY DEF AdjustmentsFollowRow, FeesFollow
<1>1. CASE UNCHANGED <<attendance, adjustments, office>>
    BY <1>0, <1>1 DEF FeesFollow, FeesOf
<1>2. ASSUME NEW r \in Requests, NEW row \in Row, call[r].who \in Employees,
             WriteAndSync(r, row)
      PROVE  FeesFollow(k)'
    <2>1. /\ FeesOf(k)' = IF k = Key(r) THEN Fees(k, row, r) ELSE FeesOf(k)
          /\ k # Key(r) => k \notin office.touched
        BY <1>2, SyncFacts
    <2>2. CASE k = Key(r)
        <3>1. attendance'[k] = row /\ row # None /\ FeesOf(k)' = Fees(k, row, r)
            BY <1>2, <2>1, <2>2, WriteAndSyncFacts, NoneIsNoRecord
        <3>2. \A a, b \in Fees(k, row, r) : a.category = b.category => a = b
            BY FeesFacts
        <3>3. QED
            BY <3>1, <3>2 DEF FeesFollow
    <2>3. CASE k # Key(r)
        <3>1. attendance'[k] = attendance[k] /\ FeesOf(k)' = FeesOf(k)
            BY <1>2, <2>1, <2>3, WriteAndSyncFacts
        <3>2. QED
            BY <1>0, <2>1, <2>3, <3>1 DEF FeesFollow
    <2>4. QED
        BY <2>2, <2>3
<1>3. ASSUME NEW r \in Requests, call[r].who \in Employees,
             attendance' = [attendance EXCEPT ![Key(r)] = TerminalRow(r)],
             adjustments' = adjustments, office' = office
      PROVE  FeesFollow(k)'
    <2>1. FeesOf(k)' = FeesOf(k) /\ FeesFollow(k)
        BY <1>0, <1>3 DEF FeesOf
    <2>2. TerminalRow(r).source = "terminal" /\ TerminalRow(r) # None
        BY TerminalRowType, NoneIsNoRecord DEF TypeInv
    <2>3. CASE k = Key(r)
        <3>1. attendance'[k] = TerminalRow(r)
            BY <1>3, <2>3 DEF TypeInv, TypeOK
        <3>2. QED
            BY <2>1, <2>2, <3>1 DEF FeesFollow
    <2>4. CASE k # Key(r)
        <3>1. attendance'[k] = attendance[k]
            BY <1>3, <2>4 DEF TypeInv, TypeOK
        <3>2. QED
            BY <1>0, <2>1, <3>1 DEF FeesFollow
    <2>5. QED
        BY <2>3, <2>4
<1>4. CASE OfficeStep
    <2>1. attendance' = attendance
        BY <1>4, OfficeFacts
    <2>2. k \notin office.touched /\ FeesOf(k)' = FeesOf(k)
        BY <1>4, OfficeFacts
    <2>3. QED
        BY <1>0, <2>1, <2>2 DEF FeesFollow
<1>5. QED
    BY <1>1, <1>2, <1>3, <1>4, StepEffect

\* The automatic adjustments of a day are exactly those the row's minutes call
\* for while AttendanceService wrote it last and the office has changed none of
\* them since, and never two of one category: syncAttendanceAdjustments, under
\* any interleaving of any number of calls and of the office's writes.
THEOREM AdjustmentsCorrect == Spec => []AdjustmentsFollowRow
<1>1. Init => AdjustmentsFollowRow
    BY DEF Init, AdjustmentsFollowRow, FeesOf
<1>2. QED
    BY <1>1, TypeInvInit, TypeInvNext, AdjustmentsStep, PTL DEF Spec

(***************************************************************************)
(* Terminal events.                                                        *)
(***************************************************************************)
LEMMA IngestedOnceStep == TypeInv /\ IngestedOnce /\ [Next]_vars => IngestedOnce'
<1> SUFFICES ASSUME TypeInv, IngestedOnce, [Next]_vars PROVE IngestedOnce'
    OBVIOUS
<1>1. CASE UNCHANGED rawLog
    BY <1>1 DEF IngestedOnce
<1>2. ASSUME NEW r \in Requests, CommitIngest(r) PROVE IngestedOnce'
    <2> DEFINE log == [who |-> call[r].who, at |-> call[r].at, type |-> call[r].type,
                       processed |-> call[r].who \in Employees]
    <2>1. /\ rawLog'[r] = log
          /\ \A q \in Requests : q # r => rawLog'[q] = rawLog[q]
        BY <1>2 DEF CommitIngest, TypeInv, TypeOK
    <2>2. log.who = call[r].who /\ log.at = call[r].at /\ log.type = call[r].type
        OBVIOUS
    <2>3. \A q \in Requests : ~(/\ rawLog[q] # None
                                /\ rawLog[q].who = call[r].who
                                /\ rawLog[q].at = call[r].at
                                /\ rawLog[q].type = call[r].type)
        BY <1>2 DEF CommitIngest, CanStore, Duplicates
    <2> HIDE DEF log
    <2>4. QED
        BY <2>1, <2>2, <2>3 DEF IngestedOnce
<1>3. QED
    BY <1>1, <1>2 DEF Next, vars, Tick, StartManual, StartMobile, StartTerminal, Start,
       CheckNoOpenSession, FindOpenSession, CheckDuplicate, ReadRow, CommitCheckIn,
       CommitCheckOut, CommitSelfCheckIn, CommitSelfCheckOut, Notify, Fail,
       CreateAdjustment, EditAdjustment, DeleteAdjustment, OfficeWrites

\* A terminal event is stored, and its effect applied, at most once under any
\* number of overlapping deliveries.
THEOREM IngestionCorrect == Spec => []IngestedOnce
<1>1. Init => IngestedOnce
    BY DEF Init, IngestedOnce
<1>2. QED
    BY <1>1, TypeInvInit, TypeInvNext, IngestedOnceStep, PTL DEF Spec

(***************************************************************************)
(* The kinds of step: every step begins a call, moves one on, or is one of *)
(* the commits, and only a commit writes a table.                          *)
(***************************************************************************)

\* The row the call's read returns at this moment.
RowNow(r) == IF call[r].who \in Employees THEN attendance[Key(r)] ELSE None

OthersKeep(r) == \A q \in Requests : q # r => call'[q] = call[q]

SameEvent(r) ==
    /\ call'[r].path = call[r].path /\ call'[r].type = call[r].type
    /\ call'[r].who = call[r].who /\ call'[r].at = call[r].at

Rests == UNCHANGED <<call, attendance, session, rawLog>>

Begins(r) ==
    /\ TablesUnchanged /\ OthersKeep(r)
    /\ MayStart(r, call'[r].who, call'[r].at)
    /\ call'[r].row = None
    /\ \/ call'[r].phase = "started"
       \/ call'[r].phase = "checked" /\ call'[r].path = "manual"

Passes(r) ==
    /\ TablesUnchanged /\ OthersKeep(r) /\ SameEvent(r)
    /\ call[r].phase = "started" /\ call'[r].phase = "checked" /\ call'[r].row = None
    /\ call[r].path = "mobile" /\ call[r].type = "check_in" => OpenSessions(Key(r)) = {}

Loads(r) ==
    /\ TablesUnchanged /\ OthersKeep(r) /\ SameEvent(r)
    /\ call[r].phase = "checked" /\ call'[r].phase = "ready"
    /\ call'[r].row = RowNow(r) /\ ~Refuses(r, RowNow(r))

Leaves(r) ==
    /\ TablesUnchanged /\ OthersKeep(r) /\ SameEvent(r)
    /\ InFlight(r) /\ call'[r].row = None
    /\ IF call[r].phase = "committed" THEN call'[r].phase \in {"done", "unnotified"}
       ELSE call'[r].phase = "refused"

CommitStep(r) ==
    \/ CommitCheckIn(r) \/ CommitCheckOut(r)
    \/ CommitSelfCheckIn(r) \/ CommitSelfCheckOut(r) \/ CommitIngest(r)

Commits(r) ==
    /\ OthersKeep(r) /\ SameEvent(r)
    /\ call[r].phase = "ready" /\ call'[r].phase \in {"done", "committed"}
    /\ call'[r].row = None
    /\ CommitStep(r)

\* A call whose record becomes c, the others keeping theirs.
LEMMA CallBecomes ==
    ASSUME TypeInv, NEW r \in Requests, NEW c, call' = [call EXCEPT ![r] = c]
    PROVE  call'[r] = c /\ OthersKeep(r)
BY DEF TypeInv, TypeOK, OthersKeep

LEMMA StartBegins ==
    ASSUME TypeInv, NEW r \in Requests,
           StartManual(r) \/ StartMobile(r) \/ StartTerminal(r)
    PROVE  Begins(r)
<1>1. PICK path, type, who, t, phase :
          /\ Start(r, path, type, who, t, phase)
          /\ \/ phase = "started"
             \/ phase = "checked" /\ path = "manual"
    BY DEF StartManual, StartMobile, StartTerminal
<1>2. call'[r] = NewCall(path, type, who, t, phase) /\ OthersKeep(r)
    BY <1>1, CallBecomes DEF Start
<1>3. QED
    BY <1>1, <1>2 DEF Start, NewCall, Begins, TablesUnchanged

LEMMA LeftLeaves ==
    ASSUME TypeInv, NEW r \in Requests, InFlight(r), TablesUnchanged,
           NEW phase \in Phases,
           call' = [call EXCEPT ![r] = Left(call[r], phase, {})],
           IF call[r].phase = "committed" THEN phase \in {"done", "unnotified"}
           ELSE phase = "refused"
    PROVE  Leaves(r)
<1>1. call'[r] = Left(call[r], phase, {}) /\ OthersKeep(r)
    BY CallBecomes
<1>2. QED
    BY <1>1, LeftFacts DEF Leaves, SameEvent, TypeInv, TypeOK

\* A check made by a call that has just started lets it pass or refuses it.
LEMMA BecomePasses ==
    ASSUME TypeInv, NEW r \in Requests, TablesUnchanged, call[r].phase = "started",
           NEW phase \in {"checked", "refused"}, Become(r, phase),
           phase = "checked" /\ call[r].path = "mobile" /\ call[r].type = "check_in" =>
               OpenSessions(Key(r)) = {}
    PROVE  Passes(r) \/ Leaves(r)
<1>1. call[r] \in Call /\ call[r].row = None
    BY DEF TypeInv, TypeOK, CallsSound, SoundCall
<1>2. call'[r] = [call[r] EXCEPT !.phase = phase] /\ OthersKeep(r)
    BY CallBecomes DEF Become
<1>3. SameEvent(r) /\ call'[r].phase = phase /\ call'[r].row = None
    BY <1>1, <1>2 DEF SameEvent, Call
<1>4. QED
    BY <1>2, <1>3 DEF Passes, Leaves, InFlight, InFlightPhases

LEMMA ChecksPass ==
    ASSUME TypeInv, NEW r \in Requests,
           CheckNoOpenSession(r) \/ CheckDuplicate(r) \/ FindOpenSession(r)
    PROVE  Passes(r) \/ Leaves(r)
<1>1. call[r] \in Call /\ call[r].row = None /\ call[r].phase = "started" /\ TablesUnchanged
    BY DEF TypeInv, TypeOK, CallsSound, SoundCall, CheckNoOpenSession, CheckDuplicate,
           FindOpenSession, TablesUnchanged
<1>2. CASE CheckNoOpenSession(r)
    BY <1>1, <1>2, BecomePasses DEF CheckNoOpenSession
<1>3. CASE CheckDuplicate(r)
    BY <1>1, <1>3, BecomePasses DEF CheckDuplicate
<1>4. CASE FindOpenSession(r)
    <2>1. CASE Become(r, "refused")
        BY <1>1, <2>1, BecomePasses
    <2>2. ASSUME NEW s,
                 call' = [call EXCEPT ![r] = [@ EXCEPT !.phase = "checked", !.session = s]]
          PROVE  Passes(r)
        <3> DEFINE c == [call[r] EXCEPT !.phase = "checked", !.session = s]
        <3>1. call'[r] = c /\ OthersKeep(r)
            BY <2>2, CallBecomes
        <3>2. SameEvent(r) /\ call'[r].phase = "checked" /\ call'[r].row = None
            BY <1>1, <3>1 DEF SameEvent, Call
        <3>3. call[r].type # "check_in"
            BY <1>4 DEF FindOpenSession
        <3>4. QED
            BY <1>1, <3>1, <3>2, <3>3 DEF Passes
    <2>3. QED
        BY <1>4, <2>1, <2>2 DEF FindOpenSession
<1>5. QED
    BY <1>2, <1>3, <1>4

LEMMA ReadLoads ==
    ASSUME TypeInv, NEW r \in Requests, ReadRow(r)
    PROVE  Loads(r) \/ Leaves(r)
<1>1. call[r] \in Call /\ call[r].phase = "checked" /\ TablesUnchanged /\ InFlight(r)
    BY DEF TypeInv, TypeOK, ReadRow, TablesUnchanged, InFlight, InFlightPhases
<1>2. CASE Refuses(r, RowNow(r))
    <2>1. call' = [call EXCEPT ![r] = Left(call[r], "refused", {})]
        BY <1>2 DEF ReadRow, RowNow
    <2>2. QED
        BY <1>1, <2>1, LeftLeaves DEF Phases
<1>3. CASE ~Refuses(r, RowNow(r))
    <2> DEFINE c == [call[r] EXCEPT !.phase = "ready", !.row = RowNow(r)]
    <2>1. call' = [call EXCEPT ![r] = c]
        BY <1>3 DEF ReadRow, RowNow
    <2>2. call'[r] = c /\ OthersKeep(r)
        BY <2>1, CallBecomes
    <2>3. SameEvent(r) /\ call'[r].phase = "ready" /\ call'[r].row = RowNow(r)
        BY <1>1, <2>2 DEF SameEvent, Call
    <2>4. QED
        BY <1>1, <1>3, <2>2, <2>3 DEF Loads
<1>4. QED
    BY <1>2, <1>3

LEMMA NotifyOrFailLeaves ==
    ASSUME TypeInv, NEW r \in Requests, Notify(r) \/ Fail(r)
    PROVE  Leaves(r)
<1>1. CASE Notify(r)
    BY <1>1, LeftLeaves DEF Notify, TablesUnchanged, InFlight, InFlightPhases, Phases
<1>2. CASE Fail(r)
    <2> DEFINE phase == IF call[r].phase = "committed" THEN "unnotified" ELSE "refused"
    <2>1. call' = [call EXCEPT ![r] = Left(call[r], phase, {})] /\ phase \in Phases
          /\ InFlight(r) /\ TablesUnchanged
        BY <1>2 DEF Fail, TablesUnchanged, Phases
    <2>2. QED
        BY <2>1, LeftLeaves
<1>3. QED
    BY <1>1, <1>2

LEMMA CommitStepCommits ==
    ASSUME TypeInv, NEW r \in Requests, CommitStep(r)
    PROVE  Commits(r)
<1>1. PICK due \in SUBSET Categories : Answer(r, due)
    <2>1. {} \in SUBSET Categories
        OBVIOUS
    <2>2. \A k, row : LateNotice(k, row) \in SUBSET Categories /\ Charged(row) \in SUBSET Categories
        BY NoticeType
    <2>3. QED
        BY <2>1, <2>2 DEF CommitStep, CommitCheckIn, CommitCheckOut, CommitSelfCheckIn,
                          CommitSelfCheckOut, CommitIngest
<1>2. call[r].phase = "ready"
    BY DEF CommitStep, CommitCheckIn, CommitCheckOut, CommitSelfCheckIn,
           CommitSelfCheckOut, CommitIngest
<1>3. QED
    BY <1>1, <1>2, AnswerFacts DEF TypeInv, Commits, OthersKeep, SameEvent

LEMMA StepKinds ==
    ASSUME TypeInv, [Next]_vars
    PROVE  Rests \/ \E r \in Requests :
                        Begins(r) \/ Passes(r) \/ Loads(r) \/ Leaves(r) \/ Commits(r)
<1>1. CASE UNCHANGED vars \/ Tick
    BY <1>1 DEF vars, Tick, Rests
<1>2. ASSUME NEW r \in Requests, StartManual(r) \/ StartMobile(r) \/ StartTerminal(r)
      PROVE  Begins(r)
    BY <1>2, StartBegins
<1>3. ASSUME NEW r \in Requests,
             CheckNoOpenSession(r) \/ CheckDuplicate(r) \/ FindOpenSession(r)
      PROVE  Passes(r) \/ Leaves(r)
    BY <1>3, ChecksPass
<1>4. ASSUME NEW r \in Requests, ReadRow(r) PROVE Loads(r) \/ Leaves(r)
    BY <1>4, ReadLoads
<1>5. ASSUME NEW r \in Requests, Notify(r) \/ Fail(r) PROVE Leaves(r)
    BY <1>5, NotifyOrFailLeaves
<1>6. ASSUME NEW r \in Requests, CommitStep(r) PROVE Commits(r)
    BY <1>6, CommitStepCommits
<1>7. CASE OfficeStep
    BY <1>7, OfficeFacts DEF Rests
<1>8. QED
    BY <1>1, <1>2, <1>3, <1>4, <1>5, <1>6, <1>7 DEF Next, CommitStep, OfficeStep

(***************************************************************************)
(* What a commit writes.                                                   *)
(***************************************************************************)

\* The derived columns of a row are those of its own times.
RowAgrees(k, row) ==
    row = NewRow(row.checkIn, row.checkOut,
                 DayMetrics(k, row.checkIn, row.checkOut), row.source)

\* The call has read the row as it is, and its handler goes on with it.
ReadsNow(r) == call[r].row = attendance[Key(r)] /\ ~Refuses(r, call[r].row)

\* A time written is that of the event, if it is of the kind, or one of the row as it
\* was read or as it is; a call that read the row as it is collapses its event into it.
Writes(r, row) ==
    /\ attendance' = [attendance EXCEPT ![Key(r)] = row]
    /\ row.source = "mobile" => RowAgrees(Key(r), row)
    /\ \/ row.checkIn \in {CheckInOf(call[r].row), CheckInOf(attendance[Key(r)])}
       \/ call[r].type = "check_in" /\ row.checkIn = call[r].at
    /\ \/ row.checkOut \in {CheckOutOf(call[r].row), CheckOutOf(attendance[Key(r)])}
       \/ call[r].type = "check_out" /\ row.checkOut = call[r].at
    /\ ReadsNow(r) =>
           /\ row.checkIn = CollapsedIn(r) /\ row.checkOut = CollapsedOut(r)
           /\ row.source # "terminal" => RowAgrees(Key(r), row)

\* A row built by NewRow agrees with its times if its minutes are theirs.
LEMMA NewRowAgrees ==
    ASSUME NEW k, NEW checkIn, NEW checkOut, NEW source
    PROVE  LET row == NewRow(checkIn, checkOut, DayMetrics(k, checkIn, checkOut), source)
           IN  /\ RowAgrees(k, row)
               /\ row.checkIn = checkIn /\ row.checkOut = checkOut /\ row.source = source
<1> DEFINE m == DayMetrics(k, checkIn, checkOut)
           row == NewRow(checkIn, checkOut, m, source)
<1>1. row.checkIn = checkIn /\ row.checkOut = checkOut /\ row.source = source
    BY DEF NewRow
<1> HIDE DEF row
<1>2. row = NewRow(checkIn, checkOut, DayMetrics(k, checkIn, checkOut), source)
    BY DEF row
<1>3. QED
    BY <1>1, <1>2 DEF RowAgrees, row

\* Setting all the derived columns of a row makes it the new row of its times.
LEMMA SetMetricsIsNewRow ==
    ASSUME NEW row \in Row, NEW m \in MetricsRecord, NEW source \in AllPaths
    PROVE  SetMetrics(row, m, source) = NewRow(row.checkIn, row.checkOut, m, source)
<1> DEFINE set == SetMetrics(row, m, source)
<1>1. /\ set.worked = m.worked /\ set.late = m.late /\ set.early = m.early
      /\ set.overtime = m.overtime /\ set.status = m.status /\ set.source = source
      /\ set.checkIn = row.checkIn /\ set.checkOut = row.checkOut
    BY DEF SetMetrics, Row
<1>2. set \in Row
    BY SetMetricsType
<1> HIDE DEF set
<1>3. set = [checkIn |-> set.checkIn, checkOut |-> set.checkOut, worked |-> set.worked,
             late |-> set.late, early |-> set.early, overtime |-> set.overtime,
             status |-> set.status, source |-> set.source]
    BY <1>2 DEF Row
<1>4. set = NewRow(row.checkIn, row.checkOut, m, source)
    BY <1>1, <1>3 DEF NewRow
<1>5. QED
    BY <1>4 DEF set

LEMMA CheckInWrites ==
    ASSUME TypeInv, NEW r \in Requests, CommitCheckIn(r)
    PROVE  \E row \in Row : Writes(r, row)
<1> DEFINE k == Key(r)
           t == call[r].at
           m == DayMetrics(k, t, CheckOutOf(call[r].row))
           kept == [attendance[k] EXCEPT !.checkIn = t]
           row == IF call[r].row = None
                  THEN NewRow(t, None, m, "manual")
                  ELSE SetMetrics(kept, m, "manual")
<1>1. /\ SoundCall(r) /\ call[r] \in Call /\ call[r].phase = "ready"
      /\ call[r].path = "manual" /\ call[r].type = "check_in"
    BY DEF TypeInv, TypeOK, CallsSound, CommitCheckIn
<1>2. call[r].who \in Employees /\ k \in Keys /\ t \in OptionalTime /\ t \in Times
    BY <1>1, KeyType DEF TypeInv, SoundCall, Call, OptionalTime
<1>3. m \in MetricsRecord
    BY <1>1, <1>2, TimesOfType, DayMetricsType DEF Call
<1>4. attendance' = [attendance EXCEPT ![k] = row]
    BY DEF CommitCheckIn, WriteAndSync
<1>5. ReadsNow(r) => CollapsedIn(r) = t /\ CollapsedOut(r) = CheckOutOf(call[r].row)
    BY <1>1 DEF ReadsNow, Refuses, CollapsedIn, CollapsedOut, CollapseCheckIn,
                CollapseCheckOut
<1>6. CASE call[r].row = None
    <2>1. row = NewRow(t, None, m, "manual") /\ CheckOutOf(call[r].row) = None
        BY <1>6 DEF CheckOutOf
    <2>2. row \in Row
        BY <1>2, <1>3, <2>1, NewRowType DEF OptionalTime, AllPaths
    <2>3. RowAgrees(k, row) /\ row.source = "manual" /\ row.checkIn = t /\ row.checkOut = None
        BY <2>1, NewRowAgrees
    <2> HIDE DEF row
    <2>4. Writes(r, row)
        BY <1>1, <1>4, <1>5, <2>1, <2>3 DEF Writes
    <2>5. QED
        BY <2>2, <2>4
<1>7. CASE call[r].row # None
    <2>1. attendance[k] \in Row /\ attendance[k] # None
        BY <1>1, <1>2, <1>7 DEF TypeInv, TypeOK, SoundCall
    <2>2. kept \in Row /\ kept.checkIn = t /\ kept.checkOut = attendance[k].checkOut
        BY <1>2, <2>1 DEF Row
    <2>3. row = SetMetrics(kept, m, "manual")
        BY <1>7
    <2>4. CheckOutOf(attendance[k]) = attendance[k].checkOut
        BY <2>1 DEF CheckOutOf
    <2> HIDE DEF kept, m
    <2>5. /\ row \in Row /\ row.source = "manual" /\ row.checkIn = t
          /\ row.checkOut = CheckOutOf(attendance[k])
          /\ row = NewRow(t, attendance[k].checkOut, m, "manual")
        BY <1>3, <2>2, <2>3, <2>4, SetMetricsType, SetMetricsIsNewRow DEF AllPaths
    <2>6. ReadsNow(r) => RowAgrees(k, row)
        <3> SUFFICES ASSUME ReadsNow(r) PROVE RowAgrees(k, row)
            OBVIOUS
        <3>1. m = DayMetrics(k, t, attendance[k].checkOut)
            BY <2>4 DEF ReadsNow, m
        <3>2. QED
            BY <2>5, <3>1, NewRowAgrees
    <2> HIDE DEF row
    <2>7. Writes(r, row)
        <3>1. row.checkIn = t /\ call[r].type = "check_in"
            BY <1>1, <2>5
        <3>2. ReadsNow(r) => row.checkOut = CollapsedOut(r) /\ row.checkIn = CollapsedIn(r)
            BY <1>5, <2>5 DEF ReadsNow
        <3>3. QED
            BY <1>4, <2>5, <2>6, <3>1, <3>2 DEF Writes
    <2>8. QED
        BY <2>5, <2>7
<1>8. QED
    BY <1>6, <1>7

LEMMA CheckOutWrites ==
    ASSUME TypeInv, NEW r \in Requests, CommitCheckOut(r)
    PROVE  \E row \in Row : Writes(r, row)
<1> DEFINE k == Key(r)
           t == call[r].at
           m == DayMetrics(k, CheckInOf(call[r].row), t)
           kept == [attendance[k] EXCEPT !.checkOut = t]
           row == SetMetrics(kept, m, "manual")
<1>1. /\ SoundCall(r) /\ call[r] \in Call /\ call[r].phase = "ready"
      /\ call[r].path = "manual" /\ call[r].type = "check_out"
    BY DEF TypeInv, TypeOK, CallsSound, CommitCheckOut
<1>2. call[r].who \in Employees /\ k \in Keys /\ t \in OptionalTime /\ t \in Times
    BY <1>1, KeyType DEF TypeInv, SoundCall, Call, OptionalTime
<1>3. m \in MetricsRecord
    BY <1>1, <1>2, TimesOfType, DayMetricsType DEF Call
<1>4. attendance' = [attendance EXCEPT ![k] = row]
    BY DEF CommitCheckOut, WriteAndSync
<1>5. ReadsNow(r) => CollapsedOut(r) = t /\ CollapsedIn(r) = CheckInOf(call[r].row)
    BY <1>1 DEF ReadsNow, Refuses, CollapsedIn, CollapsedOut, CollapseCheckIn,
                CollapseCheckOut
<1>6. attendance[k] \in Row /\ attendance[k] # None
    BY <1>1, <1>2 DEF TypeInv, TypeOK, SoundCall
<1>7. kept \in Row /\ kept.checkOut = t /\ kept.checkIn = attendance[k].checkIn
    BY <1>2, <1>6 DEF Row
<1>8. CheckInOf(attendance[k]) = attendance[k].checkIn
    BY <1>6 DEF CheckInOf
<1> HIDE DEF kept, m
<1>9. /\ row \in Row /\ row.source = "manual" /\ row.checkOut = t
      /\ row.checkIn = CheckInOf(attendance[k])
      /\ row = NewRow(attendance[k].checkIn, t, m, "manual")
    BY <1>3, <1>7, <1>8, SetMetricsType, SetMetricsIsNewRow DEF AllPaths
<1>10. ReadsNow(r) => RowAgrees(k, row)
    <2> SUFFICES ASSUME ReadsNow(r) PROVE RowAgrees(k, row)
        OBVIOUS
    <2>1. m = DayMetrics(k, attendance[k].checkIn, t)
        BY <1>8 DEF ReadsNow, m
    <2>2. QED
        BY <1>9, <2>1, NewRowAgrees
<1> HIDE DEF row
<1>11. Writes(r, row)
    <2>1. ReadsNow(r) => row.checkOut = CollapsedOut(r) /\ row.checkIn = CollapsedIn(r)
        BY <1>5, <1>9 DEF ReadsNow
    <2>2. QED
        BY <1>1, <1>4, <1>9, <1>10, <2>1 DEF Writes
<1>12. QED
    BY <1>9, <1>11

\* The times of a collapsed row, as CollapseChooses has them.
LEMMA CollapsedChooses ==
    ASSUME TypeOK, NEW r \in Requests
    PROVE  /\ \/ CollapsedIn(r) = CheckInOf(call[r].row)
              \/ call[r].type = "check_in" /\ CollapsedIn(r) = call[r].at
           /\ \/ CollapsedOut(r) = CheckOutOf(call[r].row)
              \/ call[r].type = "check_out" /\ CollapsedOut(r) = call[r].at
<1>1. call[r].row \in Row \cup {None} /\ call[r].at \in Times
    BY DEF TypeOK, Call
<1>2. QED
    BY <1>1, CollapseChooses DEF CollapsedIn, CollapsedOut

LEMMA MobileWrites ==
    ASSUME TypeInv, NEW r \in Requests, CommitSelfCheckIn(r) \/ CommitSelfCheckOut(r)
    PROVE  \E row \in Row : Writes(r, row)
<1>1. call[r].who \in Employees
    BY DEF TypeInv, CallsSound, SoundCall, CommitSelfCheckIn, CommitSelfCheckOut
<1>2. attendance' = [attendance EXCEPT ![Key(r)] = MobileRow(r)]
    BY DEF CommitSelfCheckIn, CommitSelfCheckOut, WriteAndSync
<1>3. MobileRow(r) \in Row
    BY <1>1, MobileRowType DEF TypeInv
<1>4. /\ RowAgrees(Key(r), MobileRow(r))
      /\ MobileRow(r).checkIn = CollapsedIn(r) /\ MobileRow(r).checkOut = CollapsedOut(r)
    BY NewRowAgrees DEF MobileRow
<1>5. Writes(r, MobileRow(r))
    BY <1>2, <1>4, CollapsedChooses DEF Writes, TypeInv
<1>6. QED
    BY <1>3, <1>5

LEMMA TerminalWrites ==
    ASSUME TypeInv, NEW r \in Requests, CommitIngest(r), call[r].who \in Employees
    PROVE  \E row \in Row : Writes(r, row)
<1>1. attendance' = [attendance EXCEPT ![Key(r)] = TerminalRow(r)]
    BY AttendanceAssumption DEF CommitIngest
<1>2. TerminalRow(r) \in Row /\ TerminalRow(r).source = "terminal"
    BY TerminalRowType DEF TypeInv
<1>3. TerminalRow(r).checkIn = CollapsedIn(r) /\ TerminalRow(r).checkOut = CollapsedOut(r)
    BY DEF TerminalRow, NewRow
<1>4. Writes(r, TerminalRow(r))
    BY <1>1, <1>2, <1>3, CollapsedChooses DEF Writes, TypeInv
<1>5. QED
    BY <1>2, <1>4

\* A commit for an employee writes the employee's day, one for a stranger none.
LEMMA CommitWrites ==
    ASSUME TypeInv, NEW r \in Requests, CommitStep(r)
    PROVE  /\ call[r].who \in Employees => Key(r) \in Keys /\ \E row \in Row : Writes(r, row)
           /\ call[r].who \notin Employees => attendance' = attendance
<1>1. call[r].who \in Employees => Key(r) \in Keys
    BY KeyType DEF TypeInv
<1>2. CASE CommitIngest(r)
    <2>1. call[r].who \notin Employees => attendance' = attendance
        BY <1>2 DEF CommitIngest
    <2>2. QED
        BY <1>1, <1>2, <2>1, TerminalWrites
<1>3. CASE ~CommitIngest(r)
    <2>1. call[r].who \in Employees
        BY <1>3 DEF CommitStep, TypeInv, CallsSound, SoundCall, CommitSelfCheckIn,
                    CommitSelfCheckOut, CommitCheckIn, CommitCheckOut
    <2>2. QED
        BY <1>1, <1>3, <2>1, CheckInWrites, CheckOutWrites, MobileWrites DEF CommitStep
<1>4. QED
    BY <1>2, <1>3

(***************************************************************************)
(* Where the times in a row come from.                                     *)
(***************************************************************************)
\* The times in a row a call has read come from accepted events too.
ReadsComeFromEvents ==
    \A r \in Requests :
        call[r].row # None =>
            /\ call[r].row.checkIn # None =>
                   AcceptedEvent(Key(r), "check_in", call[r].row.checkIn)
            /\ call[r].row.checkOut # None =>
                   AcceptedEvent(Key(r), "check_out", call[r].row.checkOut)

EventsInv == TimesComeFromEvents /\ ReadsComeFromEvents

\* Both times are those of accepted events of the day.
Evidenced(k, row) ==
    /\ row.checkIn # None => AcceptedEvent(k, "check_in", row.checkIn)
    /\ row.checkOut # None => AcceptedEvent(k, "check_out", row.checkOut)

LEMMA EventsByRows ==
    EventsInv <=>
        /\ \A k \in Keys : attendance[k] # None => Evidenced(k, attendance[k])
        /\ \A r \in Requests : call[r].row # None => Evidenced(Key(r), call[r].row)
BY DEF EventsInv, TimesComeFromEvents, ReadsComeFromEvents, Evidenced

\* An accepted event stays accepted, and a commit accepts its own.
LEMMA EventsStay ==
    ASSUME TypeInv, [Next]_vars, NEW k, NEW type, NEW t, AcceptedEvent(k, type, t)
    PROVE  AcceptedEvent(k, type, t)'
<1>1. PICK q \in Requests : Accepted(q) /\ Key(q) = k /\ call[q].type = type /\ call[q].at = t
    BY DEF AcceptedEvent
<1>2. CASE call'[q] = call[q]
    BY <1>1, <1>2 DEF AcceptedEvent, Accepted, Key
<1>3. CASE Leaves(q)
    <2>1. Accepted(q)' /\ SameEvent(q)
        BY <1>1, <1>3 DEF Leaves, Accepted, AcceptedPhases, InFlight, InFlightPhases
    <2>2. QED
        BY <1>1, <2>1 DEF AcceptedEvent, Key, SameEvent
<1>4. call[q].phase \notin {"idle", "started", "checked", "ready"}
    BY <1>1 DEF Accepted, AcceptedPhases
<1>5. QED
    BY <1>2, <1>3, <1>4, StepKinds
       DEF Rests, Begins, MayStart, Passes, Loads, Leaves, Commits, OthersKeep

LEMMA EvidenceStays ==
    ASSUME TypeInv, [Next]_vars, NEW k, NEW row, Evidenced(k, row)
    PROVE  Evidenced(k, row)'
BY EventsStay DEF Evidenced

\* What a commit writes is as good as the table and what the call has read.
LEMMA CommitEvidence ==
    ASSUME TypeInv, EventsInv, [Next]_vars, NEW r \in Requests, Commits(r),
           NEW k \in Keys, k = Key(r), NEW row \in Row, Writes(r, row)
    PROVE  Evidenced(k, row)'
<1>1. PICK type, t : type = call[r].type /\ t = call[r].at
    OBVIOUS
<1>2. AcceptedEvent(k, type, t)'
    <2>1. Accepted(r)' /\ Key(r)' = k /\ call'[r].type = type /\ call'[r].at = t
        BY <1>1 DEF Commits, SameEvent, Accepted, AcceptedPhases, Key
    <2>2. QED
        BY <2>1 DEF AcceptedEvent
<1>3. ASSUME NEW old \in {attendance[k], call[r].row}, old # None
      PROVE  Evidenced(k, old)'
    <2>1. Evidenced(k, old)
        BY <1>3, EventsByRows
    <2>2. QED
        BY <2>1, EvidenceStays
<1>4. ASSUME row.checkIn # None PROVE AcceptedEvent(k, "check_in", row.checkIn)'
    <2>1. CASE type = "check_in" /\ row.checkIn = t
        BY <1>2, <2>1
    <2>2. ASSUME NEW old \in {attendance[k], call[r].row}, row.checkIn = CheckInOf(old)
          PROVE  AcceptedEvent(k, "check_in", row.checkIn)'
        BY <1>3, <1>4, <2>2 DEF CheckInOf, Evidenced
    <2>3. QED
        BY <1>1, <2>1, <2>2 DEF Writes
<1>5. ASSUME row.checkOut # None PROVE AcceptedEvent(k, "check_out", row.checkOut)'
    <2>1. CASE type = "check_out" /\ row.checkOut = t
        BY <1>2, <2>1
    <2>2. ASSUME NEW old \in {attendance[k], call[r].row}, row.checkOut = CheckOutOf(old)
          PROVE  AcceptedEvent(k, "check_out", row.checkOut)'
        BY <1>3, <1>5, <2>2 DEF CheckOutOf, Evidenced
    <2>3. QED
        BY <1>1, <2>1, <2>2 DEF Writes
<1>6. QED
    BY <1>4, <1>5 DEF Evidenced

LEMMA RowsEvidenced ==
    ASSUME TypeInv, EventsInv, [Next]_vars, NEW k \in Keys,
           NEW row, attendance'[k] = row, row # None
    PROVE  Evidenced(k, row)'
<1>1. CASE attendance'[k] = attendance[k]
    <2>1. Evidenced(k, row)
        BY <1>1, EventsByRows
    <2>2. QED
        BY <2>1, EvidenceStays
<1>2. ASSUME NEW r \in Requests, Commits(r), attendance'[k] # attendance[k]
      PROVE  Evidenced(k, row)'
    <2>1. call[r].who \in Employees
        BY <1>2, CommitWrites DEF Commits
    <2>2. PICK written \in Row : Key(r) \in Keys /\ Writes(r, written)
        BY <1>2, <2>1, CommitWrites DEF Commits
    <2>3. k = Key(r) /\ row = written
        BY <1>2, <2>2 DEF Writes, TypeInv, TypeOK
    <2>4. QED
        BY <1>2, <2>2, <2>3, CommitEvidence
<1>3. QED
    BY <1>1, <1>2, StepKinds
       DEF Rests, Begins, Passes, Loads, Leaves, TablesUnchanged

LEMMA ReadsEvidenced ==
    ASSUME TypeInv, EventsInv, [Next]_vars, NEW q \in Requests,
           NEW row, call'[q].row = row, row # None
    PROVE  Evidenced(Key(q), row)'
<1>1. PICK k : k = Key(q)
    OBVIOUS
<1>2. Evidenced(k, row)' /\ Key(q)' = k
    <2>1. CASE call'[q] = call[q]
        <3>1. Evidenced(k, row) /\ Key(q)' = k
            BY <1>1, <2>1, EventsByRows DEF Key
        <3>2. QED
            BY <3>1, EvidenceStays
    <2>2. CASE Loads(q)
        <3>1. row = attendance[k] /\ Key(q)' = k /\ k \in Keys
            BY <1>1, <2>2, KeyType DEF Loads, RowNow, SameEvent, Key, TypeInv
        <3>2. Evidenced(k, row)
            BY <3>1, EventsByRows
        <3>3. QED
            BY <3>1, <3>2, EvidenceStays
    <2>3. QED
        BY <2>1, <2>2, StepKinds
           DEF Rests, Begins, Passes, Leaves, Commits, Loads, OthersKeep
<1>3. QED
    BY <1>2 DEF Evidenced, AcceptedEvent

LEMMA EventsStep == TypeInv /\ EventsInv /\ [Next]_vars => EventsInv'
<1> SUFFICES ASSUME TypeInv, EventsInv, [Next]_vars PROVE EventsInv'
    OBVIOUS
<1>1. ASSUME NEW k \in Keys, attendance'[k] # None
      PROVE  /\ attendance'[k].checkIn # None =>
                    AcceptedEvent(k, "check_in", attendance[k].checkIn)'
             /\ attendance'[k].checkOut # None =>
                    AcceptedEvent(k, "check_out", attendance[k].checkOut)'
    <2>1. PICK row : attendance'[k] = row
        OBVIOUS
    <2>2. Evidenced(k, row)'
        BY <1>1, <2>1, RowsEvidenced
    <2>3. QED
        BY <2>1, <2>2 DEF Evidenced, AcceptedEvent
<1>2. ASSUME NEW r \in Requests, call'[r].row # None
      PROVE  /\ call'[r].row.checkIn # None =>
                    AcceptedEvent(Key(r), "check_in", call[r].row.checkIn)'
             /\ call'[r].row.checkOut # None =>
                    AcceptedEvent(Key(r), "check_out", call[r].row.checkOut)'
    <2>1. PICK row : call'[r].row = row
        OBVIOUS
    <2>2. Evidenced(Key(r), row)'
        BY <1>2, <2>1, ReadsEvidenced
    <2>3. QED
        BY <2>1, <2>2 DEF Evidenced, AcceptedEvent
<1>3. QED
    BY <1>1, <1>2 DEF EventsInv, TimesComeFromEvents, ReadsComeFromEvents

LEMMA EventsCorrect == Spec => []EventsInv
<1>1. Init => EventsInv
    BY DEF Init, EventsInv, TimesComeFromEvents, ReadsComeFromEvents, Idle, NewCall
<1>2. QED
    BY <1>1, TypeInvInit, TypeInvNext, EventsStep, PTL DEF Spec

\* Every time in a day's row is that of an event of the day some call of checkIn, checkOut,
\* selfCheckIn, selfCheckOut or ingestLog was accepted for, however many calls overlap and
\* however stale the rows they read.
THEOREM TimesCorrect == Spec => []TimesComeFromEvents
<1>1. EventsInv => TimesComeFromEvents
    BY DEF EventsInv
<1>2. QED
    BY <1>1, EventsCorrect, PTL

\* What a call has read of the day and has still to write is as good: no handler holds a
\* time nobody was accepted for.
THEOREM ReadsCorrect == Spec => []ReadsComeFromEvents
<1>1. EventsInv => ReadsComeFromEvents
    BY DEF EventsInv
<1>2. QED
    BY <1>1, EventsCorrect, PTL

\* A call that has passed its checks has what its transaction needs: an employee, a row to
\* update and, for selfCheckOut, a session to close.
THEOREM CallsCorrect == Spec => []CallsSound
BY TypeCorrect, PTL

(***************************************************************************)
(* Rows that agree with their times.                                       *)
(***************************************************************************)
LEMMA RowMatchesIffAgrees ==
    ASSUME NEW k
    PROVE  RowMatchesItsTimes(k) <=> RowAgrees(k, attendance[k])
BY DEF RowMatchesItsTimes, RowAgrees

\* A day is as it was, or a commit has just written it.
LEMMA DayWritten ==
    ASSUME TypeInv, [Next]_vars, NEW k \in Keys
    PROVE  \/ attendance'[k] = attendance[k]
           \/ \E r \in Requests, row \in Row :
                 /\ Commits(r) /\ call[r].who \in Employees /\ k = Key(r)
                 /\ Writes(r, row) /\ attendance'[k] = row
<1>1. ASSUME NEW r \in Requests, Commits(r), attendance'[k] # attendance[k]
      PROVE  \E row \in Row : /\ call[r].who \in Employees /\ k = Key(r)
                              /\ Writes(r, row) /\ attendance'[k] = row
    <2>1. call[r].who \in Employees
        BY <1>1, CommitWrites DEF Commits
    <2>2. PICK row \in Row : Key(r) \in Keys /\ Writes(r, row)
        BY <1>1, <2>1, CommitWrites DEF Commits
    <2>3. k = Key(r) /\ attendance'[k] = row
        BY <1>1, <2>2 DEF Writes, TypeInv, TypeOK
    <2>4. QED
        BY <2>1, <2>2, <2>3
<1>2. QED
    BY <1>1, StepKinds DEF Rests, Begins, Passes, Loads, Leaves, TablesUnchanged

LEMMA MobileStep == TypeInv /\ MobileRowsAgree /\ [Next]_vars => MobileRowsAgree'
<1> SUFFICES ASSUME TypeInv, MobileRowsAgree, [Next]_vars, NEW k \in Keys,
                    attendance'[k] # None, attendance'[k].source = "mobile"
             PROVE  RowAgrees(k, attendance'[k])
    BY DEF MobileRowsAgree, RowMatchesItsTimes, RowAgrees, DayMetrics, LeaveMinutes
<1>1. CASE attendance'[k] = attendance[k]
    BY <1>1, RowMatchesIffAgrees DEF MobileRowsAgree
<1>2. CASE \E r \in Requests, row \in Row :
               /\ Commits(r) /\ call[r].who \in Employees /\ k = Key(r)
               /\ Writes(r, row) /\ attendance'[k] = row
    BY <1>2 DEF Writes
<1>3. QED
    BY <1>1, <1>2, DayWritten

\* The minutes and the status of a row selfCheckIn or selfCheckOut wrote last are those of
\* its own two times, whatever the call had read.
THEOREM MobileRowsCorrect == Spec => []MobileRowsAgree
<1>1. Init => MobileRowsAgree
    BY DEF Init, MobileRowsAgree
<1>2. QED
    BY <1>1, TypeInvInit, TypeInvNext, MobileStep, PTL DEF Spec

(***************************************************************************)
(* Sessions, and what a commit leaves of other days.                       *)
(***************************************************************************)
SessionOf(r) ==
    [employee |-> call[r].who, date |-> Day(call[r].at),
     checkIn |-> call[r].at, checkOut |-> None, worked |-> 0]

\* A commit opens a session, closes one, or leaves them alone.
LEMMA CommitSessions ==
    ASSUME TypeInv, NEW r \in Requests, CommitStep(r)
    PROVE  \/ session' = session
           \/ /\ call[r].path = "mobile" /\ call[r].type = "check_in"
              /\ session' = [session EXCEPT ![r] = SessionOf(r)]
           \/ \A k : OpenSessions(k)' \subseteq OpenSessions(k)
<1>1. CASE CommitSelfCheckOut(r)
    <2> DEFINE s == call[r].session
               worked == MinutesDifference(session[s].checkIn, call[r].at)
               closed == [session[s] EXCEPT !.checkOut = call[r].at, !.worked = worked]
    <2>1. s \in Requests /\ session[s] # None /\ session[s] \in Session /\ call[r].at \in Times
        BY <1>1 DEF TypeInv, TypeOK, CallsSound, SoundCall, Call, CommitSelfCheckOut
    <2>2. closed.checkOut # None
        BY <2>1, AttendanceAssumption, NoneIsNotATime DEF Session, Times
    <2>3. session' = [session EXCEPT ![s] = closed]
        BY <1>1 DEF CommitSelfCheckOut
    <2> HIDE DEF closed
    <2>4. session'[s] = closed /\ \A q \in Requests : q # s => session'[q] = session[q]
        BY <2>1, <2>3 DEF TypeInv, TypeOK
    <2>5. QED
        BY <2>2, <2>4 DEF OpenSessions
<1>2. CASE CommitSelfCheckIn(r)
    BY <1>2 DEF CommitSelfCheckIn, SessionOf
<1>3. QED
    BY <1>1, <1>2 DEF CommitStep, CommitCheckIn, CommitCheckOut, CommitIngest

\* A commit writes no session and no row of another day, but to close a session.
LEMMA SessionsKept ==
    ASSUME TypeInv, NEW r \in Requests, Commits(r), NEW k, k # Key(r),
           k = <<k[1], k[2]>>
    PROVE  OpenSessions(k)' \subseteq OpenSessions(k)
<1>1. CASE session' = [session EXCEPT ![r] = SessionOf(r)]
    <2>1. /\ session'[r] = SessionOf(r)
          /\ \A q \in Requests : q # r => session'[q] = session[q]
        BY <1>1 DEF TypeInv, TypeOK
    <2>2. ~(SessionOf(r).employee = k[1] /\ SessionOf(r).date = k[2])
        BY DEF SessionOf, Key
    <2>3. QED
        BY <2>1, <2>2 DEF OpenSessions
<1>2. CASE session' = session
    BY <1>2 DEF OpenSessions
<1>3. QED
    BY <1>1, <1>2, CommitSessions DEF Commits

LEMMA DayKept ==
    ASSUME TypeInv, NEW r \in Requests, Commits(r), NEW k \in Keys, k # Key(r)
    PROVE  attendance'[k] = attendance[k]
<1>1. CASE call[r].who \in Employees
    <2>1. PICK row \in Row : Writes(r, row)
        BY <1>1, CommitWrites DEF Commits
    <2>2. QED
        BY <2>1 DEF Writes, TypeInv, TypeOK
<1>2. CASE call[r].who \notin Employees
    BY <1>2, CommitWrites DEF Commits
<1>3. QED
    BY <1>1, <1>2

(***************************************************************************)
(* Calls on an employee-day that do not overlap: what a call has read is   *)
(* still so when it commits.                                               *)
(***************************************************************************)

\* Only one call of an employee-day may still write.
Alone ==
    \A q, r \in Requests : Underway(q) /\ Underway(r) /\ Key(q) = Key(r) => q = r

\* What it has read is the row as it is, and it was not refused.
ReadsFresh ==
    \A r \in Requests :
        call[r].phase = "ready" => call[r].row = RowNow(r) /\ ~Refuses(r, call[r].row)

\* An employee about to check in with the app has no open session.
NoneOpen ==
    \A r \in Requests :
        /\ call[r].phase \in {"checked", "ready"}
        /\ call[r].path = "mobile" /\ call[r].type = "check_in"
        => OpenSessions(Key(r)) = {}

SerialInv == Alone /\ ReadsFresh /\ NoneOpen

LEMMA AloneStep ==
    ASSUME ~Overlap, TypeInv, Alone, [Next]_vars
    PROVE  Alone'
<1>1. CASE Rests
    BY <1>1 DEF Rests, Alone, Underway, InFlight, Key
<1>2. ASSUME NEW r \in Requests, OthersKeep(r),
             \/ Begins(r)
             \/ SameEvent(r) /\ (Underway(r)' => Underway(r))
      PROVE  Alone'
    <2>1. \A q \in Requests : q # r => /\ Underway(q)' <=> Underway(q)
                                       /\ Key(q)' = Key(q)
        BY <1>2 DEF OthersKeep, Underway, InFlight, Key
    <2>2. CASE Begins(r)
        <3>1. Key(r)' = <<call'[r].who, Day(call'[r].at)>>
            BY DEF Key
        <3>2. \A q \in Requests : Underway(q) => Key(q) # Key(r)'
            BY <2>2, <3>1 DEF Begins, MayStart
        <3>3. QED
            BY <2>1, <3>2 DEF Alone
    <2>3. CASE SameEvent(r) /\ (Underway(r)' => Underway(r))
        <3>1. Key(r)' = Key(r)
            BY <2>3 DEF SameEvent, Key
        <3>2. QED
            BY <2>1, <2>3, <3>1 DEF Alone
    <2>4. QED
        BY <1>2, <2>2, <2>3
<1>3. ASSUME NEW r \in Requests, Passes(r) \/ Loads(r) \/ Leaves(r) \/ Commits(r)
      PROVE  SameEvent(r) /\ OthersKeep(r) /\ (Underway(r)' => Underway(r))
    BY <1>3 DEF Passes, Loads, Leaves, Commits, Underway, InFlight, InFlightPhases
<1>4. QED
    BY <1>1, <1>2, <1>3, StepKinds DEF Begins

\* While a call is about to write, no other writes its day.
LEMMA DayIsMine ==
    ASSUME TypeInv, Alone, NEW q \in Requests, Underway(q),
           NEW r \in Requests, Commits(r), q # r
    PROVE  Key(q) # Key(r)
BY DEF Alone, Commits, Underway, InFlight, InFlightPhases

LEMMA FreshStep ==
    ASSUME TypeInv, Alone, ReadsFresh, [Next]_vars
    PROVE  ReadsFresh'
<1> SUFFICES ASSUME NEW q \in Requests, call'[q].phase = "ready"
             PROVE  (call[q].row = RowNow(q) /\ ~Refuses(q, call[q].row))'
    BY DEF ReadsFresh
<1>1. CASE call'[q] = call[q] /\ RowNow(q)' = RowNow(q)
    BY <1>1 DEF ReadsFresh, Refuses
<1>2. CASE Loads(q)
    BY <1>2 DEF Loads, RowNow, Refuses, SameEvent, Key, TablesUnchanged
<1>3. ASSUME NEW r \in Requests, Commits(r)
      PROVE  call'[q] = call[q] /\ RowNow(q)' = RowNow(q)
    <2>1. q # r /\ call'[q] = call[q]
        BY <1>3 DEF Commits, OthersKeep
    <2>2. Underway(q)
        BY <2>1 DEF Underway, InFlight, InFlightPhases
    <2>3. call[q].who \in Employees => attendance'[Key(q)] = attendance[Key(q)]
        BY <1>3, <2>1, <2>2, DayIsMine, DayKept, KeyType DEF TypeInv
    <2>4. QED
        BY <2>1, <2>3 DEF RowNow, Key
<1>4. QED
    BY <1>1, <1>2, <1>3, StepKinds
       DEF Rests, Begins, Passes, Loads, Leaves, OthersKeep, TablesUnchanged, RowNow, Key

LEMMA NoneOpenStep ==
    ASSUME TypeInv, Alone, NoneOpen, [Next]_vars
    PROVE  NoneOpen'
<1> SUFFICES ASSUME NEW q \in Requests, call'[q].phase \in {"checked", "ready"},
                    call'[q].path = "mobile", call'[q].type = "check_in"
             PROVE  OpenSessions(Key(q))' = {}
    BY DEF NoneOpen
<1>1. CASE call'[q] = call[q] /\ session' = session
    BY <1>1 DEF NoneOpen, OpenSessions, Key
<1>2. CASE Loads(q) \/ Passes(q)
    BY <1>2 DEF NoneOpen, Loads, Passes, SameEvent, OpenSessions, Key, TablesUnchanged
<1>3. ASSUME NEW r \in Requests, Commits(r)
      PROVE  OpenSessions(Key(q))' = {}
    <2>1. q # r /\ call'[q] = call[q]
        BY <1>3 DEF Commits, OthersKeep
    <2>2. Underway(q) /\ OpenSessions(Key(q)) = {} /\ Key(q)' = Key(q)
        BY <2>1 DEF NoneOpen, Underway, InFlight, InFlightPhases, Key
    <2>3. PICK k : k = Key(q)
        OBVIOUS
    <2>4. k # Key(r) /\ k = <<k[1], k[2]>>
        <3>1. k # Key(r)
            BY <1>3, <2>1, <2>2, <2>3, DayIsMine
        <3>2. QED
            BY <2>3, <3>1 DEF Key
    <2>5. OpenSessions(k)' \subseteq OpenSessions(k)
        BY <1>3, <2>4, SessionsKept
    <2>6. OpenSessions(k) = {}
        BY <2>2, <2>3
    <2>7. k = Key(q)'
        BY <2>2, <2>3
    <2>8. QED
        BY <2>5, <2>6, <2>7 DEF OpenSessions
<1>4. QED
    BY <1>1, <1>2, <1>3, StepKinds
       DEF Rests, Begins, Passes, Loads, Leaves, OthersKeep, TablesUnchanged

LEMMA SerialStep ==
    ASSUME ~Overlap PROVE TypeInv /\ SerialInv /\ [Next]_vars => SerialInv'
BY AloneStep, FreshStep, NoneOpenStep DEF SerialInv

LEMMA SerialInit == Init => SerialInv
BY DEF Init, SerialInv, Alone, ReadsFresh, NoneOpen, Underway, InFlight, InFlightPhases, Idle, NewCall

LEMMA SerialCorrect ==
    ASSUME ~Overlap PROVE Spec => [](TypeInv /\ SerialInv)
BY SerialInit, SerialStep, TypeInvInit, TypeInvNext, PTL DEF Spec

\* A commit of a call that was alone on its day collapses its event into the day.
LEMMA SerialWrites ==
    ASSUME TypeInv, SerialInv, NEW r \in Requests, Commits(r), call[r].who \in Employees,
           NEW row \in Row, Writes(r, row)
    PROVE  /\ row.checkIn = CollapseCheckIn(attendance[Key(r)], call[r].type, call[r].at)
           /\ row.checkOut = CollapseCheckOut(attendance[Key(r)], call[r].type, call[r].at)
           /\ row.source # "terminal" => RowAgrees(Key(r), row)
<1>1. ReadsNow(r)
    BY DEF SerialInv, ReadsFresh, Commits, RowNow, ReadsNow
<1>2. QED
    BY <1>1 DEF Writes, CollapsedIn, CollapsedOut, ReadsNow

LEMMA ServiceRowsStep ==
    ASSUME TypeInv, SerialInv, ServiceRowsAgree, [Next]_vars
    PROVE  ServiceRowsAgree'
<1> SUFFICES ASSUME NEW k \in Keys,
                    attendance'[k] # None, attendance'[k].source # "terminal"
             PROVE  RowAgrees(k, attendance'[k])
    BY DEF ServiceRowsAgree, RowMatchesItsTimes, RowAgrees, DayMetrics, LeaveMinutes
<1>1. CASE attendance'[k] = attendance[k]
    BY <1>1, RowMatchesIffAgrees DEF ServiceRowsAgree
<1>2. CASE \E r \in Requests, row \in Row :
               /\ Commits(r) /\ call[r].who \in Employees /\ k = Key(r)
               /\ Writes(r, row) /\ attendance'[k] = row
    BY <1>2, SerialWrites
<1>3. QED
    BY <1>1, <1>2, DayWritten

\* Where the calls on an employee-day follow one another, a row
\* AttendanceService wrote last agrees with its own times, the operator's
\* check-in and check-out included, which write one time and derive the minutes
\* from the other as they read it.
THEOREM ServiceRowsCorrect ==
    ASSUME ~Overlap PROVE Spec => []ServiceRowsAgree
<1>1. Init => ServiceRowsAgree
    BY DEF Init, ServiceRowsAgree
<1>2. TypeInv /\ SerialInv /\ ServiceRowsAgree /\ [Next]_vars => ServiceRowsAgree'
    BY ServiceRowsStep
<1>3. QED
    BY <1>1, <1>2, SerialCorrect, PTL DEF Spec

(***************************************************************************)
(* One open session.                                                       *)
(***************************************************************************)
LEMMA OneOpenStep ==
    ASSUME TypeInv, SerialInv, OneOpenSession, [Next]_vars
    PROVE  OneOpenSession'
<1>1. CASE session' = session
    BY <1>1 DEF OneOpenSession, OpenSessions
<1>2. ASSUME \A k : OpenSessions(k)' \subseteq OpenSessions(k)
      PROVE  OneOpenSession'
    BY <1>2 DEF OneOpenSession
<1>3. ASSUME NEW r \in Requests, Commits(r),
             call[r].path = "mobile", call[r].type = "check_in",
             session' = [session EXCEPT ![r] = SessionOf(r)]
      PROVE  OneOpenSession'
    <2>1. OpenSessions(Key(r)) = {}
        BY <1>3 DEF SerialInv, NoneOpen, Commits
    <2>2. /\ session'[r] = SessionOf(r)
          /\ \A q \in Requests : q # r => session'[q] = session[q]
        BY <1>3 DEF TypeInv, TypeOK
    <2>3. OpenSessions(Key(r))' \subseteq {r}
        <3>1. ASSUME NEW s \in Requests, s # r, session[s] # None,
                     session[s].employee = Key(r)[1], session[s].date = Key(r)[2]
              PROVE  session[s].checkOut # None
            BY <2>1, <3>1 DEF OpenSessions
        <3>2. Key(r)' = Key(r)
            BY <1>3 DEF Commits, SameEvent, Key
        <3>3. QED
            BY <2>2, <3>1, <3>2 DEF OpenSessions
    <2>4. ASSUME NEW k \in Keys, k # Key(r)
          PROVE  OpenSessions(k)' \subseteq OpenSessions(k)
        <3>1. k = <<k[1], k[2]>>
            BY DEF Keys
        <3>2. QED
            BY <1>3, <2>4, <3>1, SessionsKept
    <2>5. Key(r)' = Key(r)
        BY <1>3 DEF Commits, SameEvent, Key
    <2>6. QED
        BY <2>3, <2>4, <2>5 DEF OneOpenSession
<1>4. QED
    BY <1>1, <1>2, <1>3, StepKinds, CommitSessions
       DEF Rests, Begins, Passes, Loads, Leaves, Commits, TablesUnchanged

\* Where the calls on an employee-day follow one another, an employee has at
\* most one open session a day: what selfCheckIn found when it looked for one
\* is still so when it opens the next.
THEOREM OneOpenCorrect ==
    ASSUME ~Overlap PROVE Spec => []OneOpenSession
<1>1. Init => OneOpenSession
    BY DEF Init, OneOpenSession, OpenSessions
<1>2. TypeInv /\ SerialInv /\ OneOpenSession /\ [Next]_vars => OneOpenSession'
    BY OneOpenStep
<1>3. QED
    BY <1>1, <1>2, SerialCorrect, PTL DEF Spec

(***************************************************************************)
(* No accepted event is lost.                                              *)
(***************************************************************************)

\* A collapsed time is no worse than the event's and than the one before.
LEMMA CollapseBounds ==
    ASSUME NEW row \in Row \cup {None}, NEW type, NEW t \in Times
    PROVE  LET in == CollapseCheckIn(row, type, t)
               out == CollapseCheckOut(row, type, t)
           IN  /\ type = "check_in" => in # None /\ in <= t
               /\ CheckInOf(row) # None => in # None /\ in <= CheckInOf(row)
               /\ type = "check_out" => out # None /\ out >= t
               /\ CheckOutOf(row) # None => out # None /\ out >= CheckOutOf(row)
<1>1. t \in Int /\ t # None
    BY AttendanceAssumption, NoneIsNotATime DEF Times
<1>2. CheckInOf(row) \in Int \cup {None} /\ CheckOutOf(row) \in Int \cup {None}
    BY TimesOfType, OptionalTimeType
<1>3. QED
    BY <1>1, <1>2 DEF CollapseCheckIn, CollapseCheckOut

\* What the day keeps of the event of call q.
EventKept(q) ==
    /\ call[q].type = "check_in" =>
           /\ CheckInOf(attendance[Key(q)]) # None
           /\ CheckInOf(attendance[Key(q)]) <= call[q].at
    /\ call[q].type = "check_out" =>
           /\ CheckOutOf(attendance[Key(q)]) # None
           /\ CheckOutOf(attendance[Key(q)]) >= call[q].at

\* What a commit does to a day: the times of the collapsed event, and no other day's.
LEMMA SerialCommit ==
    ASSUME TypeInv, SerialInv, NEW r \in Requests, Commits(r)
    PROVE  \/ attendance' = attendance /\ call[r].who \notin Employees
           \/ /\ call[r].who \in Employees /\ Key(r) \in Keys
              /\ CheckInOf(attendance'[Key(r)])
                     = CollapseCheckIn(attendance[Key(r)], call[r].type, call[r].at)
              /\ CheckOutOf(attendance'[Key(r)])
                     = CollapseCheckOut(attendance[Key(r)], call[r].type, call[r].at)
              /\ \A k \in Keys : k # Key(r) => attendance'[k] = attendance[k]
<1>1. CASE call[r].who \notin Employees
    BY <1>1, CommitWrites DEF Commits
<1>2. CASE call[r].who \in Employees
    <2>1. PICK row \in Row : Key(r) \in Keys /\ Writes(r, row)
        BY <1>2, CommitWrites DEF Commits
    <2>2. /\ attendance'[Key(r)] = row /\ row # None
          /\ \A k \in Keys : k # Key(r) => attendance'[k] = attendance[k]
        BY <2>1, NoneIsNoRecord DEF Writes, TypeInv, TypeOK
    <2>3. QED
        BY <1>2, <2>1, <2>2, SerialWrites DEF CheckInOf, CheckOutOf
<1>3. QED
    BY <1>1, <1>2

LEMMA NoEventLostStep ==
    ASSUME TypeInv, SerialInv, NoEventLost, [Next]_vars
    PROVE  NoEventLost'
<1> SUFFICES ASSUME NEW q \in Requests, Accepted(q)', call'[q].who \in Employees
             PROVE  EventKept(q)'
    BY DEF NoEventLost, EventKept
<1>1. ASSUME call'[q] = call[q] \/ Leaves(q), attendance' = attendance
      PROVE  EventKept(q)'
    <2>1. Accepted(q) /\ SameEvent(q)
        BY <1>1 DEF Leaves, Accepted, AcceptedPhases, SameEvent
    <2>2. call[q].who \in Employees /\ EventKept(q)
        BY <2>1 DEF NoEventLost, EventKept, SameEvent
    <2>3. QED
        BY <1>1, <2>1, <2>2 DEF EventKept, SameEvent, Key
<1>2. ASSUME NEW r \in Requests, Commits(r) PROVE EventKept(q)'
    <2>1. CASE q = r
        <3>1. call[r].who \in Employees /\ SameEvent(r)
            BY <1>2, <2>1 DEF Commits, SameEvent
        <3>2. call[r].at \in Times /\ attendance[Key(r)] \in Row \cup {None}
            BY <3>1, KeyType DEF TypeInv, TypeOK, Call
        <3>3. QED
            BY <1>2, <2>1, <3>1, <3>2, SerialCommit, CollapseBounds
               DEF EventKept, SameEvent, Key
    <2>2. CASE q # r
        <3>1. call'[q] = call[q]
            BY <1>2, <2>2 DEF Commits, OthersKeep
        <3>2. call[q].who \in Employees /\ EventKept(q) /\ Key(q) \in Keys
            BY <3>1, KeyType DEF NoEventLost, EventKept, Accepted, TypeInv
        <3>3. CASE attendance'[Key(q)] = attendance[Key(q)]
            BY <3>1, <3>2, <3>3 DEF EventKept, Key
        <3>4. CASE Key(q) = Key(r) /\ call[r].who \in Employees
            <4> DEFINE old == attendance[Key(q)]
                       new == attendance'[Key(q)]
            <4>1. old \in Row \cup {None} /\ call[r].at \in Times
                BY <3>2 DEF TypeInv, TypeOK, Call
            <4>2. /\ CheckInOf(old) # None =>
                         CheckInOf(new) # None /\ CheckInOf(new) <= CheckInOf(old)
                  /\ CheckOutOf(old) # None =>
                         CheckOutOf(new) # None /\ CheckOutOf(new) >= CheckOutOf(old)
                BY <1>2, <3>4, <4>1, SerialCommit, CollapseBounds
            <4>3. call[q].at \in Int
                BY AttendanceAssumption DEF TypeInv, TypeOK, Call, Times
            <4>4. /\ CheckInOf(old) \in Int \cup {None} /\ CheckOutOf(old) \in Int \cup {None}
                  /\ CheckInOf(new) \in Int \cup {None} /\ CheckOutOf(new) \in Int \cup {None}
                <5>1. new \in Row \cup {None}
                    BY <3>2, TypeInvNext DEF TypeInv, TypeOK
                <5>2. QED
                    BY <4>1, <5>1, TimesOfType, OptionalTimeType
            <4>5. QED
                BY <3>1, <3>2, <4>2, <4>3, <4>4 DEF EventKept, Key
        <3>5. QED
            BY <1>2, <3>2, <3>3, <3>4, SerialCommit
    <2>3. QED
        BY <2>1, <2>2
<1>3. QED
    BY <1>1, <1>2, StepKinds
       DEF Rests, Begins, Passes, Loads, Leaves, OthersKeep, TablesUnchanged, Accepted,
           AcceptedPhases

\* Where the calls on an employee-day follow one another, no event an operator,
\* an employee or a terminal was answered "accepted" for is missing from the
\* day, in whatever order and however late the events come in by the three
\* paths.
THEOREM NoEventLostCorrect ==
    ASSUME ~Overlap PROVE Spec => []NoEventLost
<1>1. Init => NoEventLost
    BY DEF Init, NoEventLost, Accepted, AcceptedPhases, Idle, NewCall
<1>2. TypeInv /\ SerialInv /\ NoEventLost /\ [Next]_vars => NoEventLost'
    BY NoEventLostStep
<1>3. QED
    BY <1>1, <1>2, SerialCorrect, PTL DEF Spec

(***************************************************************************)
(* The day's row implements DayRecord.                                     *)
(***************************************************************************)
FirstIn == [k \in Keys |-> CheckInOf(attendance[k])]
LastOut == [k \in Keys |-> CheckOutOf(attendance[k])]

LEMMA PromiseStutters ==
    ASSUME \A k \in Keys : /\ CheckInOf(attendance'[k]) = CheckInOf(attendance[k])
                           /\ CheckOutOf(attendance'[k]) = CheckOutOf(attendance[k])
    PROVE  FirstIn' = FirstIn /\ LastOut' = LastOut
BY DEF FirstIn, LastOut

\* An event collapsed into a day arrives, departs, or changes neither time.
LEMMA PromiseCommits ==
    ASSUME TypeInv, NEW k \in Keys, NEW t \in Times, NEW type,
           CheckInOf(attendance'[k]) = CollapseCheckIn(attendance[k], type, t),
           CheckOutOf(attendance'[k]) = CollapseCheckOut(attendance[k], type, t),
           \A other \in Keys : other # k => attendance'[other] = attendance[other]
    PROVE  Promise!Next \/ (FirstIn' = FirstIn /\ LastOut' = LastOut)
<1>1. CASE /\ type = "check_in"
           /\ CheckInOf(attendance[k]) = None \/ t < CheckInOf(attendance[k])
    <2>1. CheckInOf(attendance'[k]) = t
          /\ CheckOutOf(attendance'[k]) = CheckOutOf(attendance[k])
        BY <1>1 DEF CollapseCheckIn, CollapseCheckOut
    <2>2. Promise!Earlier(t, FirstIn[k])
        BY <1>1 DEF FirstIn, Promise!Earlier
    <2>3. FirstIn' = [FirstIn EXCEPT ![k] = t] /\ LastOut' = LastOut
        BY <2>1 DEF FirstIn, LastOut
    <2>4. Promise!Arrive(k, t)
        BY <2>2, <2>3 DEF Promise!Arrive, FirstIn, LastOut
    <2>5. QED
        BY <2>4 DEF Promise!Next
<1>2. CASE /\ type = "check_out"
           /\ CheckOutOf(attendance[k]) = None \/ t > CheckOutOf(attendance[k])
    <2>1. CheckOutOf(attendance'[k]) = t
          /\ CheckInOf(attendance'[k]) = CheckInOf(attendance[k])
        BY <1>2 DEF CollapseCheckIn, CollapseCheckOut
    <2>2. Promise!Later(t, LastOut[k])
        BY <1>2 DEF LastOut, Promise!Later
    <2>3. LastOut' = [LastOut EXCEPT ![k] = t] /\ FirstIn' = FirstIn
        BY <2>1 DEF FirstIn, LastOut
    <2>4. Promise!Depart(k, t)
        BY <2>2, <2>3 DEF Promise!Depart, FirstIn, LastOut
    <2>5. QED
        BY <2>4 DEF Promise!Next
<1>3. CASE /\ ~(/\ type = "check_in"
                /\ CheckInOf(attendance[k]) = None \/ t < CheckInOf(attendance[k]))
           /\ ~(/\ type = "check_out"
                /\ CheckOutOf(attendance[k]) = None \/ t > CheckOutOf(attendance[k]))
    <2>1. /\ CheckInOf(attendance'[k]) = CheckInOf(attendance[k])
          /\ CheckOutOf(attendance'[k]) = CheckOutOf(attendance[k])
        BY <1>3 DEF CollapseCheckIn, CollapseCheckOut
    <2>2. QED
        BY <2>1, PromiseStutters
<1>4. QED
    BY <1>1, <1>2, <1>3

LEMMA PromiseStep ==
    ASSUME TypeInv, SerialInv, [Next]_vars
    PROVE  [Promise!Next]_<<FirstIn, LastOut>>
<1>1. CASE attendance' = attendance
    BY <1>1, PromiseStutters
<1>2. ASSUME NEW r \in Requests, Commits(r), attendance' # attendance
      PROVE  Promise!Next \/ (FirstIn' = FirstIn /\ LastOut' = LastOut)
    <2>1. PICK k, type, t : k = Key(r) /\ type = call[r].type /\ t = call[r].at
        OBVIOUS
    <2>2. t \in Times
        BY <2>1 DEF TypeInv, TypeOK, Call
    <2>3. /\ k \in Keys
          /\ CheckInOf(attendance'[k]) = CollapseCheckIn(attendance[k], type, t)
          /\ CheckOutOf(attendance'[k]) = CollapseCheckOut(attendance[k], type, t)
          /\ \A other \in Keys : other # k => attendance'[other] = attendance[other]
        BY <1>2, <2>1, SerialCommit
    <2>4. QED
        BY <2>2, <2>3, PromiseCommits
<1>3. QED
    BY <1>1, <1>2, StepKinds DEF Rests, Begins, Passes, Loads, Leaves, TablesUnchanged

\* Where the calls on an employee-day follow one another, the three paths
\* together keep what an attendance day promises: every step of theirs is a
\* first arrival, a last departure, or nothing.
THEOREM DayRecordImplemented ==
    ASSUME ~Overlap PROVE Spec => KeepsDayRecord
<1>1. Init => Promise!Init
    BY DEF Init, Promise!Init, CheckInOf, CheckOutOf
<1>2. TypeInv /\ SerialInv /\ [Next]_vars => [Promise!Next]_<<FirstIn, LastOut>>
    BY PromiseStep
<1>3. QED
    BY <1>1, <1>2, SerialCorrect, PTL DEF Spec, KeepsDayRecord, Promise!Spec, FirstIn, LastOut
=============================================================================
