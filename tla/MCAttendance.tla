---------------------------- MODULE MCAttendance ----------------------------
(***************************************************************************)
(* Small instances of Attendance.  A day is four ticks long, the shift     *)
(* runs from tick 1 to tick 2 of it, so that arriving on time (0 and       *)
(* 1), late (2 and 3), leaving early (0 and 1) and overtime (3) all occur. *)
(***************************************************************************)
EXTENDS Attendance, TLC

MCSchedule == [active |-> TRUE, start |-> 1, end |-> 2, grace |-> 0, workDays |-> {1, 7}]

\* Where a minute is two ticks: the shift runs from the start of the day to its
\* middle, and what is less than a minute is dropped.
MCCoarseSchedule == [MCSchedule EXCEPT !.start = 0, !.end = 1]

MCRate == [c \in Categories |-> IF c = "late" THEN 2 ELSE 1]

\* No leave on day 0, an hourly leave of one minute on day 1.
MCLeave == [k \in Keys |-> IF k[2] = 0 THEN None ELSE 1]

Symmetry == Permutations(Requests)

=============================================================================
