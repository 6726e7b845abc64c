------------------------------ MODULE Reminders ------------------------------
(***************************************************************************)
(* The reminders of attendance.  Every half hour a pass lists the          *)
(* employees at work and, one by one, tells those whose day is over that   *)
(* they have not checked in, or not checked out, unless they are on leave  *)
(* or have been told already.  An error at one employee is caught and      *)
(* leaves the others alone.  Nothing keeps a pass from starting while      *)
(* another is under way.  What tells a pass that an employee was told is a *)
(* notification, a row like any other that the office may write, move,     *)
(* retitle or delete.  The leaves are those of EmployeeLeave; one day is   *)
(* modelled, Today.                                                        *)
(***************************************************************************)
EXTENDS EmployeeLeave, FiniteSets

CONSTANTS
    Today,          \* the day
    Scheduled,      \* the employees with an active schedule, own or default, and work Today
    Passes,         \* how many passes may be under way together
    MaxFailures,    \* bound: how often a pass fails at an employee, or altogether
    MaxEdits        \* bound: how many notifications of such a title the office writes

Titles == {"absent", "noCheckout"}

\* findFirst by title, notification row and push, for one employee at a time.
PassPhases == {"idle", "next", "day", "sent", "send"}

Pass == [phase : PassPhases, todo : SUBSET Employees, at : Employees \cup {None},
         title : Titles \cup {None}]

ASSUME ReminderAssumption ==
    /\ Today \in Days
    /\ Scheduled \subseteq Employees
    /\ IsFiniteSet(Passes)
    /\ MaxFailures \in Nat /\ MaxEdits \in Nat
    /\ None \notin Titles

VARIABLES
    over,       \* the employees whose scheduled end of Today has passed
    day,        \* day[e]: whether e has checked in, and out, Today
    notices,    \* notices[e][t]: the notifications of Today with title t that e has
    reminded,   \* reminded[e][t]: how often passes have sent e the reminder t since the
                \* office last left e without a notification of that title
    edits,      \* how many of these notifications the office has written
    pass,       \* pass[p]: the state of pass p
    failures    \* how often a pass has failed

reminderVars == <<over, day, notices, reminded, edits, pass, failures>>

IdlePass == [phase |-> "idle", todo |-> {}, at |-> None, title |-> None]

ReminderTypeOK ==
    /\ over \subseteq Employees
    /\ day \in [Employees -> {"none", "in", "out"}]
    /\ {notices, reminded} \subseteq [Employees -> [Titles -> Nat]]
    /\ edits \in 0 .. MaxEdits
    /\ pass \in [Passes -> Pass]
    /\ failures \in 0 .. MaxFailures

\* Passes that are to send e the title, having seen that e had not got it.
Sending(e, t) ==
    {p \in Passes : pass[p].phase = "send" /\ pass[p].at = e /\ pass[p].title = t}

\* An employee gets a reminder at most as often as passes are under way together: once,
\* unless one pass starts before another has come to its end.  Only the office makes it
\* more, by deleting, moving or retitling the last notification that tells the passes;
\* from then on it is as often again.
NoticesBounded ==
    \A e \in Employees, t \in Titles : reminded[e][t] <= Cardinality(Passes)

\* A reminder goes to an employee who was to work and whose day was over, and the one
\* about the check-out to nobody who has not checked in, though the employee may come
\* and go and leaves be granted while a pass is under way.
NoticesJustified ==
    \A e \in Employees :
        /\ \A t \in Titles : reminded[e][t] > 0 => e \in Scheduled \cap over
        /\ reminded[e]["noCheckout"] > 0 => day[e] # "none"

\* The process starts at any time of the day.
ReminderInit ==
    /\ over \in SUBSET Scheduled
    /\ day \in [Employees -> {"none", "in", "out"}]
    /\ notices = [e \in Employees |-> [t \in Titles |-> 0]]
    /\ reminded = notices
    /\ edits = 0
    /\ pass = [p \in Passes |-> IdlePass]
    /\ failures = 0

(***************************************************************************)
(* The employees' day.                                                     *)
(***************************************************************************)
CheckIn(e) ==
    /\ day[e] = "none"
    /\ day' = [day EXCEPT ![e] = "in"]
    /\ UNCHANGED <<over, notices, reminded, edits, pass, failures>>

CheckOut(e) ==
    /\ day[e] = "in"
    /\ day' = [day EXCEPT ![e] = "out"]
    /\ UNCHANGED <<over, notices, reminded, edits, pass, failures>>

DayEnds(e) ==
    /\ e \in Scheduled
    /\ over' = over \cup {e}
    /\ UNCHANGED <<day, notices, reminded, edits, pass, failures>>

(***************************************************************************)
(* The office's notifications, as far as they count as reminders of Today. *)
(* A row is loaded first, to see whether the actor may; what is written by *)
(* id then are the fields that were sent.                                  *)
(***************************************************************************)
OfficeWrites(new) ==
    /\ edits < MaxEdits
    /\ edits' = edits + 1
    /\ notices' = new
    /\ reminded' = [e \in Employees |-> [t \in Titles |->
                        IF new[e][t] = 0 THEN 0 ELSE reminded[e][t]]]
    /\ UNCHANGED <<over, day, pass, failures>>

Added(rows, e, t) == [rows EXCEPT ![e][t] = @ + 1]
Taken(rows, e, t) == [rows EXCEPT ![e][t] = @ - 1]

\* One is created, or becomes one by its new title or user.
AddNotice(e, t) == OfficeWrites(Added(notices, e, t))

\* One is deleted, or is one no longer by its new title or user.
TakeNotice(e, t) == notices[e][t] > 0 /\ OfficeWrites(Taken(notices, e, t))

\* One becomes another: it gets another title, another user or both.
MoveNotice(e, t) ==
    \E f \in Employees, u \in Titles :
        notices[e][t] > 0 /\ OfficeWrites(Added(Taken(notices, e, t), f, u))

(***************************************************************************)
(* A pass.                                                                 *)
(***************************************************************************)
InPass(p, phase, next) ==
    /\ pass[p].phase = phase
    /\ pass' = [pass EXCEPT ![p] = next]
    /\ UNCHANGED <<over, day, edits, failures>>

NextOne(p) == [IdlePass EXCEPT !.phase = "next", !.todo = pass[p].todo]

AtWork(e) == staff[e].enabled /\ staff[e].company # None

\* The cron fires: active employees of a company, whatever becomes of them later.
StartPass(p) ==
    /\ InPass(p, "idle", [IdlePass EXCEPT !.phase = "next", !.todo = {e \in Employees : AtWork(e)}])
    /\ UNCHANGED <<notices, reminded>>

\* Slip: whether the day is over is not asked.
TakeEarly(p) ==
    /\ \E e \in pass[p].todo :
          LET rest == [NextOne(p) EXCEPT !.todo = @ \ {e}]
          IN  InPass(p, "next", IF e \in Scheduled /\ ~OnLeave(e, Today)
                                THEN [rest EXCEPT !.phase = "day", !.at = e] ELSE rest)
    /\ UNCHANGED <<notices, reminded>>

\* The next employee; one who does not work today, still has time or is on leave is
\* passed over.
TakeEmployee(p) ==
    /\ \E e \in pass[p].todo :
          LET rest == [NextOne(p) EXCEPT !.todo = @ \ {e}]
          IN  InPass(p, "next", IF e \in Scheduled \cap over /\ ~OnLeave(e, Today)
                                THEN [rest EXCEPT !.phase = "day", !.at = e] ELSE rest)
    /\ UNCHANGED <<notices, reminded>>

\* The attendance row of the day says which reminder is due, if any.
ReadDay(p) ==
    /\ InPass(p, "day",
              CASE day[pass[p].at] = "none" ->
                       [pass[p] EXCEPT !.phase = "sent", !.title = "absent"]
                [] day[pass[p].at] = "in" ->
                       [pass[p] EXCEPT !.phase = "sent", !.title = "noCheckout"]
                [] OTHER -> NextOne(p))
    /\ UNCHANGED <<notices, reminded>>

\* Slip: any notification is looked for, whatever its title.
FindAnyNotice(p) ==
    /\ InPass(p, "sent", IF \E t \in Titles : notices[pass[p].at][t] > 0 THEN NextOne(p)
                         ELSE [pass[p] EXCEPT !.phase = "send"])
    /\ UNCHANGED <<notices, reminded>>

\* Slip: nothing is looked for.
FindNothing(p) ==
    /\ InPass(p, "sent", [pass[p] EXCEPT !.phase = "send"])
    /\ UNCHANGED <<notices, reminded>>

\* notifyOnce looks for a notification with the title since the start of the day ...
FindNotice(p) ==
    /\ InPass(p, "sent", IF notices[pass[p].at][pass[p].title] > 0 THEN NextOne(p)
                         ELSE [pass[p] EXCEPT !.phase = "send"])
    /\ UNCHANGED <<notices, reminded>>

\* ... and creates one if there is none.
SendNotice(p) ==
    /\ InPass(p, "send", NextOne(p))
    /\ notices' = [notices EXCEPT ![pass[p].at][pass[p].title] = @ + 1]
    /\ reminded' = [reminded EXCEPT ![pass[p].at][pass[p].title] = @ + 1]

EndPass(p) ==
    /\ pass[p].todo = {}
    /\ InPass(p, "next", IdlePass)
    /\ UNCHANGED <<notices, reminded>>

\* What goes wrong at an employee is caught, and the pass goes on with the next one; a
\* process that stops ends the pass.
FailPass(p) ==
    /\ failures < MaxFailures
    /\ \/ pass[p].at # None /\ pass' = [pass EXCEPT ![p] = NextOne(p)]
       \/ pass[p].phase # "idle" /\ pass' = [pass EXCEPT ![p] = IdlePass]
    /\ failures' = failures + 1
    /\ UNCHANGED <<over, day, notices, reminded, edits>>

PassStep(p) ==
    \/ StartPass(p) \/ TakeEmployee(p) \/ ReadDay(p) \/ FindNotice(p)
    \/ SendNotice(p) \/ EndPass(p)

ReminderNext ==
    /\ \/ \E p \in Passes : PassStep(p) \/ FailPass(p)
       \/ \E e \in Employees : CheckIn(e) \/ CheckOut(e) \/ DayEnds(e)
       \/ \E e \in Employees, t \in Titles :
              AddNotice(e, t) \/ TakeNotice(e, t) \/ MoveNotice(e, t)
    /\ UNCHANGED leaveVars

\* Leaves are granted and answered, and employees edited, while reminders go out.
OfficeInit == LeaveInit /\ ReminderInit
OfficeNext == ReminderNext \/ (LeaveNext /\ UNCHANGED reminderVars)
officeVars ==
    <<staff, leave, told, companyOf, moved, leaveCall,
      over, day, notices, reminded, edits, pass, failures>>

\* The cron keeps firing and a pass goes on to its end.
PassFairness == \A p \in Passes : WF_officeVars(PassStep(p) /\ UNCHANGED leaveVars)

OfficeSpec == OfficeInit /\ [][OfficeNext]_officeVars /\ PassFairness

\* The reminder an employee is due, by the rows as they are now.
Due(e, t) ==
    /\ AtWork(e) /\ e \in Scheduled \cap over /\ ~OnLeave(e, Today)
    /\ day[e] = IF t = "absent" THEN "none" ELSE "in"

\* Whoever stays due a reminder gets a notification of it, whatever went wrong at others
\* or in passes before, and though leaves, attendance, the employee's row and the
\* notifications change meanwhile.
RemindersArrive ==
    \A e \in Employees, t \in Titles : Due(e, t) ~> (notices[e][t] > 0 \/ ~Due(e, t))
=============================================================================
