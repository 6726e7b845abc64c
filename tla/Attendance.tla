----------------------------- MODULE Attendance -----------------------------
(***************************************************************************)
(* The day's attendance row and everything that writes it: the operator's  *)
(* check-in and check-out, the employee's own check-in and check-out with  *)
(* a selfie, and the events the turnstile terminals push; and the salary   *)
(* adjustments made from it, which the office edits too.                   *)
(*                                                                         *)
(* Every call is a request that first READS (an open session, a raw log,   *)
(* the day's row), waits - for the face verification service, for the      *)
(* database - and later WRITES what it computed from those reads in one    *)
(* transaction.  PostgreSQL runs at READ COMMITTED and nothing is locked   *)
(* by the reads, so other requests may commit in between; a transaction's  *)
(* own statements are serialised by the lock of its first UPDATE or by the *)
(* unique index its INSERT hits, which is why a commit is one step here.   *)
(***************************************************************************)
EXTENDS AttendanceMetrics, FiniteSets

CONSTANTS
    Employees,  \* users of one company that a terminal or an operator may name
    Strangers,  \* device user ids no employee is mapped to
    Requests,   \* identities of the calls that are made
    Paths,      \* the ways in that are in use, a subset of AllPaths
    MaxTime,    \* bound on the clock
    EventTimes, \* instants an operator or a terminal may put on an event
    Leave,      \* Leave[e, d]: minutes of approved leave, None for no leave
    Rate,       \* Rate[c]: the KPI template's money per minute
    Amounts,    \* amounts the office may write on an adjustment
    MaxWrites,  \* bound on the office's writes of adjustments
    Overlap     \* FALSE: calls on the same employee-day do not overlap before they commit

AllPaths == {"manual", "mobile", "terminal"}
Categories == {"late", "early_leave", "overtime"}
Times == 0..MaxTime
Days == {Day(t) : t \in Times}
Keys == Employees \X Days
OptionalTime == Times \cup {None}

ASSUME AttendanceAssumption ==
    /\ MaxTime \in Nat
    /\ EventTimes \subseteq Times
    /\ Paths \subseteq AllPaths
    /\ Employees \cap Strangers = {}
    /\ Leave \in [Keys -> Nat \cup {None}]
    /\ Rate \in [Categories -> Nat]
    /\ Amounts \subseteq Nat
    /\ MaxWrites \in Nat
    /\ Overlap \in BOOLEAN
    /\ None \notin Requests

(***************************************************************************)
(* The tables.  A row of attendance is kept under its unique key           *)
(* (employee, date); a session and a raw log are named by the request that *)
(* inserts them, which inserts at most one.                                *)
(***************************************************************************)
Row == [checkIn : OptionalTime, checkOut : OptionalTime, worked : Nat,
        late : Nat, early : Nat, overtime : Nat, status : Statuses,
        source : AllPaths]

Session == [employee : Employees, date : Days, checkIn : Times,
            checkOut : OptionalTime, worked : Nat]

\* An automatic salary adjustment: one whose reason names the row of the employee
\* and date it stands under.  To tell two equal ones apart, id is the call and the
\* category it was made by and for, None for one the office made automatic.
Adjustment == [key : Keys, category : Categories, amount : Nat,
               id : (Requests \X Categories) \cup {None}]

RawLog == [who : Employees \cup Strangers, at : Times,
           type : {"check_in", "check_out", "unknown"}, processed : BOOLEAN]

(***************************************************************************)
(* A call.  phase is how far it got; row, session and found are what its   *)
(* reads returned; due is what its caller must still be notified of.       *)
(***************************************************************************)
Phases == {"idle", "started", "checked", "ready", "committed",
           "done", "unnotified", "refused"}

InFlightPhases == {"started", "checked", "ready", "committed"}
AcceptedPhases == {"committed", "done", "unnotified"}

Call == [phase : Phases, path : AllPaths,
         type : {"check_in", "check_out", "unknown"},
         who : Employees \cup Strangers \cup {None}, at : Times,
         row : Row \cup {None}, session : Requests \cup {None},
         due : SUBSET Categories]

ASSUME NoneIsNoRecord == None \notin Row /\ None \notin Session /\ None \notin RawLog

VARIABLES
    now,         \* the server's clock
    call,        \* call[r]: the state of request r
    attendance,  \* attendance[k]: the row of employee-day k, None if none
    session,     \* session[r]: the session request r opened
    adjustments, \* the automatic rows of salary_adjustments
    rawLog,      \* rawLog[r]: the raw log request r stored
    office       \* history: how often the office wrote adjustments, and which
                 \* days' automatic ones it changed since they were last made

vars == <<now, call, attendance, session, adjustments, rawLog, office>>

\* A call that has read nothing yet.
NewCall(path, type, who, t, phase) ==
    [phase |-> phase, path |-> path, type |-> type, who |-> who, at |-> t,
     row |-> None, session |-> None, due |-> {}]

Idle == NewCall("manual", "unknown", None, 0, "idle")

Init ==
    /\ now = 0
    /\ call = [r \in Requests |-> Idle]
    /\ attendance = [k \in Keys |-> None]
    /\ session = [r \in Requests |-> None]
    /\ adjustments = {}
    /\ rawLog = [r \in Requests |-> None]
    /\ office = [writes |-> 0, touched |-> {}]

TypeOK ==
    /\ now \in Times
    /\ call \in [Requests -> Call]
    /\ attendance \in [Keys -> Row \cup {None}]
    /\ session \in [Requests -> Session \cup {None}]
    /\ adjustments \subseteq Adjustment
    /\ rawLog \in [Requests -> RawLog \cup {None}]
    /\ office \in [writes : 0..MaxWrites, touched : SUBSET Keys]

InFlight(r) == call[r].phase \in InFlightPhases
Accepted(r) == call[r].phase \in AcceptedPhases

\* The call may still write.
Underway(r) == InFlight(r) /\ call[r].phase # "committed"

\* The employee-day a call writes.
Key(r) == <<call[r].who, Day(call[r].at)>>

(***************************************************************************)
(* What a write computes.                                                  *)
(***************************************************************************)

\* Hourly leave at the start of the shift, 0 without leave.
LeaveMinutes(k) == IF Leave[k] = None THEN 0 ELSE Leave[k]

DayMetrics(k, checkIn, checkOut) == Metrics(k[2], checkIn, checkOut, LeaveMinutes(k))

CheckInOf(row) == IF row = None THEN None ELSE row.checkIn
CheckOutOf(row) == IF row = None THEN None ELSE row.checkOut

\* Slip: any event taken for an arrival.
CollapseAnyEvent(row, type, t) ==
    LET current == CheckInOf(row) IN IF current = None \/ t < current THEN t ELSE current

\* First arrival: the event moves the check-in only to an earlier time.
CollapseCheckIn(row, type, t) ==
    LET current == CheckInOf(row)
    IN  IF type = "check_in" /\ (current = None \/ t < current) THEN t ELSE current

\* Slip: the event delivered last taken for the last departure.
CollapseToLastDelivered(row, type, t) == IF type = "check_out" THEN t ELSE CheckOutOf(row)

\* Last departure: the event moves the check-out only to a later time.
CollapseCheckOut(row, type, t) ==
    LET current == CheckOutOf(row)
    IN  IF type = "check_out" /\ (current = None \/ t > current) THEN t ELSE current

NewRow(checkIn, checkOut, m, source) ==
    [checkIn |-> checkIn, checkOut |-> checkOut, worked |-> m.worked,
     late |-> m.late, early |-> m.early, overtime |-> m.overtime,
     status |-> m.status, source |-> source]

\* The minutes the KPI template charges or pays for, by category.
Minutes(row) ==
    [late |-> row.late, early_leave |-> row.early, overtime |-> row.overtime]

Charged(row) == {c \in Categories : Minutes(row)[c] > 0 /\ Rate[c] > 0}

Fees(k, row, r) ==
    {[key |-> k, category |-> c, amount |-> Minutes(row)[c] * Rate[c], id |-> <<r, c>>] :
        c \in Charged(row)}

FeesOf(k) == {a \in adjustments : a.key = k}

\* Slip: the old adjustments kept.
SyncWithoutDelete(k, row, r) == adjustments \cup Fees(k, row, r)

\* Replace the automatic adjustments of row k by those its minutes call for.
SyncAdjustments(k, row, r) ==
    (adjustments \ FeesOf(k)) \cup Fees(k, row, r)

\* A call that has left its handler, or its handler's transaction, for phase:
\* what it had read is gone.
Left(c, phase, due) ==
    [c EXCEPT !.phase = phase, !.row = None, !.session = None, !.due = due]

(***************************************************************************)
(* The start of a call.                                                    *)
(***************************************************************************)
MayStart(r, who, t) ==
    /\ call[r].phase = "idle"
    /\ Overlap \/ \A q \in Requests : Underway(q) => Key(q) # <<who, Day(t)>>

Start(r, path, type, who, t, phase) ==
    /\ MayStart(r, who, t)
    /\ path \in Paths
    /\ call' = [call EXCEPT ![r] = NewCall(path, type, who, t, phase)]
    /\ UNCHANGED <<now, attendance, session, adjustments, rawLog, office>>

\* An operator records an event; the employee is loaded and the face verified
\* before anything shared is read, so the call is ready to read the row.
StartManual(r) ==
    \E type \in {"check_in", "check_out"}, who \in Employees, t \in EventTimes :
        Start(r, "manual", type, who, t, "checked")

\* An employee checks in or out with the app: the event is stamped now.
StartMobile(r) ==
    \E type \in {"check_in", "check_out"}, who \in Employees :
        Start(r, "mobile", type, who, now, "started")

\* A terminal delivers an event, perhaps late and perhaps again.
StartTerminal(r) ==
    \E type \in {"check_in", "check_out", "unknown"},
       who \in Employees \cup Strangers, t \in EventTimes :
        Start(r, "terminal", type, who, t, "started")

(***************************************************************************)
(* The reads.                                                              *)
(***************************************************************************)
Become(r, phase) == call' = [call EXCEPT ![r] = [@ EXCEPT !.phase = phase]]

OpenSessions(k) ==
    {s \in Requests : /\ session[s] # None
                      /\ session[s].employee = k[1]
                      /\ session[s].date = k[2]
                      /\ session[s].checkOut = None}

LatestOpenSessions(k) ==
    {s \in OpenSessions(k) :
        \A other \in OpenSessions(k) : session[other].checkIn <= session[s].checkIn}

\* Slip: selfCheckIn without the open-session check.
CheckNothing(r) ==
    /\ call[r].phase = "started" /\ call[r].path = "mobile" /\ call[r].type = "check_in"
    /\ Become(r, "checked")
    /\ UNCHANGED <<now, attendance, session, adjustments, rawLog, office>>

\* selfCheckIn goes on to face verification only without an open session today.
CheckNoOpenSession(r) ==
    /\ call[r].phase = "started" /\ call[r].path = "mobile" /\ call[r].type = "check_in"
    /\ Become(r, IF OpenSessions(Key(r)) = {} THEN "checked" ELSE "refused")
    /\ UNCHANGED <<now, attendance, session, adjustments, rawLog, office>>

\* selfCheckOut takes the latest open session of today, if there is one.
FindOpenSession(r) ==
    /\ call[r].phase = "started" /\ call[r].path = "mobile" /\ call[r].type = "check_out"
    /\ \/ /\ OpenSessions(Key(r)) = {}
          /\ Become(r, "refused")
       \/ \E s \in LatestOpenSessions(Key(r)) :
            call' = [call EXCEPT ![r] = [@ EXCEPT !.phase = "checked", !.session = s]]
    /\ UNCHANGED <<now, attendance, session, adjustments, rawLog, office>>

\* The same terminal event: the columns of the raw log's unique index.
Duplicates(r) ==
    {q \in Requests : /\ rawLog[q] # None
                      /\ rawLog[q].who = call[r].who
                      /\ rawLog[q].at = call[r].at
                      /\ rawLog[q].type = call[r].type}

\* ingestLog answers a known event with its raw log and does nothing more.
CheckDuplicate(r) ==
    /\ call[r].phase = "started" /\ call[r].path = "terminal"
    /\ Become(r, IF Duplicates(r) = {} THEN "checked" ELSE "refused")
    /\ UNCHANGED <<now, attendance, session, adjustments, rawLog, office>>

\* Slip: no unique index, only the check made before the transaction.
CanStoreAgain(r) == r \in Requests

\* The unique index on the raw log, which the INSERT meets whatever was read.
CanStore(r) == Duplicates(r) = {}

\* Slip: the operator may check out an employee who never checked in.
RefusesOnlySecond(r, row) ==
    \/ /\ call[r].path = "manual" /\ call[r].type = "check_in"
       /\ CheckInOf(row) # None
    \/ /\ call[r].path = "manual" /\ call[r].type = "check_out"
       /\ CheckOutOf(row) # None

\* Slip: the operator may check out a second time.
RefusesOnlyFirst(r, row) ==
    \/ /\ call[r].path = "manual" /\ call[r].type = "check_in"
       /\ CheckInOf(row) # None
    \/ /\ call[r].type = "check_out" /\ call[r].path # "terminal"
       /\ CheckInOf(row) = None

\* The 409 and 404 answers that depend on the day's row.
Refuses(r, row) ==
    \/ /\ call[r].path = "manual" /\ call[r].type = "check_in"
       /\ CheckInOf(row) # None
    \/ /\ call[r].path = "manual" /\ call[r].type = "check_out"
       /\ CheckInOf(row) = None \/ CheckOutOf(row) # None
    \/ /\ call[r].path = "mobile" /\ call[r].type = "check_out"
       /\ row = None

\* The read of the day's row the later write is computed from.
ReadRow(r) ==
    /\ call[r].phase = "checked"
    /\ LET row == IF call[r].who \in Employees THEN attendance[Key(r)] ELSE None
       IN  call' = [call EXCEPT ![r] =
                      IF Refuses(r, row) THEN Left(@, "refused", {})
                      ELSE [@ EXCEPT !.phase = "ready", !.row = row]]
    /\ UNCHANGED <<now, attendance, session, adjustments, rawLog, office>>

(***************************************************************************)
(* The transactions.                                                       *)
(***************************************************************************)

\* INSERT when the read found no row - the unique index on (employee, date)
\* lets it through only if there still is none - and UPDATE by id otherwise.
CanWrite(r) == call[r].row = None => attendance[Key(r)] = None

\* Slip: workedMinutes left out of the UPDATE.
SetAllButWorked(row, m, source) ==
    [row EXCEPT !.late = m.late, !.early = m.early,
                !.overtime = m.overtime, !.status = m.status, !.source = source]

\* UPDATE of the derived columns only.
SetMetrics(row, m, source) ==
    [row EXCEPT !.worked = m.worked, !.late = m.late, !.early = m.early,
                !.overtime = m.overtime, !.status = m.status, !.source = source]

\* The call is over, or has still to notify the employee about due.
Answer(r, due) ==
    call' = [call EXCEPT ![r] = Left(@, IF due = {} THEN "done" ELSE "committed", due)]

\* notifyLate, unless any approved leave covers the day.
LateNotice(k, row) == IF row.late > 0 /\ Leave[k] = None THEN {"late"} ELSE {}

WriteAndSync(r, row) ==
    /\ attendance' = [attendance EXCEPT ![Key(r)] = row]
    /\ adjustments' = SyncAdjustments(Key(r), row, r)
    /\ office' = [office EXCEPT !.touched = @ \ {Key(r)}]

CommitCheckIn(r) ==
    LET k == Key(r)
        t == call[r].at
        m == DayMetrics(k, t, CheckOutOf(call[r].row))
        row == IF call[r].row = None
               THEN NewRow(t, None, m, "manual")
               ELSE SetMetrics([attendance[k] EXCEPT !.checkIn = t], m, "manual")
    IN  /\ call[r].phase = "ready" /\ call[r].path = "manual" /\ call[r].type = "check_in"
        /\ CanWrite(r)
        /\ WriteAndSync(r, row)
        /\ Answer(r, LateNotice(k, row))
        /\ UNCHANGED <<now, session, rawLog>>

CommitCheckOut(r) ==
    LET k == Key(r)
        t == call[r].at
        m == DayMetrics(k, CheckInOf(call[r].row), t)
        row == SetMetrics([attendance[k] EXCEPT !.checkOut = t], m, "manual")
    IN  /\ call[r].phase = "ready" /\ call[r].path = "manual" /\ call[r].type = "check_out"
        /\ WriteAndSync(r, row)
        /\ Answer(r, Charged(row))
        /\ UNCHANGED <<now, session, rawLog>>

\* The row both self-service calls and the terminal path collapse into.
CollapsedIn(r) == CollapseCheckIn(call[r].row, call[r].type, call[r].at)
CollapsedOut(r) == CollapseCheckOut(call[r].row, call[r].type, call[r].at)

\* Slip: the minutes derived from the row as it was read.
MobileRowOfRead(r) ==
    NewRow(CollapsedIn(r), CollapsedOut(r),
           DayMetrics(Key(r), CheckInOf(call[r].row), CheckOutOf(call[r].row)), "mobile")

MobileRow(r) ==
    NewRow(CollapsedIn(r), CollapsedOut(r),
           DayMetrics(Key(r), CollapsedIn(r), CollapsedOut(r)), "mobile")

CommitSelfCheckIn(r) ==
    /\ call[r].phase = "ready" /\ call[r].path = "mobile" /\ call[r].type = "check_in"
    /\ CanWrite(r)
    /\ WriteAndSync(r, MobileRow(r))
    /\ session' = [session EXCEPT ![r] =
                     [employee |-> call[r].who, date |-> Day(call[r].at),
                      checkIn |-> call[r].at, checkOut |-> None, worked |-> 0]]
    /\ Answer(r, LateNotice(Key(r), MobileRow(r)))
    /\ UNCHANGED <<now, rawLog>>

CommitSelfCheckOut(r) ==
    LET s == call[r].session
        t == call[r].at
    IN  /\ call[r].phase = "ready" /\ call[r].path = "mobile" /\ call[r].type = "check_out"
        /\ session' = [session EXCEPT ![s] =
                         [@ EXCEPT !.checkOut = t, !.worked = MinutesDifference(session[s].checkIn, t)]]
        /\ WriteAndSync(r, MobileRow(r))
        /\ Answer(r, Charged(MobileRow(r)))
        /\ UNCHANGED <<now, rawLog>>

\* The terminal path writes the whole row, its minutes reset to zero.
TerminalRow(r) ==
    NewRow(CollapsedIn(r), CollapsedOut(r),
           [worked |-> MinutesDifference(CollapsedIn(r), CollapsedOut(r)),
            late |-> 0, early |-> 0, overtime |-> 0,
            status |-> Status(0, 0, CollapsedIn(r), CollapsedOut(r))],
           "terminal")

\* A stranger's event leaves the raw log only, for a later reconciliation.
CommitIngest(r) ==
    /\ call[r].phase = "ready" /\ call[r].path = "terminal"
    /\ CanStore(r)
    /\ \/ /\ call[r].who \in Employees
          /\ CanWrite(r)
          /\ attendance' = [attendance EXCEPT ![Key(r)] = TerminalRow(r)]
       \/ /\ call[r].who \in Strangers
          /\ UNCHANGED attendance
    /\ rawLog' = [rawLog EXCEPT ![r] =
                    [who |-> call[r].who, at |-> call[r].at, type |-> call[r].type,
                     processed |-> call[r].who \in Employees]]
    /\ Answer(r, {})
    /\ UNCHANGED <<now, session, adjustments, office>>

\* The employee is told, after the commit, what is due.
Notify(r) ==
    /\ call[r].phase = "committed"
    /\ call' = [call EXCEPT ![r] = Left(@, "done", {})]
    /\ UNCHANGED <<now, attendance, session, adjustments, rawLog, office>>

(***************************************************************************)
(* Before its commit a call may end with nothing written at any point: an  *)
(* employee, terminal or scope check fails, the face does not match, the   *)
(* database refuses the transaction (a unique index, a lost connection),   *)
(* the server stops.  After the commit a stop loses the notification.      *)
(***************************************************************************)
Fail(r) ==
    /\ InFlight(r)
    /\ call' = [call EXCEPT ![r] =
                  Left(@, IF @.phase = "committed" THEN "unnotified" ELSE "refused", {})]
    /\ UNCHANGED <<now, attendance, session, adjustments, rawLog, office>>

(***************************************************************************)
(* The office's writes of salary adjustments, as far as they touch an      *)
(* automatic one: any row may be created with, or edited to, an employee,  *)
(* date and reason that make it one, an automatic one edited or deleted.   *)
(* The row is loaded first, to see whether the actor may; what is written  *)
(* by id then are the fields that were sent, none of which but the month   *)
(* is computed from what was loaded.                                       *)
(***************************************************************************)
OfficeWrites(rows) ==
    /\ office.writes < MaxWrites
    /\ adjustments' = rows
    /\ office' = [writes |-> office.writes + 1,
                  touched |-> office.touched \cup {k \in Keys : FeesOf(k)' # FeesOf(k)}]
    /\ UNCHANGED <<now, call, attendance, session, rawLog>>

\* A row that was none becomes an automatic adjustment.
CreateAdjustment ==
    \E new \in [key : Keys, category : Categories, amount : Amounts, id : {None}] :
        /\ new \notin adjustments
        /\ OfficeWrites(adjustments \cup {new})

\* It stays one, of its own day or of another.
EditAdjustment ==
    \E old \in adjustments :
        \E new \in [key : Keys, category : Categories, amount : Amounts \cup {old.amount},
                    id : {old.id}] :
            OfficeWrites((adjustments \ {old}) \cup {new})

\* It is deleted, or its date, employee or reason changed so that it is an
\* automatic one no longer: syncAttendanceAdjustments does not find it again.
DeleteAdjustment == \E old \in adjustments : OfficeWrites(adjustments \ {old})

Tick ==
    /\ now < MaxTime
    /\ now' = now + 1
    /\ UNCHANGED <<call, attendance, session, adjustments, rawLog, office>>

Next ==
    \/ Tick
    \/ CreateAdjustment \/ EditAdjustment \/ DeleteAdjustment
    \/ \E r \in Requests :
        \/ StartManual(r) \/ StartMobile(r) \/ StartTerminal(r)
        \/ CheckNoOpenSession(r) \/ FindOpenSession(r) \/ CheckDuplicate(r)
        \/ ReadRow(r)
        \/ CommitCheckIn(r) \/ CommitCheckOut(r)
        \/ CommitSelfCheckIn(r) \/ CommitSelfCheckOut(r)
        \/ CommitIngest(r)
        \/ Notify(r) \/ Fail(r)

Spec == Init /\ [][Next]_vars

(***************************************************************************)
(* Properties that hold whatever overlaps.                                 *)
(***************************************************************************)
\* The automatic salary adjustments of a day are exactly those the minutes in
\* its row call for, made by one call, as long as AttendanceService wrote the
\* row last and the office has changed none of them since they were made:
\* syncAttendanceAdjustments deletes and recreates them under the row's lock, so
\* no interleaving leaves two of a category or a stale one, and what the office
\* had made of the day's automatic ones is undone.  After a terminal event there
\* is still at most one of each category.
AdjustmentsFollowRow ==
    \A k \in Keys \ office.touched :
        /\ attendance[k] = None => FeesOf(k) = {}
        /\ attendance[k] # None /\ attendance[k].source # "terminal" =>
               \E r \in Requests : FeesOf(k) = Fees(k, attendance[k], r)
        /\ \A a, b \in FeesOf(k) : a.category = b.category => a = b

\* A terminal event is ingested at most once however often it is delivered and
\* however the deliveries overlap: the check for a known raw log runs outside
\* the transaction and may miss, the unique index then rolls the second back.
IngestedOnce ==
    \A q, r \in Requests :
        /\ rawLog[q] # None /\ rawLog[r] # None
        /\ rawLog[q].who = rawLog[r].who
        /\ rawLog[q].at = rawLog[r].at
        /\ rawLog[q].type = rawLog[r].type
        => q = r

AcceptedEvent(k, type, t) ==
    \E r \in Requests :
        Accepted(r) /\ Key(r) = k /\ call[r].type = type /\ call[r].at = t

\* A time in a day's row is the time of an event some call was accepted for, of
\* that kind, of that employee and of that day: lost updates may drop or revive
\* an event, but no path ever turns a departure into an arrival, moves an event
\* to another day, or keeps the event of a transaction that rolled back.
TimesComeFromEvents ==
    \A k \in Keys :
        attendance[k] # None =>
            /\ attendance[k].checkIn # None =>
                   AcceptedEvent(k, "check_in", attendance[k].checkIn)
            /\ attendance[k].checkOut # None =>
                   AcceptedEvent(k, "check_out", attendance[k].checkOut)

RowMatchesItsTimes(k) ==
    LET row == attendance[k]
    IN  row = NewRow(row.checkIn, row.checkOut,
                     DayMetrics(k, row.checkIn, row.checkOut), row.source)

\* A row self-service wrote last agrees with its own times - worked, late,
\* early-leave and overtime minutes and status - even when the times were
\* computed from a stale read: both times and everything derived from them are
\* written together.
MobileRowsAgree ==
    \A k \in Keys :
        attendance[k] # None /\ attendance[k].source = "mobile" => RowMatchesItsTimes(k)

(***************************************************************************)
(* What the reads of a call in flight guarantee to its commit: the         *)
(* strengthening the invariants above need to be inductive.                *)
(***************************************************************************)

\* A non-idle call names a user; only a terminal may name a stranger or send an
\* event of unknown type; a row that was read still exists (rows are not
\* deleted) and belongs to an employee; a check-out that got past its checks
\* has a row and, from the app, an existing session to close.
SoundCall(r) ==
    LET c == call[r]
    IN  /\ c.phase # "idle" => c.who \in Employees \cup Strangers
        /\ c.phase # "idle" /\ c.path # "terminal" =>
               c.who \in Employees /\ c.type \in {"check_in", "check_out"}
        /\ c.row # None =>
               c.phase = "ready" /\ c.who \in Employees /\ attendance[Key(r)] # None
        /\ c.phase = "ready" /\ c.path # "terminal" /\ c.type = "check_out" =>
               c.row # None
        /\ c.phase \in {"checked", "ready"} /\ c.path = "mobile" /\ c.type = "check_out" =>
               c.session \in Requests /\ session[c.session] # None

CallsSound == \A r \in Requests : SoundCall(r)

(***************************************************************************)
(* Properties that hold when the calls on one employee-day do not overlap, *)
(* however those of different employees or days do, and which an overlap   *)
(* can break.                                                              *)
(***************************************************************************)

\* No event an employee, operator or terminal was answered "accepted" for is
\* missing from the day: the row's check-in is no later than any accepted
\* arrival and its check-out no earlier than any accepted departure.
NoEventLost ==
    \A r \in Requests :
        Accepted(r) /\ call[r].who \in Employees =>
            /\ call[r].type = "check_in" =>
                   /\ CheckInOf(attendance[Key(r)]) # None
                   /\ CheckInOf(attendance[Key(r)]) <= call[r].at
            /\ call[r].type = "check_out" =>
                   /\ CheckOutOf(attendance[Key(r)]) # None
                   /\ CheckOutOf(attendance[Key(r)]) >= call[r].at

\* An employee has at most one open session a day: selfCheckIn refuses while
\* one is open.
OneOpenSession == \A k \in Keys : \A s, t \in OpenSessions(k) : s = t

\* A row AttendanceService wrote last agrees with its own times, the operator's
\* calls included: these write one time and derive the minutes from the other
\* one as they read it.
ServiceRowsAgree ==
    \A k \in Keys :
        attendance[k] # None /\ attendance[k].source # "terminal" => RowMatchesItsTimes(k)

\* The day's row keeps the promise of DayRecord: first arrival, last departure.
Promise ==
    INSTANCE DayRecord WITH firstIn <- [k \in Keys |-> CheckInOf(attendance[k])],
                            lastOut <- [k \in Keys |-> CheckOutOf(attendance[k])]

KeepsDayRecord == Promise!Spec

(***************************************************************************)
(* What the documentation says of the program and the program does not do. *)
(***************************************************************************)

\* docs/attendance-api.md: minutes and their salary effect are computed on
\* every check-in and check-out, whichever of the three paths produced it.
EveryPathSettlesTheDay ==
    \A k \in Keys :
        attendance[k] # None =>
            /\ RowMatchesItsTimes(k)
            /\ \E r \in Requests : FeesOf(k) = Fees(k, attendance[k], r)

\* docs/attendance-api.md: whichever path writes to the row, checkIn only ever
\* moves earlier and checkOut only ever moves later.
CollapseRule ==
    [][\A k \in Keys :
        /\ CheckInOf(attendance[k]) # None =>
               /\ CheckInOf(attendance'[k]) # None
               /\ CheckInOf(attendance'[k]) <= CheckInOf(attendance[k])
        /\ CheckOutOf(attendance[k]) # None =>
               /\ CheckOutOf(attendance'[k]) # None
               /\ CheckOutOf(attendance'[k]) >= CheckOutOf(attendance[k])]_attendance

=============================================================================
