# A TLA+ model of the ZDES backend

The repository is a NestJS server over PostgreSQL (Prisma), with Redis for cached
answers and Firebase for push messages. Companies use it to keep their employees'
attendance, leave, schedules, tasks and pay. This directory models the parts of it
where steps of several actors meet: each module is translated from the code, checked
by TLC on small instances, and the results that matter most are proved by TLAPS for
every value of the constants.

## 1. The system

There is one server process, or several behind a balancer; nothing in the code holds
a lock or relies on there being one. A request runs as an asynchronous function: it
reads rows, waits (for the database, for face verification, for a hash), and writes.
PostgreSQL runs at READ COMMITTED, its default, and no query locks what it reads
(there is no `SELECT ... FOR UPDATE`, no version column, no serializable
transaction). So between any two statements of a request that are not in one
transaction, and between the reads and the writes of a transaction, other requests
may commit. What orders requests is a row's write lock, held to the end of the
transaction that wrote the row, and the unique indexes of the schema.

| Component (under `src/src/modules` unless noted) | State | Operations | Talks to |
| --- | --- | --- | --- |
| attendance | `attendance` (one row per employee and day), `attendance_sessions`, automatic `salary_adjustments`, the KPI template | operator check-in/check-out, self check-in/check-out, reminder cron, KPI template | turnstile (shares the row), leave and schedule (read), face verification, notification |
| turnstile | `raw_attendance_logs`, `attendance` | `ingestLog` | attendance row |
| payroll | `payrolls` | create, update, `recordPayment`, delete, statistics | advances (read), users |
| employee-leave | `employee_leaves` | create, create for all, request, approve, reject, update, delete | attendance reads it; notification |
| work-schedule | `work_schedules`, `work_schedule_companies`, `users.workScheduleId` | create, update, toggle, attach, detach, set default, assign, unassign, delete | attendance reads it |
| auth, refresh-token, push-token | `refresh_tokens`, `push_tokens`, access tokens in clients' hands | login, refresh, logout, save push token | every guard |
| notification, `common/firebase` | `notifications` | create, notify one, notify the overseers, push | called after commits |
| HTTP cache (`common/interceptors`, `common/redis`) | answers in Redis | fill on GET, drop by prefix after a write | in front of every controller |
| task | `tasks`, `task_projects`, `task_assignees` | project and task CRUD, status, assignees, reorder | notification |
| salary-adjustment, advance, raw-attendance-log | one table each | CRUD behind access checks | payroll, attendance |
| user, company, branch, department, position | one table each | CRUD with name checks | everything |
| terminal, holiday, setting, app-version | one table each | CRUD | reference data |

### What is hard here

* **Check, wait, act.** Almost every handler checks something and writes later: the
  open session before face verification, the day's row before the transaction that
  rewrites it, the paid amount before it is replaced, the uniqueness of a name, a
  month or a default before the insert.
* **Several writers of one row.** The operator, the app and the terminals write the
  same attendance row by three code paths with different rules.
* **Late, repeated and reordered events.** Terminals push events with their own time
  stamps, retry, and deliver out of order.
* **Derived state.** Minutes, status and money are derived from times and stored next
  to them; each writer must keep them in step.
* **After the commit.** Notifications, cache fills and cache drops happen after the
  write, unordered and unretried.

### What makes each component correct

* *Attendance.* The day's row keeps the first arrival and the last departure of
  accepted events; its minutes and status are those of its own times; the automatic
  adjustments are exactly those its minutes call for, until the office changes one; one
  session is open at a time.
* *Turnstile.* An event counts once however often it is delivered.
* *Payroll.* One payroll for an employee and a month; the paid amount is the sum of
  the accepted payments and does not pass the net salary; nothing is paid on a
  cancelled payroll.
* *Leave.* A request is answered once, and the answer the employee was last told is the
  one that stands; a leave does not end before it starts; it is of its employee's company and
  of a branch of it, the employee's if there is one, until the employee or the branch moves.
* *Work schedule.* A company has at most one default; a user's schedule is one attached
  to the user's company, unless the office chose it on the user's own page.
* *Sessions and devices.* Who has been barred gets no access token, nor does a
  session that was removed, or had expired when it was found; a device that was logged out
  is nobody's, and no push that reads after that where to go goes to it.
* *Cache.* A stored answer shows every change made through its own resource, but for the
  changes that outran it; and in the end every stored answer is fresh.
* *Reminders.* Who stays due a reminder gets it, whatever failed before; nobody gets one
  without reason, or more often than passes overlap.
* *Directory.* What a row belongs to is of the row's company; names tell rows apart; what
  an actor is listed, the actor may open.
* *Tasks.* A task is not due before it starts; whoever is on one has been told, once.

The hazards, each at the line where it bites, with the properties that would notice,
are in `PROJECT.json`.

## 2. The modules

| Module | Models | State | Actions and the code they stand for |
| --- | --- | --- | --- |
| `AttendanceMetrics` | the arithmetic of `calculateAttendanceMetrics` and `common/utils/helpers.ts` | none | operators only |
| `Attendance` | the three writers of a day | `now`, `call`, `attendance`, `session`, `adjustments`, `rawLog`, `office` | `StartManual/StartMobile/StartTerminal` (a call arrives), `CheckNoOpenSession`, `FindOpenSession`, `CheckDuplicate`, `ReadRow` (its reads), `CommitCheckIn`, `CommitCheckOut`, `CommitSelfCheckIn`, `CommitSelfCheckOut`, `CommitIngest` (its transaction), `Notify`, `Fail`, `CreateAdjustment`, `EditAdjustment`, `DeleteAdjustment` (the office), `Tick` |
| `DayRecord` | what a day promises: first arrival, last departure | `firstIn`, `lastOut` | the abstract specification `Attendance` implements |
| `AttendanceProofs` | theorems about `Attendance` | | |
| `MCAttendance` | a small schedule, leave and template | | |
| `Payroll` | the payroll ledger | `payroll`, `call` | `StartCreate/StartUpdate/StartPay/StartDelete`, `Load` (`getPayrollById` and the payment's checks), `CheckUnique`, `Create`, `Update`, `Pay`, `Delete`, `Fail` |
| `PayrollLedger` | what the payrolls promise: one a month, opened unpaid, whole payments that fit | `row`, `edited` | the abstract specification `Payroll` implements |
| `PayrollProofs` | theorems about `Payroll` | | |
| `MCPayroll` | the symmetry of its instances | | |
| `WorkSchedule` | schedules, the companies they are attached to, the users that follow them | `owner`, `link`, `user`, `call` | `StartCreate/StartAttach/StartDetach/StartSetDefault/StartAssign/StartDelete/StartEditUser/StartCreateUser`, `CheckCreate`, `CheckAttach`, `LoadLink`, `LoadSchedule` then `LoadUser`, `CheckDelete`, `CheckUser` (reads), `Open` (a transaction's first UPDATE picks its rows), `Create`, `Attach`, `SetDefault`, `Detach`, `Assign` (both assign and unassign), `Delete`, `EditUser` and `CreateUser` (`UserService.update` and `create`), `Fail` |
| `WorkScheduleProofs` | theorems about `WorkSchedule` | | |
| `MCWorkSchedule` | the symmetry of its instances | | |
| `Scope` | who an actor is and what the actor reaches (`common/scope`) | none | `GetScope`, `ScopeRefused`, `GetCompanyId`, `CompanyRefused`, `MayAccess`; used by the four modules below that check access |
| `EmployeeLeave` | leaves, and what employees are told of them | `staff`, `leave`, `told`, `companyOf`, `moved`, `leaveCall` | `StartLeaveCall`, `CheckGrant`, `ListCrew`, `LoadRequester`, `LoadToAnswer`, `LoadToEdit`, `CheckEdit`, `LoadToDelete` (reads), `InsertLeaves`, `AnswerLeave`, `UpdateLeave`, `DeleteLeave` (writes), `TellLeave`, `StopLeaveCall`, `EditStaff` and `MoveBranch` (`UserService.update` and `BranchService.update` as far as leaves see them) |
| `Reminders` | the half-hourly cron and `notifyOnce`; composed with `EmployeeLeave` into `OfficeSpec` | `over`, `day`, `notices`, `reminded`, `edits`, `pass`, `failures` | `StartPass`, `TakeEmployee`, `ReadDay`, `FindNotice`, `SendNotice`, `EndPass`, `FailPass`; `CheckIn`, `CheckOut`, `DayEnds` around it; `AddNotice`, `TakeNotice`, `MoveNotice` (the office creates, edits and deletes the notifications `notifyOnce` looks for) |
| `HttpCache` | the interceptor and the cache service | `version`, `cached`, `outrun`, `web` | `Get`, `Hit`, `ReadTables`, `Store`, `LoseAnswer` (a GET), `CommitWrite`, `StartScan`, `Remove`, `EndScan`, `LoseRemoval` (any other method), `Expire` |
| `Sessions` | login, refresh, logout, sessions and devices, and the switches that bar a user | `person`, `session`, `device`, `silent`, `authCall` | one read and one write per statement of each endpoint (`LoadBearer`, `OpenSession`, `AnswerLogin`; `FindSession`, `DropExpired`, `TouchSession`; `EndSession`, `ForgetDevice`; `LoadPerson`, `Switch`, `DeletePerson`, ...), `ReadDevices` and `SendToDevices` (a push), `Expire`, `StopAuthCall` |
| `Directory` | the rows of twelve services and what they belong to; the lists and access checks of eighteen | `entry`, `strayed`, `mixed`, `orphaned`, `entryCall` | `StartEntryCall`, `LoadEntry`, `CheckEntry` (with a `Make...` and an `Edit...` for each service), `InsertEntry`, `UpdateEntry`, `ToggleEntry`, `DeleteEntry` (with its cascades), `StopEntryCall` |
| `Tasks` | tasks, projects, assignees | `project`, `task`, `informed`, `missed`, `clashed`, `taskCall` | a check or load and a write per endpoint, `UnlinkTasks` and `DeleteProject` (two statements), `ReplaceAssignees` (a transaction), `TellAssignee`, `StopTaskCall` |
| `EmployeeLeaveProofs`, `SessionsProofs`, `TasksProofs` | theorems about the modules they are named after | | |
| `DirectoryProofs` | theorems about `Directory`, and about `MCPeople` for any values of its constants | | |
| `OfficeProofs` | theorems about `Reminders` and `HttpCache`, and about `MCOffice` for any values of its constants | | |
| `MCOffice` | reminders with leaves, or the cache, one at a time in a behaviour | `part` | |
| `MCPeople` | leaves, sessions, the directory or tasks, one at a time in a behaviour | `part` | |

How the models are built:

* **A request is an identity.** `call[r]` holds how far request `r` got, what was sent
  and what its reads returned. A request is used once, and the row, session or log it
  inserts is named by it. So the calls that are over are a history the properties can
  speak of ("the time of an event some call was accepted for", "the sum of the
  payments the office was told were recorded").
* **A commit is one step** in `Attendance` and `Payroll`. The first statement of each transaction is an UPDATE of the
  attendance row or of a session, or an INSERT that meets a unique index. The lock it
  takes is held to the commit, so a second transaction on the same row runs all its
  statements after the first one's commit. The reads before it are steps of their own.
  Where the INSERT meets the index, the action is disabled and only `Fail` remains:
  the request ends in an error and has written nothing.
* **Two steps where the lock does not help.** `clearDefaultForCompany` updates the rows
  that are defaults when it starts. A default that another transaction inserts or sets
  meanwhile is not among them, and no index forbids two. So in `WorkSchedule` such a
  transaction is `Open`, which picks the rows, and a commit, which writes those of them
  that are still there. The same goes for the users a detachment frees: at the commit
  only those still match that were picked and still follow the schedule.
* **`Fail` is every way to end without writing**: a check of employee, scope, terminal
  or payer; a face that does not match; a database error; a server that stops. It may
  happen at any time before the commit. After it, a stop loses the notification.
* **Slips.** An operator whose comment starts with *Slip* is not part of the model. It
  is a plausible mistake in the operator after it: with the mistake in place TLC finds
  the property named beside it in `PROJECT.json` ("mutants") violated.

What `Attendance` abstracts. Time is in instants from the start of day 0 in the company's
zone. A day has `DayLength` of them and a minute `MinuteLength`: `toZonedDateOnly` is `Day`
(integer division), `parseTimeToZonedDate` adds the schedule's minute to the start of the
day, and `calculateMinutesDifference` drops what is less than a minute. Days of another
length when a zone shifts its clock are left out. The work schedule, the leave of a day and the KPI
template's rates do not change within a run. Images, similarity, notes and the
terminal's and branch's identities are data nothing reads. An automatic adjustment
carries its row and category, as its reason does in the code
(`auto-attendance:<row>:<category>`), and the request that made it, so that two equal
rows in the table are two here. Rates are whole numbers. The office's page of salary
adjustments (`SalaryAdjustmentService`) creates, edits and deletes automatic ones like any
other; `office` counts these writes, to bound them, and remembers the days whose automatic
adjustments it has changed since `AttendanceService` last made them. The sync deletes by
employee, date and reason: an automatic row the office gives another date or reason has
left the day and counts as deleted from it; nothing undoes it, although
`docs/salary-adjustment-api.md:143` says that the next check-in or check-out discards an edit.

What `Payroll` abstracts. Of the money columns only the net salary and the paid amount
are read by the code; the others are written through. Amounts are whole numbers of the
smallest unit. The code adds JavaScript doubles, so that for instance 0.1 + 0.2 exceeds
0.3 and an exact last payment is refused; nothing in the model shows this.

What `WorkSchedule` abstracts. A schedule is its owner and its attachments, a user a
company and a schedule. Names, times, work days, branches, the active flag and the
actor's company are left out: what is refused because of them is `Fail`. `Init` is any
rows that satisfy the invariants, so the calls of a run start from everything that
earlier calls could have left. `null` (`None`) and a field left out (`Absent`) are two
values, as in `UserService.update`. An attachment has an identity of its own, because
the code loads it and later writes to it by that identity. A user that is created bears
the name of the call, like a schedule that is created; until then its row is `Nobody`, and
calls are about the users there are (`Hired`). A company or a user is not deleted within a
run.

What `EmployeeLeave` abstracts. A leave has its company, branch, employee, first and last
day, number of days, duration and status; type, reason, hours, who answered and the notices
to overseers are left out, because no condition reads them. A number of days the office
gave is `Given`, one the code counted is a number. `Validated` is what a body must have to
reach the service. `staff` is as much of a user's row as leaves and reminders read, and
`EditStaff` changes it at any time; `companyOf` is the company of each branch, which
`MoveBranch` changes. `moved` is history: who has changed company or branch, and which
branches the company; their leaves and their staff stay behind.

What `Reminders` abstracts. One day that does not end; an employee has not come, is in, or
has left; whether the scheduled end has passed is a set that grows. Of the notifications
only those count that `notifyOnce` would find: `notices` is how many of each title an
employee has of today. The office may add one, take one away or make one another, by a new
title or user; `reminded` counts what passes have sent since the office last left the
employee with none. The time of day, the
zone and the text are left out. A pass is not tied to a firing of the cron: as many may be
under way together as there are members of `Passes`, and each starts again when it has
ended.

What `HttpCache` abstracts. The tables a resource's answers show are the constant `ReadsOf`,
those its other requests change `WritesOf`; a table is the number of its changes, an answer
the numbers its handler read. A key is the resource and the reader: the query string and the
headers split answers further and change nothing. The entries' five minutes are `Expire`,
which may happen at any time and must happen some time. `outrun` is history: the keys whose
stored answer was read before a change and stored after it, shows a table changed through
another resource, or was left by a removal that did not take place.

What `Sessions` abstracts. A user is whether they are active and blocked; a session has a
user and may have expired; a device has at most one user, as the unique token has. Passwords
are a refusal that may happen (`StopAuthCall`). `barred` and `cut` are history: whether the
user has been barred ever since the call began, and whether the session of a refresh has
been removed since it began, or has expired and not been found yet. `silent` are the devices
that were logged out and asked for by nobody since, `quiet` those that were so when a push
read where to go. A push is for one user or for everybody.

What `Directory` abstracts. A row is its kind, the rows it belongs to, a name and a switch.
All services load, check, write and lock nothing in between, so the steps are shared, and
what each checks is an operator of its own, translated from that service. Uniqueness is that
of the indexes, nulls included; deletions cascade as the schema says. Users are employees:
what a manager may not do to users of other roles is left out. Three histories say when
agreement between rows ends: `strayed` rows have changed their company, `mixed` ones were
written by a call that another one had overtaken, `orphaned` ones have lost what they
belonged to. Attendance rows, leaves, payrolls, tasks and tokens are only listed, opened and
deleted here; their own modules write them.

What `Tasks` abstracts. Texts, order numbers and departments are left out. `informed` is who
was told of being on a task, `missed` those whose notice failed or came too late, `clashed`
the tasks whose dates were written past another call.

## 3. The runs

| Run | Question | Result |
| --- | --- | --- |
| `overlap` | What holds however three calls overlap, by operator, app and terminal, over two days, with a write of the office among them? | passes |
| `serial` | What holds when the calls on one employee's day come one after the other, and fail or crash anywhere? | passes, and implements `DayRecord` |
| `settle` | Does every path settle minutes and adjustments, as the document says? | violated: a terminal event zeroes the minutes and keeps the adjustments |
| `collapse` | Does a time only move outwards, as the document says? | violated: the second of two overlapping events writes back what it read |
| `sessions` | Is a second open session refused, as the document says? | violated: both overlapping self check-ins pass the check |
| `ledger` | What holds of payrolls when payments of one payroll do not overlap each other and everything else does? | passes, and implements `PayrollLedger` |
| `void` | Is a cancelled payroll left alone when no edit of it runs beside a payment of it? | passes |
| `overpaid` | Does the total of accepted payments stay within the net salary, as the document says? | violated: two payments are checked against one balance |
| `schedules` | What holds of schedules, defaults and users when no two calls overlap that make a default of one company (or touch one schedule), and no assignment to a schedule overlaps a detachment from it? | passes |
| `promote` | Has a company one default at most, as the document says? | violated: two overlapping promotions clear what they saw and both set their own |
| `office` | What must happen in the end, though passes fail, rows change under them and answers are outrun? | passes: who stays due a reminder gets it, and stored answers end up fresh |
| `people` | What do any two overlapping calls leave true of leaves, sessions and devices, the directory, and tasks? | passes |

The properties, by run:

* `overlap`. `AdjustmentsFollowRow`: the automatic adjustments are those the row's
  minutes call for, by one call, unless the office changed one since; the next call on the
  day undoes what it changed. `IngestedOnce`: one raw log for an event.
  `TimesComeFromEvents`: a time in a row is the time of an accepted event of that kind, employee and
  day; an overlap may drop or revive an event but invents none. `MobileRowsAgree`: minutes and
  status fit the times whenever the app wrote last. `CallsSound`: what a call in flight
  may rely on when it commits.
* `serial`. `NoEventLost`: no accepted event lies outside the day's times.
  `OneOpenSession`. `ServiceRowsAgree`: minutes and status fit the times whenever
  `AttendanceService` wrote last. `KeepsDayRecord`: refinement of `DayRecord`.
* `ledger`. `OnePerMonth`; `PaidIsSumOfPayments`; `OverpaidOnlyByEdit`. `KeepsLedger`:
  refinement of `PayrollLedger`, so that no edit, whatever it loaded, touches the paid
  amount, no payment touches anything but the paid amount and the status, and each payment
  fits what the payroll says when it is recorded, or said before an edit.
* `void`. `CancelledIsNotPaid`.
* `schedules`. `Wired`: an owner keeps its own attachment, and no attachment or user
  refers to a schedule that was deleted, whatever was loaded before. `AtMostOneDefault`.
  `KeepsADefault`: at no commit does a company lose its default but with the default's
  attachment; a promotion that fails half way leaves the old one. `ScheduleAttached`: a
  user's schedule is attached to the user's company, unless the user was created or edited
  through `UserService.create` or `update`, which check only that the schedule exists.
* `office`. `NoticesBounded`: a reminder goes out at most as often as passes overlap, and as
  often again only when the office has taken away the last notification of it.
  `NoticesJustified`: only to who was to work and whose day was over, the one about the
  check-out only to who has come. `RemindersArrive` (liveness): who stays due a reminder
  gets it, though passes fail at somebody or are cut off. `StaleOnlyIfOutrun`: a stored
  answer is behind its tables only while a removal is still to come or where a change has
  outrun it. `EventuallyFresh` (liveness): some time after the last change every stored
  answer is fresh, whatever was outrun, lost or left over. `OfficeTypeOK`.
* `people`, leaves. `RangesSound`. `LeavesInCompany`: whatever an edit replaces and whatever
  it had loaded, a leave is of the company and branch of its employee, until one of the
  three moves. `AnsweredOnce`. `AnswerReachesEmployee`: what the employee was last told of an
  answered leave is how it was answered, when no notice is pending or was lost, unless two
  answers overlapped or the leave was given to somebody else.
* `people`, sessions. `BarredGetNoToken`: a call that found its user barred, and nobody
  admitted the user since, gives no token, whichever of its steps is overtaken.
  `EndedGivesNoToken`: a refresh gives no token when its session has been removed, though it
  found the session before, or had expired when it was found; one that expires after that
  still gives a token (`auth.service.ts:97`). `SilentAfterLogout`: a device that was logged
  out stays without a user until somebody logs in from it or the office gives it away, and
  no push that reads in that time where to go goes to it; one that had read before does.
* `people`, directory. `ParentsAgree`: what a row belongs to is of its company; the
  exceptions are rows the histories name, which the services leave behind knowingly or
  lose to an overlap. `NamesTellApart`. `ListedIsOpen`: a list, which filters by the rows'
  users or branches, shows nobody what the check of the single row refuses; it covers all
  eighteen services that do both.
* `people`, tasks. `DatesOrdered`: an update that sends one date was checked against the
  other as it is. `AssigneesTold`: whoever is on a task was told, is about to be, or is
  known to have been missed; nobody is told who knows. `PeopleTypeOK`.

The constants `Overlap` of `Attendance` and `Apart` of `Payroll` and `WorkSchedule` say what may be in
flight together: without `Overlap`, no two calls on one employee's day before they commit;
with a pair in `Apart`, no two calls of these kinds that are about one payroll, or about one
company or one schedule. Calls about anything else overlap freely even then. They are not
features of the code: they separate what holds always from what holds only as long as such
calls happen not to overlap, and the violated runs show that the second kind does break.

**Bounds.** One employee: rows, sessions, adjustments and logs of different employees
never meet in any statement. Two days (`MaxTime` 4, days of four instants): an event near
midnight falls on either side, a session may stay open over it. A minute is one instant,
but two in `serial`, where the seconds a difference drops occur. Terminals send times 1 and 3,
for the employee or a stranger; in `overlap` time 3 for the employee only, so that the
office's one write fits in (`MaxWrites`): no property relates more than one change of the
office to the calls after it. Three requests: one to
create the row or open the session and two to race on it; no property relates more than
two calls and the row they found. The schedule runs from minute 1 to minute 2 of the
day (in `serial` from 0 to 1), so early, on-time, late, early-leave and overtime all occur. The leave constant
gives one day none and the other an hour of one minute. For payrolls: two employees and
two months so that an edit may collide with another row; three requests; net salaries
and payments of 1 and 2, so that a payment may be partial, exact and excessive. For
schedules: two from the start and one for each creation, two companies (owner and
guest), one user and one that a call creates, two requests from any consistent
rows; about two million distinct states. No property relates more than two calls. The requests are symmetric, in
`Payroll` also employees and months, in `WorkSchedule` everything.

In `office`, behaviours are those of the reminders or of the cache, which share no state.
Reminders: one company, whose branch does not move; one employee (a pass treats employees
one after the other and keeps nothing between them but the list of those left), enabled or
not, with or without a pending leave that another call approves or deletes; two passes, and one failure (`MaxFailures`) at any
point, so that a pass may be lost between the look for a notice and the notice; one
notification written, moved or taken away by the office (`MaxEdits`). Cache: two
resources, one of which shows the table of the other; two readers, two requests at a time,
each of which may be followed by others, and one change of each table (`MaxVersion`): an
answer read before a change meets the removal after it, of its own or of another resource.

In `people`, behaviours are those of one of the four parts. Two calls each: the properties
relate what one call loaded to what one other wrote. The inputs are a chosen list for each
endpoint: what is sent and left out, by whom, from which company. Leaves: two companies, in
one of them two branches; two employees, one at work in the first branch, the other in any
of four states; an employee moves at most once, and the first branch (`MovingBranches`)
once; one leave of three forms from the start. Sessions: two users, one of whom may be
barred from the start, one device (no statement relates one device to another), one session
and those logins open. Directory: two companies, in one of them a row of each
kind. Tasks: one task and one project. The two calls are interchangeable.

**Deadlock** is not checked: a run stops when its requests are used up and the clock is
at its bound.

**Fairness** is assumed in `office` only, of three kinds of step.

* `PassFairness`: a pass that may take a step some time takes one. The cron
  (`attendance.service.ts:118`) fires every half hour whatever became of the passes before,
  also after a restart, and a pass awaits nothing but the database. What it leaves open is the
  day: `Today` does not end, so the property speaks of days on which a pass still runs after
  the end of the shift. The last one is at 23:30; who works longer is never reminded.
* `CacheFairness`: a GET that has read its tables stores its answer or loses it (the client
  of Redis answers or times out), and a stored answer expires: the store sets each entry with
  a life of five minutes, and Redis removes it.

Failures are bounded (`MaxFailures`): a pass that failed at the same employee every time would
never remind that one. A removal of answers is not assumed to go on: `EventuallyFresh` holds
even if it never takes place. All other properties are safety properties: the server may stop
at any point, and apart from the cron no code finishes later what a stop cut short.

## 4. The theorems

The proof modules establish, for any number of employees, days, months, schedules,
companies and requests, any leave, rates and amounts, any resources and readers of the
cache, any sessions, devices, tasks and passes, any rows, names and actors of the
directory, and whatever the clients send:

| Theorem | States |
| --- | --- |
| `AttendanceProofs!TypeCorrect` | `Spec => [](TypeOK /\ CallsSound)` |
| `AttendanceProofs!AdjustmentsCorrect` | `Spec => []AdjustmentsFollowRow`, for any number of writes of the office |
| `AttendanceProofs!IngestionCorrect` | `Spec => []IngestedOnce` |
| `AttendanceProofs!TimesCorrect` | `Spec => []TimesComeFromEvents` |
| `AttendanceProofs!ReadsCorrect` | `Spec => []ReadsComeFromEvents` |
| `AttendanceProofs!CallsCorrect` | `Spec => []CallsSound` |
| `AttendanceProofs!MobileRowsCorrect` | `Spec => []MobileRowsAgree` |
| `AttendanceProofs!ServiceRowsCorrect` | `~Overlap` implies `Spec => []ServiceRowsAgree` |
| `AttendanceProofs!OneOpenCorrect` | `~Overlap` implies `Spec => []OneOpenSession` |
| `AttendanceProofs!NoEventLostCorrect` | `~Overlap` implies `Spec => []NoEventLost` |
| `AttendanceProofs!DayRecordImplemented` | `~Overlap` implies `Spec => KeepsDayRecord`, the refinement of `DayRecord` |
| `AttendanceProofs!DayBalances` | the minutes of a scheduled day, worked, missed and beyond, make up the schedule, but for two minutes lost or one gained by the seconds dropped |
| `AttendanceProofs!CollapsingHelps` | an earlier arrival, a later departure or a longer leave costs no minutes |
| `AttendanceProofs!NightShiftIsOvertime` | what the code makes of a schedule that ends after midnight |
| `PayrollProofs!TypeCorrect` | `Spec => [](TypeOK /\ CallsSound)` |
| `PayrollProofs!OnePerMonthCorrect` | `Spec => []OnePerMonth` |
| `PayrollProofs!OverpaidCorrect` | `{"pay"} \in Apart` implies `Spec => []OverpaidOnlyByEdit` |
| `PayrollProofs!PaidCorrect` | `{"pay"} \in Apart` implies `Spec => []PaidIsSumOfPayments` |
| `PayrollProofs!CancelledCorrect` | `{"pay", "update"} \in Apart` implies `Spec => CancelledIsNotPaid` |
| `PayrollProofs!LedgerImplemented` | `{"pay"} \in Apart` implies `Spec => KeepsLedger`, the refinement of `PayrollLedger` |
| `WorkScheduleProofs!TypeCorrect` | `Spec => [](TypeOK /\ CallsSound)` |
| `WorkScheduleProofs!WiredCorrect` | `Spec => []Wired` |
| `WorkScheduleProofs!KeepsADefaultCorrect` | `Spec => KeepsADefault` |
| `WorkScheduleProofs!AtMostOneDefaultCorrect` | no two of create, attach and setDefault overlap implies `Spec => []AtMostOneDefault` |
| `WorkScheduleProofs!ScheduleAttachedCorrect` | `{"assign", "detach"} \in Apart` implies `Spec => []ScheduleAttached` |
| `EmployeeLeaveProofs!LeaveTypeCorrect` | `LeaveSpec => []LeaveTypeOK` |
| `EmployeeLeaveProofs!RangesCorrect` | `LeaveSpec => []RangesSound` |
| `EmployeeLeaveProofs!InCompanyCorrect` | `LeaveSpec => []LeavesInCompany` |
| `EmployeeLeaveProofs!AnsweredOnceCorrect` | `LeaveSpec => []AnsweredOnce` |
| `EmployeeLeaveProofs!ReachesEmployeeCorrect` | `LeaveSpec => []AnswerReachesEmployee` |
| `OfficeProofs!ReminderAtMostOncePerPass` | `OfficeSpec => []NoticesBounded`, for any number of writes of the office |
| `OfficeProofs!ReminderJustified` | `OfficeSpec => []NoticesJustified` |
| `OfficeProofs!ReminderTypeCorrect` | `OfficeSpec => []ReminderTypeOK` |
| `OfficeProofs!CacheTypeCorrect` | `CacheSpec => []CacheTypeOK` |
| `OfficeProofs!StaleCorrect` | `CacheSpec => []StaleOnlyIfOutrun` |
| `OfficeProofs!OfficeTypeCorrect` | `Spec => []OfficeTypeOK` of `MCOffice`, for any constants |
| `OfficeProofs!OfficeCorrect` | the safety properties of the run `office`, of the same `Spec` |
| `SessionsProofs!SessionTypeCorrect` | `SessionSpec => []SessionTypeOK` |
| `SessionsProofs!BarredCorrect` | `SessionSpec => []BarredGetNoToken` |
| `SessionsProofs!EndedCorrect` | `SessionSpec => []EndedGivesNoToken` |
| `SessionsProofs!SilentCorrect` | `SessionSpec => []SilentAfterLogout` |
| `TasksProofs!TasksTypeCorrect` | `TasksSpec => []TasksTypeOK` |
| `TasksProofs!DatesCorrect` | `TasksSpec => []DatesOrdered` |
| `TasksProofs!AssigneesCorrect` | `TasksSpec => []AssigneesTold` |
| `DirectoryProofs!DirectoryTypeCorrect` | `DirectorySpec => []DirectoryTypeOK` |
| `DirectoryProofs!ParentsCorrect` | `DirectorySpec => []ParentsAgree` |
| `DirectoryProofs!NamesCorrect` | `DirectorySpec => []NamesTellApart` |
| `DirectoryProofs!ListedCorrect` | `DirectorySpec => []ListedIsOpen` |
| `DirectoryProofs!PeopleTypeCorrect` | `PeopleSpec => []PeopleTypeOK` of `MCPeople`, for any constants |
| `DirectoryProofs!PeopleCorrect` | the safety properties of the run `people`, of the same `PeopleSpec` |

Assumptions are the named ASSUMEs of the modules: types of the constants and that null
is no value of another kind. TLC evaluates them in every run.

The argument. `TypeOK` alone is not inductive: a commit dereferences what an earlier
step read (the session to close, the row a check-out found, the row a payment loaded).
`CallsSound` records what each phase of a call guarantees, and `TypeOK /\ CallsSound` is
inductive, one step per action. `AdjustmentsFollowRow` then follows because every
commit but the terminal's replaces a day's adjustments and its row together, and forgets
that the office had touched them, and
`IngestedOnce` and `OnePerMonth` because the unique index guards the step itself.

The other properties of a day rest on one lemma, `StepKinds`: every step begins a call,
moves one on, ends one, or is one of the five commits, and only a commit writes a table.
`EventsInv` puts the times that calls have read beside the times in the rows, since a stale
commit writes what was read; both are those of accepted events. `MobileRowsAgree` holds
under any overlap, as the app's commits compute the minutes from the very times they write.
What holds only where the calls on one employee's day follow one another assumes `~Overlap`
and uses `SerialInv`: of each such day one call is before its commit (`Alone`), what it has
read is the row as it is (`ReadsFresh`), since calls on other days and employees write other
rows, and who is about to check in has no open session (`NoneOpen`). A commit
then collapses the row of the moment with the new event, so that it keeps the earliest
arrival and the latest departure (`NoEventLost`) and is a step of `DayRecord` or a stutter.

`OverpaidOnlyByEdit` needs `LedgerInv`: a payment about to be written fits the row it
loaded (`PayFits`), the paid amount it loaded still stands because only another payment
could have changed it (`Exclusive` excludes one), and the net salary still stands or an
edit was accepted since. `CancelledIsNotPaid` needs `VoidInv`: the row a payment is about
to write to is not cancelled, because only an edit cancels.

`PaidIsSumOfPayments` needs `LedgerInv` too, for what a payment adds to is what stands, and
`PaymentsSound`: accepted payments are finite in number and are of rows whose creation is
over, so that a new row has none. Its sum is a fold over a set of calls. The facts about it
(it does not depend on the order in which the set is taken, and one more element adds its
value: `SumTakes`, `SumAdds`) are shown by the least counterexample: among the finite
sets for which one fails there would be a smallest, and taking an element from it gives a
smaller one.

`LedgerImplemented` maps each payroll to itself and `edited` to the payrolls some edit was
accepted for. It needs, beyond `LedgerInv`, that what a payment loaded of a payroll nobody
edited still stands as a whole (`PayStands`): then the status the payment derives from the
net salary it loaded is the one of the payroll as it is. Where edits may run beside payments
the abstract ledger allows for a payment that fits what an edited payroll said before, and
for nothing else; with `{"pay", "update"}` in `Apart` as well it does not even allow that.

The minutes of a day are shown by cases of where the two times lie with respect to the two
ends of the schedule (`MetricsAre`). Each of the four differences drops its seconds for itself
(`WholeBounds`), which is why they make up the schedule only within bounds. `NightShiftIsOvertime` says what follows from
`parseTimeToZonedDate` putting both ends of a schedule on one calendar day, which the DTO of
a schedule does not keep from being in the wrong order: there is no early leave after the
start, and overtime exceeds what was worked.

For `WorkSchedule`, `CallsSound` adds what a request that loaded a schedule knows: its
creation is over, so that no request is about to insert that schedule again, and a
detachment in flight is never the owner's. With it `Wired` is inductive: every write
that refers to a schedule is guarded by the foreign key, and every deletion takes what
refers to it along. `KeepsADefault` follows because whoever clears defaults sets one in
the same step. `AtMostOneDefault` needs `SeenAll`: as long as nobody else makes a
default, the rows an open transaction picked are all the defaults there are, and
`CallsApart` says that nobody of the same company or schedule does. `ScheduleAttached` needs `AssignmentsHold` (the
attachment an assignment saw is still there, or its schedule is gone, or its user was
edited) and `StaffAll` (the users a detachment picked are all who follow the schedule,
but for those edited since).

For `EmployeeLeave`, `RowsInv` says that what a call is about to write is as sound as what
is there: the rows of a grant or a request are, and so is a leave with the ends an edit
computed from the one it loaded. Its reason is that an edit writes both ends and the number
of days together. `LeavesInCompany` needs more: an employee that has not
moved has a branch of its company, unless the branch has moved (`StaffSound`), so that the
row of a request, which is not checked, fits; and an edit that was checked against the
employee's company and branch still fits, unless the employee or the branch has moved.
`AnswersInv` is for `AnsweredOnce`: an answer that has been written keeps its leave from
being pending (`AnswerStays`), no row is created under a name some call has used
(`NamesFresh`), and whoever is ready to answer found the leave pending, so that each answer
before it was still in flight and knows of it, or it of that one (`AnswerersKnown`).
`NewsInv` is for `AnswerReachesEmployee`: what an answer or an edit has loaded is of the
employee the leave has now, or the leave was given away since (`NewsSound`); a leave bears
the status of its one answer (`AnswersStand`); and of every answered leave the employee
knows, or a call has the news, or one of the two exceptions holds (`Informed`).

For `Reminders`, `PassesSound` says what a pass has seen that still stands (the day is over
and does not begin again, who has come has come); `SentOrSending` that the reminders that
went out and the passes about to send one are together no more than there are passes: a
pass is about to send only if it saw none. `RemindedKnown` is why the office cannot break it:
who counts as reminded has a notification that says so, so that a pass that finds none starts
the count. Each reminder after the first comes from a pass that looked before it.

For `HttpCache`, `CallsSound` says that the answer a GET is about to store is fresh unless a
change has outrun it, and `StaleIsRemoved` that a stored answer that is neither fresh nor
outrun lies ahead of a scan, or of a request that is about to start one.

For `Sessions`, `Stands` is the heart: whom a call has found barred ever since is still
barred and still has the session the call is about; a session that was removed under a
refresh is still gone, and one that had expired, and is not found yet, still has. It takes `NamesFresh`, that no session returns under a name, and that whoever
admits a user resets the history in the same step. `SilentSound`: no call under way is to
give a silent device to anybody; a push finds none of them because they are nobody's.

For `Tasks`, `UpdateSound` says of an update about to be written that its dates are in order
with those the task has now, or that another call has changed them since. `ToldInv` is for
`AssigneesTold`: those an assignment is about to tell are the ones it adds to the assignees
there are now, unless another call has replaced them, of which it knows (`ToldSound`); so at
most one call tells the assignees of a task as they are, and it has not told them yet.

For `Directory`, `DirectoryInv` says what each phase of a call knows. What it loaded still
stands unless the call was crossed; what it checked about links (`LinksChecked`) and names
(`NameChecked`) still holds of the row it is about to write. The lemmas named `...Fits`
show, service by service, that what `create` and `update` let through fits. `ColumnsOnly`
says a row has no links but those its table has columns for: a service checks the links of
its own body, and nothing else could put one there. `IdsFresh` says that a row created by a
call bears its name, so that a new row replaces nothing. Deletions take along, or cut off,
what belongs to the row, and the history `orphaned` says what was cut off. `ListedIsOpen`
needs only `ColumnsOnly` and the types, by cases on each service's way of listing and opening:
a position, say, has no branch of its own, so that the department's decides both.

Only model-checked: the liveness properties `RemindersArrive` and `EventuallyFresh`, since
liveness and ENABLED are out of the provers' reach. Every other property of the passing runs
is a theorem.

`OfficeTypeCorrect`, `OfficeCorrect`, `PeopleTypeCorrect` and `PeopleCorrect` are about the
joined specifications the two runs check: each of their steps is one of a part and leaves
the other parts alone (`NextOffice`, `NextPeople`), so that the parts' inductive invariants
hold side by side.

## 5. Not modelled

Not modelled at all: read-only endpoints beyond whom a list shows what (statistics, paging,
search), routing, formatting, file upload, seed scripts, the face-verification service beyond
"takes long and may fail", app versions and the KPI template's own endpoints (CRUD whose
statements depend on nothing but their own row), and of work schedules `update` and
`toggleStatus`, which write columns that no modelled step depends on. Of users: passwords,
roles, employee numbers and photographs. An access token, once handed out, is good until it
expires, whatever happens to its session or its user; no guard looks at either again, so
there is nothing to model after it is issued.

Two limits of the models are worth knowing. Leave is a constant in `Attendance`, so that a
leave approved after a check-in and minutes that are not recomputed do not meet. And an
overnight schedule, whose end the code puts on the day it starts, is in no run: no document
says what it should give (`NightShiftIsOvertime` says what it gives).

Left for later: leaves that change under a day's attendance, with the minutes that are not
recomputed.
