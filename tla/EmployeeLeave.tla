---------------------------- MODULE EmployeeLeave ----------------------------
(***************************************************************************)
(* Leaves of employees.  The office grants one, or one for everybody, and  *)
(* edits and deletes them; an employee requests one, and the office        *)
(* approves or rejects it.  A call loads and checks, writes, and tells the *)
(* people concerned after the write has been committed; nothing is locked  *)
(* in between, and a process that stops in between tells nobody.           *)
(***************************************************************************)
EXTENDS Scope, Integers

CONSTANTS
    Given,          \* a number of days the office gave itself
    Employees,      \* a subset of Users
    SeedCompanyOf,  \* SeedCompanyOf[b]: the company of branch b at the start
    MovingBranches, \* bound: the branches that may move to another company
    LastDay,        \* days are 1 .. LastDay
    StaffRows,      \* the rows employees may have
    SeedLeaves,     \* leaves there are at the start
    SeedRows,       \* what those may look like
    LeaveRequests,  \* identities of the calls that are made
    LeaveInputs     \* what the clients send

Days == 1 .. LastDay

\* The leave a call grants an employee bears the names of both.
Leaves == SeedLeaves \cup (LeaveRequests \X Employees)

Statuses == {"pending", "approved", "rejected"}
Durations == {"hourly", "daily", "multi_day"}

StaffRow == [company : Companies \cup {None}, branch : Branches \cup {None},
             enabled : BOOLEAN]

LeaveRow == [company : Companies, branch : Branches \cup {None}, employee : Employees,
             from : Days, to : Days, days : 0 .. LastDay \cup {Given},
             duration : Durations, status : Statuses]

LeaveKinds == {"grant", "grantAll", "request", "approve", "reject", "edit", "delete"}
AnswerKinds == {"approve", "reject"}
OfLeaveKinds == AnswerKinds \cup {"edit", "delete"}

LeaveInput ==
    [kind : LeaveKinds, actor : Actor, employee : Employees \cup {Absent},
     company : Companies \cup {Absent}, branch : Branches \cup {None, Absent},
     from : Days \cup {Absent}, to : Days \cup {Absent}, days : {Given, Absent},
     duration : Durations]

LeavePhases == {"idle", "started", "loaded", "ready", "written",
                "done", "refused", "lost"}

\* rows are those the call is to write, or what it loaded; during is history: the
\* answers in flight when this one found the leave pending.
LeaveCall == [phase : LeavePhases, sent : LeaveInput \cup {None},
              leave : Leaves \cup {None}, rows : SUBSET LeaveRow,
              during : SUBSET LeaveRequests]

\* What the validation of a body lets through: a leave that is granted or requested has a
\* first day, a granted one a last day, and the one granted to somebody names the employee.
Validated(sent) ==
    /\ sent.kind \in {"grant", "grantAll", "request"} => sent.from # Absent
    /\ sent.kind \in {"grant", "grantAll"} => sent.to # Absent
    /\ sent.kind = "grant" => sent.employee # Absent
    /\ sent.kind = "request" => sent.actor.sub \in Employees

ASSUME LeaveAssumption ==
    /\ Employees \subseteq Users
    /\ SeedCompanyOf \in [Branches -> Companies]
    /\ MovingBranches \subseteq Branches
    /\ LastDay \in Nat \ {0}
    /\ SeedLeaves \cap (LeaveRequests \X Employees) = {}
    /\ StaffRows \subseteq StaffRow
    /\ SeedRows \subseteq LeaveRow
    /\ LeaveInputs \subseteq LeaveInput
    /\ \A sent \in LeaveInputs : Validated(sent)
    /\ None \notin LeaveRow \cup LeaveInput \cup Leaves
    /\ Given \notin Int /\ Given # Absent

VARIABLES
    staff,      \* staff[e]: the company, the branch and the state of employee e
    leave,      \* leave[l]: the row of leave l, None if there is none
    told,       \* told[l][e]: the status of l that e was last told of, None at first
    companyOf,  \* companyOf[b]: the company of branch b
    moved,      \* history: the employees that have changed their company or branch, and
                \* the branches that have changed their company
    leaveCall   \* leaveCall[r]: the state of request r

leaveVars == <<staff, leave, told, companyOf, moved, leaveCall>>

IdleLeaveCall == [phase |-> "idle", sent |-> None, leave |-> None, rows |-> {},
                  during |-> {}]

LeaveTypeOK ==
    /\ staff \in [Employees -> StaffRow]
    /\ leave \in [Leaves -> LeaveRow \cup {None}]
    /\ told \in [Leaves -> [Employees -> Statuses \cup {None}]]
    /\ companyOf \in [Branches -> Companies]
    /\ moved \subseteq Employees \cup Branches
    /\ leaveCall \in [LeaveRequests -> LeaveCall]

Granted == {l \in Leaves : leave[l] # None}
Answered == {l \in Granted : leave[l].status # "pending"}

\* An approved leave covers the day, an hourly one like any other.
OnLeave(e, day) ==
    \E l \in Granted : /\ leave[l].employee = e /\ leave[l].status = "approved"
                       /\ leave[l].from <= day /\ day <= leave[l].to

(***************************************************************************)
(* Rows that agree with one another.                                       *)
(***************************************************************************)

\* getDays, and an hourly request: what the office did not give is counted.
SoundRange(row) ==
    /\ row.from <= row.to
    /\ \/ row.days \in {Given, row.to - row.from + 1}
       \/ row.duration = "hourly" /\ row.days = 0 /\ row.from = row.to

\* A leave never ends before it starts, and its days are those of its dates or the
\* ones the office gave, although an edit may change one end of it while another
\* edit, which loaded the leave before, changes the other.
RangesSound == \A l \in Granted : SoundRange(leave[l])

InCompany(row) ==
    /\ staff[row.employee].company = row.company
    /\ row.branch # None => /\ companyOf[row.branch] = row.company
                            /\ staff[row.employee].branch \in {None, row.branch}

\* Whoever moves leaves the rows behind that name it.
LeftBehind(row) == {row.employee, row.branch} \cap moved # {}

\* A leave is of the company its employee works for, and of a branch of it, if any, that
\* is the employee's if the employee has one: whichever of the three an edit replaces and
\* however edits overlap, until the employee moves to another company or branch, or the
\* branch to another company; then the leaves stay behind.
LeavesInCompany == \A l \in Granted : InCompany(leave[l]) \/ LeftBehind(leave[l])

\* The answers to leave l that have been written.
Answers(l) ==
    {r \in LeaveRequests : /\ leaveCall[r].phase \in {"written", "done", "lost"}
                           /\ leaveCall[r].leave = l
                           /\ leaveCall[r].sent.kind \in AnswerKinds}

\* A leave is answered once, but for answers that were in flight together: each found
\* it pending before the other was written.
AnsweredOnce ==
    \A l \in Leaves : \A q, r \in Answers(l) :
        q = r \/ q \in leaveCall[r].during \/ r \in leaveCall[q].during

\* Nobody is about to tell what was written of l, and nobody failed to.
AtRest(l) ==
    \A r \in LeaveRequests :
        leaveCall[r].phase \in {"written", "lost"} =>
            leaveCall[r].leave # l /\ l \notin {r} \X Employees

\* The office has edited l to name an employee.
Reassigned(l) ==
    \E r \in LeaveRequests :
        /\ leaveCall[r].phase = "done" /\ leaveCall[r].leave = l
        /\ leaveCall[r].sent.kind = "edit" /\ leaveCall[r].sent.employee # Absent

\* The last thing the employee was told of an answered leave is how it was answered:
\* when the notice has gone out, unless two answers overlapped or the leave was given to
\* somebody else.
AnswerReachesEmployee ==
    \A l \in Answered :
        \/ told[l][leave[l].employee] = leave[l].status
        \/ ~AtRest(l) \/ Reassigned(l) \/ \E q, r \in Answers(l) : q # r

\* An employee of a company has a branch of it, if any.
StaffInCompany(row) ==
    row.branch # None => row.company = companyOf[row.branch]

LeaveInit ==
    /\ companyOf = SeedCompanyOf
    /\ staff \in [Employees -> {row \in StaffRows : StaffInCompany(row)}]
    /\ leave \in {[l \in Leaves |-> IF l \in SeedLeaves THEN rows[l] ELSE None] :
                      rows \in [SeedLeaves -> SeedRows \cup {None}]}
    /\ told = [l \in Leaves |-> [e \in Employees |->
                  IF l \in Answered /\ leave[l].employee = e THEN leave[l].status ELSE None]]
    /\ moved = {}
    /\ leaveCall = [r \in LeaveRequests |-> IdleLeaveCall]
    /\ RangesSound /\ LeavesInCompany

(***************************************************************************)
(* The start of a call: the role its endpoint wants, and its leave if it   *)
(* is about one.                                                           *)
(***************************************************************************)
MayCallLeave(sent) ==
    CASE sent.kind = "request" -> sent.actor.role = "employee"
      [] sent.kind \in AnswerKinds -> sent.actor.role # "employee"
      [] OTHER -> sent.actor.role \in {"superadmin", "admin"}

StartLeaveCall(r) ==
    /\ leaveCall[r].phase = "idle"
    /\ \E sent \in LeaveInputs, l \in Granted \cup {None} :
          /\ MayCallLeave(sent)
          /\ sent.kind \in OfLeaveKinds <=> l # None
          /\ leaveCall' = [leaveCall EXCEPT ![r] =
                               [IdleLeaveCall EXCEPT !.phase = "started", !.sent = sent,
                                                     !.leave = l]]
    /\ UNCHANGED <<staff, leave, told, companyOf, moved>>

(***************************************************************************)
(* The reads.                                                              *)
(***************************************************************************)

\* What a call that is over leaves behind.
Ended(c, phase) == [IdleLeaveCall EXCEPT !.phase = phase, !.sent = c.sent,
                                         !.leave = c.leave, !.during = c.during]

LeaveRead(r, permits, next) ==
    /\ leaveCall' = [leaveCall EXCEPT ![r] = IF permits THEN next ELSE Ended(@, "refused")]
    /\ UNCHANGED <<staff, leave, told, companyOf, moved>>

Supplied(sent, value) == IF sent = Absent THEN value ELSE sent

\* getDays for a range; what the client gave goes unchecked.
GetDays(given, from, to) == IF given = Given THEN Given ELSE to - from + 1

\* The branch is one of the company, and so is the employee, who may have another
\* branch only if the leave names none.
LeaveFits(company, branch, e) ==
    /\ branch # None => companyOf[branch] = company
    /\ staff[e].company = company
    /\ branch # None => staff[e].branch \in {None, branch}

\* The company and the branch the office grants a leave in.
GrantPlace(sent) ==
    LET company == GetCompanyId(sent.actor, Supplied(sent.company, None))
    IN  GetScope(sent.actor, [company |-> company, branch |-> Supplied(sent.branch, None)])

\* A leave of the office is approved from the start, and "daily" however long.
GrantRow(sent, place, e, branch) ==
    [company |-> place.company, branch |-> branch, employee |-> e,
     from |-> sent.from, to |-> sent.to, days |-> GetDays(sent.days, sent.from, sent.to),
     duration |-> "daily", status |-> "approved"]

CheckGrant(r) ==
    LET sent == leaveCall[r].sent
        place == GrantPlace(sent)
        permits == /\ ~CompanyRefused(sent.actor, Supplied(sent.company, None))
                   /\ sent.from <= sent.to
                   /\ LeaveFits(place.company, place.branch, sent.employee)
    IN  /\ leaveCall[r].phase = "started" /\ sent.kind = "grant"
        /\ LeaveRead(r, permits,
               [leaveCall[r] EXCEPT !.phase = "ready",
                   !.rows = {GrantRow(sent, place, sent.employee, place.branch)}])

\* The employees at work in the company, or in the branch when one is named.
ActiveCrew(place) ==
    {e \in Employees : /\ staff[e].enabled /\ staff[e].company = place.company
                       /\ place.branch # None => staff[e].branch = place.branch}

\* createForAllEmployees lists them first; each leave gets its employee's branch
\* unless one is named.
ListCrew(r) ==
    LET sent == leaveCall[r].sent
        place == GrantPlace(sent)
        permits == /\ ~CompanyRefused(sent.actor, Supplied(sent.company, None))
                   /\ sent.from <= sent.to
                   /\ place.branch # None => companyOf[place.branch] = place.company
    IN  /\ leaveCall[r].phase = "started" /\ sent.kind = "grantAll"
        /\ LeaveRead(r, permits,
               [leaveCall[r] EXCEPT !.phase = "ready",
                   !.rows = {GrantRow(sent, place, e,
                                 IF place.branch = None THEN staff[e].branch ELSE place.branch) :
                             e \in ActiveCrew(place)}])

\* The dates an employee asks for: an hourly leave counts no day, and a leave of
\* several days needs its last one.
RequestedTo(sent) == IF sent.duration = "multi_day" THEN sent.to ELSE sent.from
RequestedDays(sent) ==
    IF sent.duration = "hourly" THEN 0 ELSE GetDays(Absent, sent.from, RequestedTo(sent))

\* The employee's company and branch are those of the employee's own row.
LoadRequester(r) ==
    LET sent == leaveCall[r].sent
        e == sent.actor.sub
        permits == /\ staff[e].company # None
                   /\ RequestedTo(sent) # Absent
                   /\ sent.from <= RequestedTo(sent)
    IN  /\ leaveCall[r].phase = "started" /\ sent.kind = "request"
        /\ LeaveRead(r, permits,
               [leaveCall[r] EXCEPT !.phase = "ready",
                   !.rows = {[company |-> staff[e].company, branch |-> staff[e].branch,
                              employee |-> e, from |-> sent.from, to |-> RequestedTo(sent),
                              days |-> RequestedDays(sent), duration |-> sent.duration,
                              status |-> "pending"]}])

PlaceOf(row) == [company |-> row.company, branch |-> row.branch]

\* The answers that found leave l pending and have not been written.
Answering(l) ==
    {q \in LeaveRequests : /\ leaveCall[q].phase = "ready" /\ leaveCall[q].leave = l
                           /\ leaveCall[q].sent.kind \in AnswerKinds}

\* Slip: whatever has been answered already is answered again.
LoadToAnswerAgain(r) ==
    LET c == leaveCall[r]
    IN  /\ c.phase = "started" /\ c.sent.kind \in AnswerKinds
        /\ LeaveRead(r, c.leave \in Granted /\ MayAccess(c.sent.actor, PlaceOf(leave[c.leave])),
               [c EXCEPT !.phase = "ready", !.rows = {leave[c.leave]},
                         !.during = Answering(c.leave)])

\* approve and reject: 404, 403, and 409 when the leave has been answered.
LoadToAnswer(r) ==
    LET c == leaveCall[r]
        permits == /\ c.leave \in Granted
                   /\ MayAccess(c.sent.actor, PlaceOf(leave[c.leave]))
                   /\ leave[c.leave].status = "pending"
    IN  /\ c.phase = "started" /\ c.sent.kind \in AnswerKinds
        /\ LeaveRead(r, permits, [c EXCEPT !.phase = "ready", !.rows = {leave[c.leave]},
                                           !.during = Answering(c.leave)])

\* The row as the edit leaves it: what was not sent is kept as it was loaded.
EditedRow(row, sent) ==
    LET company == Supplied(sent.company, row.company)
        place == GetScope(sent.actor, [company |-> company,
                                       branch |-> Supplied(sent.branch, row.branch)])
        from == Supplied(sent.from, row.from)
        to == Supplied(sent.to, row.to)
        days == CASE sent.days = Given -> Given
                  [] sent.days # Given /\ {sent.from, sent.to} # {Absent} -> to - from + 1
                  [] OTHER -> row.days
    IN  [row EXCEPT !.company = company, !.branch = place.branch,
                    !.employee = Supplied(sent.employee, row.employee),
                    !.from = from, !.to = to, !.days = days]

\* The edit loads the leave ...
LoadToEdit(r) ==
    LET c == leaveCall[r]
        permits == c.leave \in Granted /\ MayAccess(c.sent.actor, PlaceOf(leave[c.leave]))
    IN  /\ c.phase = "started" /\ c.sent.kind = "edit"
        /\ LeaveRead(r, permits, [c EXCEPT !.phase = "loaded", !.rows = {leave[c.leave]}])

\* Slip: the employee is held against the company only when the employee is replaced.
CheckEditOfEmployee(r) ==
    LET c == leaveCall[r]
        row == EditedRow(CHOOSE row \in c.rows : TRUE, c.sent)
        permits == /\ ~CompanyRefused(c.sent.actor, Supplied(c.sent.company, row.company))
                   /\ row.from <= row.to
                   /\ c.sent.employee # Absent =>
                          LeaveFits(row.company, row.branch, row.employee)
    IN  /\ c.phase = "loaded"
        /\ LeaveRead(r, permits, [c EXCEPT !.phase = "ready", !.rows = {row}])

\* ... and then holds the branch and the employee, replaced or not, against the company.
CheckEdit(r) ==
    LET c == leaveCall[r]
        row == EditedRow(CHOOSE row \in c.rows : TRUE, c.sent)
        permits == /\ ~CompanyRefused(c.sent.actor, Supplied(c.sent.company, row.company))
                   /\ ~ScopeRefused(c.sent.actor, PlaceOf(row))
                   /\ row.from <= row.to
                   /\ LeaveFits(row.company, row.branch, row.employee)
    IN  /\ c.phase = "loaded"
        /\ LeaveRead(r, permits, [c EXCEPT !.phase = "ready", !.rows = {row}])

LoadToDelete(r) ==
    LET c == leaveCall[r]
        permits == c.leave \in Granted /\ MayAccess(c.sent.actor, PlaceOf(leave[c.leave]))
    IN  /\ c.phase = "started" /\ c.sent.kind = "delete"
        /\ LeaveRead(r, permits, [c EXCEPT !.phase = "ready"])

(***************************************************************************)
(* The writes, and what is told after them.                                *)
(***************************************************************************)
LeaveWrite(r, kinds, phase) ==
    /\ leaveCall[r].phase = "ready" /\ leaveCall[r].sent.kind \in kinds
    /\ leaveCall' = [leaveCall EXCEPT ![r] = [@ EXCEPT !.phase = phase]]
    /\ UNCHANGED <<staff, told, companyOf, moved>>

\* create, createForAllEmployees in one transaction, and request.
InsertLeaves(r) ==
    /\ LeaveWrite(r, {"grant", "grantAll", "request"}, "written")
    /\ leave' = [l \in Leaves |->
                    IF \E row \in leaveCall[r].rows : l = <<r, row.employee>>
                    THEN CHOOSE row \in leaveCall[r].rows : l = <<r, row.employee>>
                    ELSE leave[l]]

\* Slip: the status is the name of the call.
KindAsAnswer(kind) == kind

\* The status an answer gives.
AnswerOf(kind) == IF kind = "approve" THEN "approved" ELSE "rejected"

\* The row is written by its id, whatever its status has become; 404 if it is gone.
AnswerLeave(r) ==
    LET c == leaveCall[r]
    IN  /\ c.leave \in Granted
        /\ LeaveWrite(r, AnswerKinds, "written")
        /\ leave' = [leave EXCEPT ![c.leave].status = AnswerOf(c.sent.kind)]

\* Slip: only the ends the client sent are written.
UpdateSentEnds(r) ==
    LET c == leaveCall[r]
        row == CHOOSE row \in c.rows : TRUE
    IN  /\ c.leave \in Granted
        /\ LeaveWrite(r, {"edit"}, "done")
        /\ leave' = [leave EXCEPT ![c.leave] =
                         [row EXCEPT !.from = Supplied(c.sent.from, leave[c.leave].from),
                                     !.to = Supplied(c.sent.to, leave[c.leave].to),
                                     !.status = leave[c.leave].status]]

\* Both ends, the days, the company, the branch and the employee are written together.
UpdateLeave(r) ==
    LET c == leaveCall[r]
        row == CHOOSE row \in c.rows : TRUE
    IN  /\ c.leave \in Granted
        /\ LeaveWrite(r, {"edit"}, "done")
        /\ leave' = [leave EXCEPT ![c.leave] = [row EXCEPT !.status = leave[c.leave].status]]

DeleteLeave(r) ==
    /\ leaveCall[r].leave \in Granted
    /\ LeaveWrite(r, {"delete"}, "done")
    /\ leave' = [leave EXCEPT ![leaveCall[r].leave] = None]

\* Slip: a rejection is told like an approval.
GoodNewsOf(kind) == "approved"

\* What the employee is told after a call of this kind.
NewsOf(kind) == IF kind = "reject" THEN "rejected" ELSE "approved"

\* The employee of each leave granted, or of the leave answered as it was loaded; of a
\* request only the office is told.
TellLeave(r) ==
    LET c == leaveCall[r]
        news(l, e) ==
            \E row \in c.rows : /\ row.employee = e
                                /\ \/ c.sent.kind \in AnswerKinds /\ l = c.leave
                                   \/ c.sent.kind \in {"grant", "grantAll"} /\ l = <<r, e>>
    IN  /\ c.phase = "written"
        /\ told' = [l \in Leaves |-> [e \in Employees |->
                       IF news(l, e) THEN NewsOf(c.sent.kind) ELSE told[l][e]]]
        /\ leaveCall' = [leaveCall EXCEPT ![r] = Ended(c, "done")]
        /\ UNCHANGED <<staff, leave, companyOf, moved>>

\* The write answers 404, the database fails, or the process stops; what was written
\* stays, and nobody is told of it.
StopLeaveCall(r) ==
    LET c == leaveCall[r]
    IN  /\ c.phase \in {"started", "loaded", "ready", "written"}
        /\ leaveCall' = [leaveCall EXCEPT ![r] =
                             Ended(c, IF c.phase = "written" THEN "lost" ELSE "refused")]
        /\ UNCHANGED <<staff, leave, told, companyOf, moved>>

\* The office edits the employee: another company, branch or state.  The branch is
\* checked only if it is sent.  Bound: an employee moves once, and is left alone from
\* then on.
EditStaff(e) ==
    /\ e \notin moved
    /\ \E row \in StaffRows :
          /\ row.branch # staff[e].branch => StaffInCompany(row)
          /\ staff' = [staff EXCEPT ![e] = row]
          /\ moved' = IF [row EXCEPT !.enabled = staff[e].enabled] = staff[e]
                      THEN moved ELSE moved \cup {e}
    /\ UNCHANGED <<leave, told, companyOf, leaveCall>>

\* BranchService.update gives the branch to another company that there is; whoever works
\* there and the leaves that name it stay as they are.  Bound: only MovingBranches
\* move, once each.
MoveBranch(b) ==
    /\ b \notin moved
    /\ \E company \in Companies \ {companyOf[b]} :
          companyOf' = [companyOf EXCEPT ![b] = company]
    /\ moved' = moved \cup {b}
    /\ UNCHANGED <<staff, leave, told, leaveCall>>

LeaveNext ==
    \/ \E r \in LeaveRequests :
          \/ StartLeaveCall(r) \/ CheckGrant(r) \/ ListCrew(r) \/ LoadRequester(r)
          \/ LoadToAnswer(r) \/ LoadToEdit(r) \/ CheckEdit(r) \/ LoadToDelete(r)
          \/ InsertLeaves(r) \/ AnswerLeave(r) \/ UpdateLeave(r) \/ DeleteLeave(r)
          \/ TellLeave(r) \/ StopLeaveCall(r)
    \/ \E e \in Employees : EditStaff(e)
    \/ \E b \in MovingBranches : MoveBranch(b)

LeaveSpec == LeaveInit /\ [][LeaveNext]_leaveVars
=============================================================================
