------------------------------ MODULE Directory ------------------------------
(***************************************************************************)
(* The rows the office keeps: companies, their branches, departments,      *)
(* positions, users, terminals, holidays and settings, and the records     *)
(* about users.  A row names the rows it belongs to.  A call loads the row *)
(* it is about, checks the rows named against the company, writes the      *)
(* fields that were sent, and locks nothing in between.  The users here    *)
(* are employees; attendance rows, leaves, payrolls, tasks and tokens are  *)
(* only listed and opened here, and go with what they belong to.           *)
(***************************************************************************)
EXTENDS Scope, FiniteSets

CONSTANTS
    Names,          \* names, keys, serial numbers and logins
    SeedEntries,    \* rows there are at the start
    SeedEntry,      \* SeedEntry[x]: what row x looks like then
    EntryRequests,  \* identities of the calls; a row a call creates bears its name
    EntryInputs,    \* what the clients send
    Viewers         \* the actors who list rows and open them

Ids == SeedEntries \cup EntryRequests

Fields == {"company", "branch", "department", "position", "terminal", "attendance", "employee"}

ListedKinds == {"attendance", "leave", "payroll", "task", "pushToken", "refreshToken"}

EntryKinds == {"company", "branch", "department", "position", "user", "terminal", "holiday",
               "setting", "advance", "adjustment", "rawLog", "notification"} \cup ListedKinds

\* The links the table of a kind has columns for, and the bodies of its endpoints fields.
Columns(kind) ==
    CASE kind = "company" -> {}
      [] kind \in {"branch", "setting", "task"} -> {"company"}
      [] kind \in {"department", "terminal", "holiday"} -> {"company", "branch"}
      [] kind = "position" -> {"company", "department"}
      [] kind = "user" -> {"company", "branch", "department", "position"}
      [] kind \in {"advance", "adjustment", "payroll"} -> {"company", "employee"}
      [] kind \in {"attendance", "leave"} -> {"company", "branch", "employee"}
      [] kind = "rawLog" -> {"company", "terminal", "employee", "attendance"}
      [] kind \in {"notification", "pushToken", "refreshToken"} -> {"employee"}

Links == [Fields -> Ids \cup {None}]

Entry == [kind : EntryKinds, up : Links, name : Names \cup {None}, active : BOOLEAN]

EntryInput ==
    [op : {"create", "update", "toggle", "delete"}, kind : EntryKinds \ ListedKinds, actor : Actor,
     up : [Fields -> Ids \cup {None, Absent}], name : Names \cup {Absent},
     active : BOOLEAN \cup {Absent}]

EntryPhases == {"idle", "started", "loaded", "ready", "done", "refused"}

\* old is the row as it was loaded, change what is to be written of its links; crossed
\* is history: another call has written since this one loaded or checked.
EntryCall == [phase : EntryPhases, sent : EntryInput \cup {None}, at : Ids \cup {None},
              old : Entry \cup {None}, change : [Fields -> Ids \cup {None, Absent}],
              crossed : BOOLEAN]

ASSUME DirectoryAssumption ==
    /\ Companies \cup Branches \subseteq SeedEntries
    /\ SeedEntries \cap EntryRequests = {}
    /\ SeedEntry \in [SeedEntries -> Entry]
    /\ EntryInputs \subseteq EntryInput
    /\ \A x \in SeedEntries : \A f \in Fields \ Columns(SeedEntry[x].kind) :
           SeedEntry[x].up[f] = None
    /\ \A sent \in EntryInputs : \A f \in Fields \ Columns(sent.kind) :
           sent.up[f] = Absent
    /\ Viewers \subseteq Actor
    /\ {None, Absent} \cap (Ids \cup Names) = {}
    /\ None \notin Entry \cup EntryInput

VARIABLES
    entry,      \* entry[x]: row x, None if there is none
    strayed,    \* history: the rows that have changed their company
    mixed,      \* history: the rows written by a call that was crossed
    orphaned,   \* history: the rows that have lost a row they belonged to
    entryCall   \* entryCall[r]: the state of request r

directoryVars == <<entry, strayed, mixed, orphaned, entryCall>>

NoLink == [f \in Fields |-> None]
Unsent == [f \in Fields |-> Absent]

IdleEntryCall == [phase |-> "idle", sent |-> None, at |-> None, old |-> None,
                  change |-> Unsent, crossed |-> FALSE]

DirectoryTypeOK ==
    /\ entry \in [Ids -> Entry \cup {None}]
    /\ strayed \subseteq Ids
    /\ mixed \subseteq Ids
    /\ orphaned \subseteq Ids
    /\ entryCall \in [EntryRequests -> EntryCall]

Entries == {x \in Ids : entry[x] # None}

\* The row x belongs to company c.
InThe(c, x) == x \in Entries /\ entry[x].up.company = c

\* The place checkAccess compares with: the row's own company and branch.
OwnPlace(row) == [company |-> row.up.company, branch |-> row.up.branch]

\* The row's company and the branch of its employee.
PlaceAsEmployee(row) ==
    [company |-> row.up.company,
     branch |-> IF row.up.employee = None THEN None ELSE entry[row.up.employee].up.branch]

(***************************************************************************)
(* What an actor is listed.  A list is narrowed to the company and the     *)
(* branch getScope gives when nothing else is asked for.                   *)
(***************************************************************************)
Anywhere == [company |-> None, branch |-> None]

Narrowed(value, scope) == scope = None \/ value = scope

ListedByPlace(actor, place) ==
    LET scope == GetScope(actor, Anywhere)
    IN  /\ ~ScopeRefused(actor, Anywhere)
        /\ Narrowed(place.company, scope.company)
        /\ Narrowed(place.branch, scope.branch)

\* The row belongs to somebody or something of the branch.
ListedByBranchOf(actor, row, f) ==
    ListedByPlace(actor, [company |-> row.up.company,
                          branch |-> IF row.up[f] = None THEN None
                                     ELSE entry[row.up[f]].up.branch])

ListedCompany(actor, row) == actor.role = "superadmin"

ListedBranch(actor, row) ==
    /\ ~ScopeRefused(actor, Anywhere)
    /\ Narrowed(row.up.company, GetScope(actor, Anywhere).company)

ListedSetting(actor, row) == ListedBranch(actor, row)

ListedDepartment(actor, row) == ListedByPlace(actor, OwnPlace(row))

ListedUser(actor, row) == ListedByPlace(actor, OwnPlace(row))

ListedTerminal(actor, row) == ListedByPlace(actor, OwnPlace(row))

ListedHoliday(actor, row) == ListedByPlace(actor, OwnPlace(row))

ListedAttendance(actor, row) == ListedByPlace(actor, OwnPlace(row))

ListedPosition(actor, row) == ListedByBranchOf(actor, row, "department")

ListedAdvance(actor, row) == ListedByBranchOf(actor, row, "employee")

ListedAdjustment(actor, row) == ListedByBranchOf(actor, row, "employee")

ListedRawLog(actor, row) == ListedByBranchOf(actor, row, "employee")

ListedPayroll(actor, row) == ListedByBranchOf(actor, row, "employee")

\* An employee is listed the own leaves, wherever they are.
ListedLeave(actor, row) ==
    IF actor.role = "employee" THEN row.up.employee = actor.sub
    ELSE ListedByPlace(actor, OwnPlace(row))

\* The tasks of the company, to everybody in it.
ListedTask(actor, row) ==
    /\ ~CompanyRefused(actor, None)
    /\ row.up.company = GetCompanyId(actor, None)

\* What is for a user is listed where the user is, what is for nobody only to those who
\* are narrowed to no company.
ListedByUser(actor, row) ==
    /\ ~ScopeRefused(actor, Anywhere)
    /\ GetScope(actor, Anywhere).company # None =>
           row.up.employee # None /\ ListedByPlace(actor, OwnPlace(entry[row.up.employee]))

\* Slip: notifications for everybody are listed to everybody.
ListedNotificationToAll(actor, row) ==
    row.up.employee # None => ListedByUser(actor, row)

ListedNotification(actor, row) == ListedByUser(actor, row)

ListedPushToken(actor, row) == ListedByUser(actor, row)

ListedRefreshToken(actor, row) == ListedByUser(actor, row)

\* The roles the endpoints that list and open rows of a kind admit.
Readers(kind) ==
    CASE kind = "company" -> {"superadmin"}
      [] kind \in {"branch", "setting"} -> {"superadmin", "admin"}
      [] kind \in {"leave", "task"} -> Roles
      [] OTHER -> Roles \ {"employee"}

Listed(actor, row) ==
    /\ actor.role \in Readers(row.kind)
    /\ CASE row.kind = "company" -> ListedCompany(actor, row)
         [] row.kind = "branch" -> ListedBranch(actor, row)
         [] row.kind = "setting" -> ListedSetting(actor, row)
         [] row.kind = "department" -> ListedDepartment(actor, row)
         [] row.kind = "user" -> ListedUser(actor, row)
         [] row.kind = "terminal" -> ListedTerminal(actor, row)
         [] row.kind = "holiday" -> ListedHoliday(actor, row)
         [] row.kind = "attendance" -> ListedAttendance(actor, row)
         [] row.kind = "position" -> ListedPosition(actor, row)
         [] row.kind = "advance" -> ListedAdvance(actor, row)
         [] row.kind = "adjustment" -> ListedAdjustment(actor, row)
         [] row.kind = "rawLog" -> ListedRawLog(actor, row)
         [] row.kind = "payroll" -> ListedPayroll(actor, row)
         [] row.kind = "leave" -> ListedLeave(actor, row)
         [] row.kind = "task" -> ListedTask(actor, row)
         [] row.kind = "notification" -> ListedNotification(actor, row)
         [] row.kind = "pushToken" -> ListedPushToken(actor, row)
         [] row.kind = "refreshToken" -> ListedRefreshToken(actor, row)

(***************************************************************************)
(* What an actor may open, and so change or delete.                        *)
(***************************************************************************)

\* A manager opens positions of departments of the own branch only.
OpensPosition(actor, row) ==
    /\ MayAccess(actor, OwnPlace(row))
    /\ actor.role = "manager" => /\ row.up.department # None
                                 /\ entry[row.up.department].up.branch = actor.branch

OpensAdvance(actor, row) == MayAccess(actor, PlaceAsEmployee(row))

OpensAdjustment(actor, row) == OpensAdvance(actor, row)

OpensPayroll(actor, row) == OpensAdvance(actor, row)

\* A log of no employee is opened as it is.
OpensRawLog(actor, row) ==
    MayAccess(actor, IF row.up.employee = None THEN OwnPlace(row) ELSE PlaceAsEmployee(row))

OpensLeave(actor, row) ==
    IF actor.role = "employee" THEN row.up.employee = actor.sub
    ELSE MayAccess(actor, OwnPlace(row))

\* Whatever the branch.
OpensTask(actor, row) == MayAccess(actor, [company |-> row.up.company, branch |-> None])

OpensNotification(actor, row) ==
    \/ actor.role = "superadmin"
    \/ row.up.employee # None /\ MayAccess(actor, OwnPlace(entry[row.up.employee]))

\* A token goes with its user, so it has one.
OpensToken(actor, row) ==
    actor.role = "superadmin" \/ MayAccess(actor, OwnPlace(entry[row.up.employee]))

Opens(actor, row) ==
    CASE row.kind = "position" -> OpensPosition(actor, row)
      [] row.kind = "advance" -> OpensAdvance(actor, row)
      [] row.kind = "adjustment" -> OpensAdjustment(actor, row)
      [] row.kind = "rawLog" -> OpensRawLog(actor, row)
      [] row.kind = "payroll" -> OpensPayroll(actor, row)
      [] row.kind = "leave" -> OpensLeave(actor, row)
      [] row.kind = "task" -> OpensTask(actor, row)
      [] row.kind = "notification" -> OpensNotification(actor, row)
      [] row.kind \in {"pushToken", "refreshToken"} -> OpensToken(actor, row)
      [] OTHER -> MayAccess(actor, OwnPlace(row))

(***************************************************************************)
(* Rows that agree with one another.                                       *)
(***************************************************************************)

\* Whatever a list shows an actor, the actor may open, though the lists filter by what
\* the rows belong to and the checks look at other rows.
ListedIsOpen ==
    \A actor \in Viewers, x \in Entries :
        Listed(actor, entry[x]) => Opens(actor, entry[x])

\* What is checked again when a row of this kind changes its company.
Rechecked(kind) ==
    CASE kind \in {"department", "terminal"} -> {"branch"}
      [] kind \in {"advance", "adjustment"} -> {"employee"}
      [] kind = "rawLog" -> {"terminal"}
      [] OTHER -> {}

\* What a row of a company belongs to is of that company, unless that has moved to another
\* company and left the row behind, the row has moved and its service does not look at
\* the field again, or calls on the row overlapped.
ParentsAgree ==
    \A x \in Entries, f \in Fields \ {"company"} :
        LET p == entry[x].up[f]
        IN  \/ p = None \/ entry[x].up.company = None
            \/ InThe(entry[x].up.company, p)
            \/ p \in strayed \/ x \in mixed
            \/ x \in strayed /\ f \notin Rechecked(entry[x].kind)

Named == {"company", "branch", "department", "position", "user", "terminal", "setting"}

\* The links within which names of this kind are not to repeat.
UniqueOver(kind) ==
    CASE kind \in {"branch", "setting"} -> {"company"}
      [] kind = "department" -> {"company", "branch"}
      [] kind = "position" -> {"company", "department"}
      [] OTHER -> {}

SameName(row, other) ==
    /\ row.kind = other.kind /\ row.kind \in Named /\ row.name = other.name
    /\ \A f \in UniqueOver(row.kind) : row.up[f] = other.up[f]

\* A name tells rows apart.  Only where rows belong to no branch or no department, which
\* the index of the database does not cover, may it repeat: after calls that overlapped,
\* or among rows that have lost what they belonged to.
NamesTellApart ==
    \A x, y \in Entries :
        x # y /\ SameName(entry[x], entry[y]) =>
            /\ \E f \in UniqueOver(entry[x].kind) : entry[x].up[f] = None
            /\ {x, y} \cap (mixed \cup orphaned) # {}

DirectoryInit ==
    /\ entry = [x \in Ids |-> IF x \in SeedEntries THEN SeedEntry[x] ELSE None]
    /\ strayed = {}
    /\ mixed = {}
    /\ orphaned = {}
    /\ entryCall = [r \in EntryRequests |-> IdleEntryCall]
    /\ ParentsAgree /\ NamesTellApart

(***************************************************************************)
(* The company a call names, and the branch it is left.                    *)
(***************************************************************************)
Otherwise(sent, value) == IF sent = Absent THEN value ELSE sent

CompanyAsked(sent) == Otherwise(sent.up.company, None)
CompanyNamed(sent) == GetCompanyId(sent.actor, CompanyAsked(sent))

\* getCompanyId and checkCompany
CompanyOK(sent) ==
    ~CompanyRefused(sent.actor, CompanyAsked(sent)) /\ CompanyNamed(sent) \in Entries

\* An update may move the row to another company.
Moves(sent) == sent.up.company # Absent
MoveOK(sent) == Moves(sent) => CompanyOK(sent)
CompanyFor(sent, old) == IF Moves(sent) THEN CompanyNamed(sent) ELSE old.up.company

\* What a call may do, and the links it writes if it may.
Plan(ok, change) == [ok |-> ok, change |-> change]
InCompanyNamed(sent) == [Unsent EXCEPT !.company = CompanyNamed(sent)]
Moved(sent) == IF Moves(sent) THEN InCompanyNamed(sent) ELSE Unsent

BranchAsked(sent, company) ==
    [company |-> company, branch |-> Otherwise(sent.up.branch, None)]

\* The branch getScope leaves of the one that was asked for; one of the company.
ScopedBranch(sent, company) == GetScope(sent.actor, BranchAsked(sent, company)).branch

ScopedBranchOK(sent, company) ==
    /\ ~ScopeRefused(sent.actor, BranchAsked(sent, company))
    /\ ScopedBranch(sent, company) # None => InThe(company, ScopedBranch(sent, company))

\* An employee of the company whom the actor may touch.
EmployeeOK(sent, company, e) == InThe(company, e) /\ MayAccess(sent.actor, OwnPlace(entry[e]))

(***************************************************************************)
(* What a creation writes, kind by kind.                                   *)
(***************************************************************************)
MakeCompany(sent) == Plan(TRUE, Unsent)

MakeBranch(sent) == Plan(CompanyOK(sent), InCompanyNamed(sent))

MakeSetting(sent) == Plan(CompanyOK(sent), InCompanyNamed(sent))

MakeDepartment(sent) ==
    Plan(CompanyOK(sent) /\ ScopedBranchOK(sent, CompanyNamed(sent)),
         [InCompanyNamed(sent) EXCEPT !.branch = ScopedBranch(sent, CompanyNamed(sent))])

MakeTerminal(sent) == MakeDepartment(sent)

MakeHoliday(sent) == MakeDepartment(sent)

\* One of the company; a manager's is of the own branch, and has to be there.
DepartmentOK(sent, company, d) ==
    /\ d # None => InThe(company, d)
    /\ sent.actor.role = "manager" => d # None /\ entry[d].up.branch = sent.actor.branch

MakePosition(sent) ==
    LET department == Otherwise(sent.up.department, None)
    IN  Plan(CompanyOK(sent) /\ DepartmentOK(sent, CompanyNamed(sent), department),
             [InCompanyNamed(sent) EXCEPT !.department = department])

\* Where there is no company, what is named need only be there.
FitsUser(company, x) ==
    x \in {None, Absent} \/ (IF company = None THEN x \in Entries ELSE InThe(company, x))

\* A superadmin may create a user of no company, whose branch, department and position
\* may then be any.
MakeUser(sent) ==
    LET anywhere == sent.actor.role = "superadmin"
        company == IF anywhere THEN CompanyAsked(sent) ELSE CompanyNamed(sent)
    IN  Plan(/\ ~anywhere => ~CompanyRefused(sent.actor, CompanyAsked(sent))
             /\ company \in Entries \cup {None}
             /\ \A f \in {"branch", "department", "position"} : FitsUser(company, sent.up[f]),
             [sent.up EXCEPT !.company = company])

MakeAdvance(sent) ==
    Plan(CompanyOK(sent) /\ EmployeeOK(sent, CompanyNamed(sent), sent.up.employee),
         [InCompanyNamed(sent) EXCEPT !.employee = sent.up.employee])

MakeAdjustment(sent) == MakeAdvance(sent)

\* The attendance is one of the company, and of the employee if there is one.
AttendanceOK(company, a, employee) ==
    a \in {Absent, None} \/ /\ InThe(company, a)
                            /\ employee \in {None, entry[a].up.employee}

\* The log of a terminal, perhaps of an employee and of an attendance of that employee.
MakeRawLog(sent) ==
    LET company == CompanyNamed(sent)
        employee == Otherwise(sent.up.employee, None)
    IN  Plan(/\ CompanyOK(sent) /\ InThe(company, sent.up.terminal)
             /\ employee # None => EmployeeOK(sent, company, employee)
             /\ AttendanceOK(company, sent.up.attendance, employee),
             [InCompanyNamed(sent) EXCEPT
                 !.terminal = sent.up.terminal, !.employee = employee,
                 !.attendance = sent.up.attendance])

AddresseeOK(sent) ==
    sent.up.employee \notin {Absent, None} =>
        /\ sent.up.employee \in Entries
        /\ MayAccess(sent.actor, OwnPlace(entry[sent.up.employee]))

\* A notification is for a user, or for everybody if a superadmin wants it so.
MakeNotification(sent) ==
    Plan(/\ sent.actor.role # "superadmin" => sent.up.employee \notin {Absent, None}
         /\ AddresseeOK(sent),
         [Unsent EXCEPT !.employee = sent.up.employee])

Make(sent) ==
    CASE sent.kind = "company" -> MakeCompany(sent)
      [] sent.kind = "branch" -> MakeBranch(sent)
      [] sent.kind = "setting" -> MakeSetting(sent)
      [] sent.kind = "department" -> MakeDepartment(sent)
      [] sent.kind = "terminal" -> MakeTerminal(sent)
      [] sent.kind = "holiday" -> MakeHoliday(sent)
      [] sent.kind = "position" -> MakePosition(sent)
      [] sent.kind = "user" -> MakeUser(sent)
      [] sent.kind = "advance" -> MakeAdvance(sent)
      [] sent.kind = "adjustment" -> MakeAdjustment(sent)
      [] sent.kind = "rawLog" -> MakeRawLog(sent)
      [] sent.kind = "notification" -> MakeNotification(sent)

(***************************************************************************)
(* What an update writes.  Some services check again what belongs to a     *)
(* company when the company changes; those of positions, users and         *)
(* holidays, and that of raw logs but for the terminal, check only what    *)
(* was sent.                                                               *)
(***************************************************************************)
EditCompany(sent, old) == Plan(TRUE, Unsent)

EditBranch(sent, old) == Plan(MoveOK(sent), Moved(sent))

EditSetting(sent, old) == Plan(MoveOK(sent), Moved(sent))

\* The branch that was sent, or the one there is.
EditHoliday(sent, old) ==
    LET company == CompanyFor(sent, old)
    IN  IF sent.up.branch = Absent THEN Plan(MoveOK(sent), Moved(sent))
        ELSE Plan(MoveOK(sent) /\ ScopedBranchOK(sent, company),
                  [Moved(sent) EXCEPT !.branch = ScopedBranch(sent, company)])

\* Slip: a department keeps its branch unchecked when its company changes.
EditDepartmentAsSent(sent, old) == EditHoliday(sent, old)

\* The branch there is must be one of the new company.
EditDepartment(sent, old) ==
    IF sent.up.branch = Absent /\ Moves(sent) /\ old.up.branch # None
    THEN Plan(CompanyOK(sent) /\ InThe(CompanyNamed(sent), old.up.branch),
              [InCompanyNamed(sent) EXCEPT !.branch = old.up.branch])
    ELSE EditHoliday(sent, old)

\* A terminal keeps its branch, or its lack of one, when its company changes.
EditTerminal(sent, old) ==
    IF sent.up.branch = Absent /\ Moves(sent)
    THEN Plan(/\ CompanyOK(sent)
              /\ old.up.branch # None => InThe(CompanyNamed(sent), old.up.branch),
              [InCompanyNamed(sent) EXCEPT !.branch = old.up.branch])
    ELSE EditHoliday(sent, old)

EditPosition(sent, old) ==
    IF sent.up.department = Absent THEN Plan(MoveOK(sent), Moved(sent))
    ELSE Plan(MoveOK(sent) /\ DepartmentOK(sent, CompanyFor(sent, old), sent.up.department),
              [Moved(sent) EXCEPT !.department = sent.up.department])

\* An admin may take a user out of the company; a manager moves nobody.
EditUser(sent, old) ==
    LET company == Otherwise(sent.up.company, old.up.company)
    IN  Plan(/\ sent.actor.role # "superadmin" =>
                    CompanyAsked(sent) \in {None, sent.actor.company}
             /\ sent.actor.role = "manager" => sent.up.company = Absent /\ sent.up.branch = Absent
             /\ CompanyAsked(sent) # None => CompanyAsked(sent) \in Entries
             /\ \A f \in {"branch", "department", "position"} : FitsUser(company, sent.up[f]),
             sent.up)

\* The employee is checked whenever the company or the employee changes, and both are
\* written.
EditAdvance(sent, old) ==
    LET employee == IF sent.up.employee = Absent /\ Moves(sent) THEN old.up.employee
                    ELSE sent.up.employee
    IN  Plan(/\ MoveOK(sent)
             /\ employee # Absent => EmployeeOK(sent, CompanyFor(sent, old), employee),
             [Moved(sent) EXCEPT !.employee = employee])

EditAdjustment(sent, old) == EditAdvance(sent, old)

\* The terminal is checked again when the company changes, the employee and the
\* attendance are not.
EditRawLog(sent, old) ==
    LET company == CompanyFor(sent, old)
        terminal == IF sent.up.terminal = Absent /\ Moves(sent) THEN old.up.terminal
                    ELSE sent.up.terminal
    IN  Plan(/\ MoveOK(sent)
             /\ terminal # Absent => InThe(company, terminal)
             /\ sent.up.employee \notin {Absent, None} => EmployeeOK(sent, company, sent.up.employee)
             /\ AttendanceOK(company, sent.up.attendance, Otherwise(sent.up.employee, old.up.employee)),
             [Moved(sent) EXCEPT !.terminal = terminal, !.employee = sent.up.employee,
                                 !.attendance = sent.up.attendance])

\* Whoever may open a notification may make it one for everybody.
EditNotification(sent, old) ==
    Plan(AddresseeOK(sent), [Unsent EXCEPT !.employee = sent.up.employee])

Edit(sent, old) ==
    CASE sent.kind = "company" -> EditCompany(sent, old)
      [] sent.kind = "branch" -> EditBranch(sent, old)
      [] sent.kind = "setting" -> EditSetting(sent, old)
      [] sent.kind = "department" -> EditDepartment(sent, old)
      [] sent.kind = "terminal" -> EditTerminal(sent, old)
      [] sent.kind = "holiday" -> EditHoliday(sent, old)
      [] sent.kind = "position" -> EditPosition(sent, old)
      [] sent.kind = "user" -> EditUser(sent, old)
      [] sent.kind = "advance" -> EditAdvance(sent, old)
      [] sent.kind = "adjustment" -> EditAdjustment(sent, old)
      [] sent.kind = "rawLog" -> EditRawLog(sent, old)
      [] sent.kind = "notification" -> EditNotification(sent, old)

(***************************************************************************)
(* The steps of a call.                                                    *)
(***************************************************************************)

\* The roles an endpoint admits.
Callers(kind, op) ==
    CASE kind = "company" -> {"superadmin"}
      [] kind \in {"branch", "setting"} -> {"superadmin", "admin"}
      [] kind = "user" /\ op \in {"create", "delete"} -> {"superadmin", "admin"}
      [] OTHER -> {"superadmin", "admin", "manager"}

StartEntryCall(r) ==
    /\ entryCall[r].phase = "idle"
    /\ \E sent \in EntryInputs, x \in Entries \cup {None} :
          /\ sent.actor.role \in Callers(sent.kind, sent.op)
          /\ IF sent.op = "create" THEN x = None ELSE x # None /\ entry[x].kind = sent.kind
          /\ entryCall' = [entryCall EXCEPT ![r] =
                               [IdleEntryCall EXCEPT !.phase = "started", !.sent = sent, !.at = x]]
    /\ UNCHANGED <<entry, strayed, mixed, orphaned>>

EndedEntryCall(phase) == [IdleEntryCall EXCEPT !.phase = phase]

EntryRead(r, permits, next) ==
    /\ entryCall' = [entryCall EXCEPT ![r] = IF permits THEN next ELSE EndedEntryCall("refused")]
    /\ UNCHANGED <<entry, strayed, mixed, orphaned>>

LoadEntry(r) ==
    LET c == entryCall[r]
    IN  /\ c.phase = "started" /\ c.sent.op # "create"
        /\ EntryRead(r, c.at \in Entries /\ Opens(c.sent.actor, entry[c.at]),
                     [c EXCEPT !.phase = "loaded", !.old = entry[c.at]])

\* The row the call believes it makes.
Changed(row, sent, change) ==
    [row EXCEPT !.up = [f \in Fields |-> Otherwise(change[f], row.up[f])],
                !.name = Otherwise(sent.name, @)]

\* Slip: the name is looked up only if it was sent.
NameOKIfSent(at, row, sent) ==
    sent.kind \in Named /\ (sent.op = "create" \/ sent.name # Absent) =>
        /\ row.name # None
        /\ ~\E y \in Entries \ {at} : SameName(row, entry[y])

\* The name is looked up if it or what it is unique over was sent; an empty one is refused.
NameOK(at, row, sent) ==
    sent.kind \in Named /\ (\/ sent.op = "create" \/ sent.name # Absent
                            \/ \E f \in UniqueOver(sent.kind) : sent.up[f] # Absent) =>
        /\ row.name # None
        /\ ~\E y \in Entries \ {at} : SameName(row, entry[y])

NewEntry(sent) == [kind |-> sent.kind, up |-> NoLink, name |-> None, active |-> TRUE]

CheckEntry(r) ==
    LET c == entryCall[r]
        plan == IF c.sent.op = "create" THEN Make(c.sent) ELSE Edit(c.sent, c.old)
        row == IF c.sent.op = "create" THEN NewEntry(c.sent) ELSE c.old
    IN  /\ \/ c.phase = "started" /\ c.sent.op = "create"
           \/ c.phase = "loaded" /\ c.sent.op = "update"
        /\ EntryRead(r, plan.ok /\ NameOK(c.at, Changed(row, c.sent, plan.change), c.sent),
                     [c EXCEPT !.phase = "ready", !.change = plan.change])

\* The database refuses a row that names one that is gone, or repeats a name under the
\* same branch or department, or company where there is neither.
Storable(x, row) ==
    /\ \A f \in Fields : row.up[f] # None => row.up[f] \in Entries
    /\ ~\E y \in Entries \ {x} :
           SameName(row, entry[y]) /\ \A f \in UniqueOver(row.kind) : row.up[f] # None

\* The write of row x by r crosses every call that has read and not yet written.
EntryWrite(r, x, row) ==
    /\ Storable(x, row)
    /\ entry' = [entry EXCEPT ![x] = row]
    /\ strayed' = IF x \in Entries /\ entry[x].up.company # row.up.company
                  THEN strayed \cup {x} ELSE strayed
    /\ mixed' = IF entryCall[r].crossed THEN mixed \cup {x} ELSE mixed
    /\ UNCHANGED orphaned

Cross(r) ==
    entryCall' = [q \in EntryRequests |->
                     IF q = r THEN EndedEntryCall("done")
                     ELSE [entryCall[q] EXCEPT !.crossed = @ \/ entryCall[q].phase \in {"loaded", "ready"}]]

InsertEntry(r) ==
    LET c == entryCall[r]
    IN  /\ c.phase = "ready" /\ c.sent.op = "create"
        /\ EntryWrite(r, r, Changed(NewEntry(c.sent), c.sent, c.change))
        /\ Cross(r)

\* Only what was sent is written, into the row as it is now.
UpdateEntry(r) ==
    LET c == entryCall[r]
    IN  /\ c.phase = "ready" /\ c.sent.op = "update" /\ c.at \in Entries
        /\ EntryWrite(r, c.at, Changed(entry[c.at], c.sent, c.change))
        /\ Cross(r)

\* Without a value the switch is turned over, from where it was when it was loaded.
ToggleEntry(r) ==
    LET c == entryCall[r]
    IN  /\ c.phase = "loaded" /\ c.sent.op = "toggle" /\ c.at \in Entries
        /\ EntryWrite(r, c.at, [entry[c.at] EXCEPT !.active = Otherwise(c.sent.active, ~c.old.active)])
        /\ Cross(r)

\* Rows that go when what they belong to goes; the others only lose the link.
GoesWith(kind, f) ==
    \/ f = "company" /\ kind # "user"
    \/ f = "employee" /\ kind # "rawLog"
    \/ f = "terminal"

Below(set) ==
    {x \in Entries : \E f \in Fields : entry[x].up[f] \in set /\ GoesWith(entry[x].kind, f)}

\* No row goes at more than two removes: a raw log with its terminal with its company.
Doomed(x) == {x} \cup Below({x}) \cup Below(Below({x}))

Severed(row, gone) == [row EXCEPT !.up = [f \in Fields |-> IF @[f] \in gone THEN None ELSE @[f]]]

DeleteEntry(r) ==
    LET c == entryCall[r]
        gone == Doomed(c.at)
        left == Entries \ gone
    IN  /\ c.phase = "loaded" /\ c.sent.op = "delete" /\ c.at \in Entries
        /\ entry' = [x \in Ids |-> IF x \in left THEN Severed(entry[x], gone) ELSE None]
        /\ orphaned' = orphaned \cup {x \in left : \E f \in Fields : entry[x].up[f] \in gone}
        /\ Cross(r)
        /\ UNCHANGED <<strayed, mixed>>

\* The write fails, the database does, or the process stops.
StopEntryCall(r) ==
    /\ entryCall[r].phase \in {"started", "loaded", "ready"}
    /\ entryCall' = [entryCall EXCEPT ![r] = EndedEntryCall("refused")]
    /\ UNCHANGED <<entry, strayed, mixed, orphaned>>

DirectoryNext ==
    \E r \in EntryRequests :
        \/ StartEntryCall(r) \/ LoadEntry(r) \/ CheckEntry(r) \/ InsertEntry(r)
        \/ UpdateEntry(r) \/ ToggleEntry(r) \/ DeleteEntry(r) \/ StopEntryCall(r)

DirectorySpec == DirectoryInit /\ [][DirectoryNext]_directoryVars
=============================================================================
