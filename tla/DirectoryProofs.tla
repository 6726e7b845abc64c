--------------------------- MODULE DirectoryProofs ---------------------------
(***************************************************************************)
(* Proofs about Directory for any rows, names, inputs, viewers and calls,  *)
(* and about the specification that joins leaves, sessions, directory and  *)
(* tasks.                                                                  *)
(***************************************************************************)
EXTENDS MCPeople, EmployeeLeaveProofs, SessionsProofs, TasksProofs

(***************************************************************************)
(* The inductive invariant.                                                *)
(***************************************************************************)
Underway == {"started", "loaded", "ready"}

\* The row a call starts from, and the one it is to write if that still stands.
Base(c) == IF c.sent.op = "create" THEN NewEntry(c.sent) ELSE c.old
RowToBe(c) == Changed(Base(c), c.sent, c.change)

\* What the row is to belong to is of the company it is to be of, or is what it belonged
\* to before and is not checked again.
LinksChecked(c) ==
    LET row == RowToBe(c)
    IN  \A f \in Fields \ {"company"} :
            \/ row.up[f] = None \/ row.up.company = None
            \/ InThe(row.up.company, row.up[f])
            \/ /\ row.up[f] = Base(c).up[f]
               /\ row.up.company = Base(c).up.company \/ f \notin Rechecked(c.sent.kind)

\* No other row has the name the row is to have, or the name is the one it has.
NameChecked(c) ==
    LET row == RowToBe(c)
    IN  \/ ~\E y \in Entries \ {c.at} : SameName(row, entry[y])
        \/ /\ c.sent.op # "create" /\ row.name = Base(c).name
           /\ \A f \in UniqueOver(c.sent.kind) : row.up[f] = Base(c).up[f]

\* What a call that nobody has crossed has loaded still stands, and so does what it has
\* checked.
CallKnows(c) ==
    /\ c.phase \notin Underway => c.at = None
    /\ c.phase \in Underway =>
           /\ c.sent \in EntryInputs
           /\ c.sent.op = "create" <=> c.at = None
           /\ c.at # None /\ entry[c.at] # None => entry[c.at].kind = c.sent.kind
    /\ c.phase \in {"loaded", "ready"} /\ c.at # None =>
           /\ c.old # None /\ c.old.kind = c.sent.kind
           /\ \A f \in Fields \ Columns(c.old.kind) : c.old.up[f] = None
           /\ c.crossed \/ entry[c.at] = c.old
    /\ c.phase = "loaded" => c.at # None
    /\ c.phase = "ready" =>
           /\ \A f \in Fields \ Columns(c.sent.kind) : c.change[f] \in {None, Absent}
           /\ c.crossed \/ (LinksChecked(c) /\ NameChecked(c))

CallsKnow == \A r \in EntryRequests : CallKnows(entryCall[r])

\* A row bears the name of a call that is over.
IdsFresh ==
    \A r \in EntryRequests :
        entry[r] # None \/ (\E q \in EntryRequests : entryCall[q].at = r) =>
            entryCall[r].phase = "done"

\* A row has no links but those its table has columns for.
ColumnsOnly ==
    \A x \in Entries : \A f \in Fields \ Columns(entry[x].kind) : entry[x].up[f] = None

DirectoryInv ==
    /\ DirectoryTypeOK /\ CallsKnow /\ IdsFresh /\ ColumnsOnly
    /\ ParentsAgree /\ NamesTellApart

(***************************************************************************)
(* Lists and access checks.                                                *)
(***************************************************************************)

\* An actor who is listed a place may touch it; a manager's is the own branch.
LEMMA PlaceListed ==
    ASSUME NEW actor \in Actor, actor.role # "employee", NEW place,
           ListedByPlace(actor, place)
    PROVE  /\ MayAccess(actor, place)
           /\ actor.role = "manager" => place.branch = actor.branch /\ actor.branch # None
           /\ actor.role # "superadmin" => actor.company # None
<1>1. CASE actor.role = "superadmin"
    BY <1>1 DEF MayAccess
<1>2. CASE actor.role \in {"admin", "manager"}
    <2>1. actor.company # None /\ place.company = actor.company
        BY <1>2 DEF ListedByPlace, Anywhere, ScopeRefused, GetScope, Narrowed
    <2>2. actor.role = "manager" => place.branch = actor.branch /\ actor.branch # None
        BY DEF ListedByPlace, Anywhere, ScopeRefused, GetScope, Narrowed
    <2>3. QED
        BY <1>2, <2>1, <2>2 DEF MayAccess
<1>3. QED
    BY <1>1, <1>2 DEF Actor, Roles

\* Rows that are listed and opened by their own place.
LEMMA OwnPlaceOpen ==
    ASSUME NEW actor \in Actor, NEW row,
           row.kind \in {"company", "branch", "setting", "department", "user", "terminal",
                         "holiday", "attendance"},
           Listed(actor, row)
    PROVE  Opens(actor, row)
<1>1. MayAccess(actor, OwnPlace(row)) => Opens(actor, row)
    BY DEF Opens
<1>2. CASE row.kind = "company"
    BY <1>1, <1>2 DEF Listed, ListedCompany, MayAccess
<1>3. CASE row.kind \in {"branch", "setting"}
    <2>1. /\ actor.role \in {"superadmin", "admin"} /\ ~ScopeRefused(actor, Anywhere)
          /\ Narrowed(row.up.company, GetScope(actor, Anywhere).company)
        BY <1>3 DEF Listed, ListedBranch, ListedSetting, Readers
    <2>2. actor.role = "superadmin" \/ row.up.company = actor.company
        BY <2>1 DEF ScopeRefused, Anywhere, GetScope, Narrowed
    <2>3. QED
        BY <1>1, <2>1, <2>2 DEF MayAccess, OwnPlace
<1>4. CASE row.kind \in {"department", "user", "terminal", "holiday", "attendance"}
    <2>1. ListedByPlace(actor, OwnPlace(row)) /\ actor.role # "employee"
        BY <1>4 DEF Listed, ListedDepartment, ListedUser, ListedTerminal, ListedHoliday,
                    ListedAttendance, Readers
    <2>2. QED
        BY <1>1, <2>1, PlaceListed
<1>5. QED
    BY <1>2, <1>3, <1>4

\* Rows that are listed by the branch of what they belong to.
LEMMA BranchOfOpen ==
    ASSUME NEW actor \in Actor, NEW row, row.kind = "position" => row.up.branch = None,
           row.kind \in {"position", "advance", "adjustment", "rawLog", "payroll"},
           Listed(actor, row)
    PROVE  Opens(actor, row)
<1>1. actor.role # "employee"
    BY DEF Listed, Readers
<1>2. ASSUME NEW f, ListedByBranchOf(actor, row, f)
      PROVE  LET place == [company |-> row.up.company,
                           branch |-> IF row.up[f] = None THEN None
                                      ELSE entry[row.up[f]].up.branch]
             IN  /\ MayAccess(actor, place)
                 /\ actor.role = "manager" => place.branch = actor.branch /\ actor.branch # None
    BY <1>1, <1>2, PlaceListed DEF ListedByBranchOf
<1>3. CASE row.kind = "position"
    <2>1. ListedByBranchOf(actor, row, "department")
        BY <1>3 DEF Listed, ListedPosition
    <2>2. /\ actor.role = "manager" => /\ row.up.department # None
                                       /\ entry[row.up.department].up.branch = actor.branch
          /\ actor.role = "superadmin" \/ row.up.company \in {None, actor.company}
        BY <1>2, <2>1 DEF MayAccess
    <2>3. MayAccess(actor, OwnPlace(row)) \/ actor.role = "manager"
        BY <1>1, <2>2 DEF MayAccess, OwnPlace
    <2>4. QED
        BY <1>3, <2>2, <2>3 DEF Opens, OpensPosition, MayAccess, OwnPlace
<1>4. CASE row.kind \in {"advance", "adjustment", "rawLog", "payroll"}
    <2>1. ListedByBranchOf(actor, row, "employee")
        BY <1>4 DEF Listed, ListedAdvance, ListedAdjustment, ListedRawLog, ListedPayroll
    <2>2. MayAccess(actor, PlaceAsEmployee(row))
          /\ (actor.role = "manager" => row.up.employee # None)
        BY <1>2, <2>1 DEF PlaceAsEmployee
    <2>3. CASE row.kind # "rawLog"
        BY <1>4, <2>2, <2>3 DEF Opens, OpensAdvance, OpensAdjustment, OpensPayroll
    <2>4. CASE row.kind = "rawLog"
        BY <2>2, <2>4 DEF Opens, OpensRawLog, MayAccess, OwnPlace, PlaceAsEmployee
    <2>5. QED
        BY <2>3, <2>4
<1>5. QED
    BY <1>3, <1>4

\* What is for a user, leaves and tasks.
LEMMA PersonalOpen ==
    ASSUME NEW actor \in Actor, NEW row,
           row.kind \in {"leave", "task", "notification", "pushToken", "refreshToken"},
           Listed(actor, row)
    PROVE  Opens(actor, row)
<1>1. CASE row.kind = "leave"
    <2>1. ListedLeave(actor, row) /\ (Opens(actor, row) <=> OpensLeave(actor, row))
        BY <1>1 DEF Listed, Opens
    <2>2. QED
        BY <2>1, PlaceListed DEF ListedLeave, OpensLeave
<1>2. CASE row.kind = "task"
    <2>1. ListedTask(actor, row) /\ (Opens(actor, row) <=> OpensTask(actor, row))
        BY <1>2 DEF Listed, Opens
    <2>2. QED
        BY <2>1 DEF ListedTask, OpensTask, CompanyRefused, GetCompanyId, MayAccess
<1>3. CASE row.kind \in {"notification", "pushToken", "refreshToken"}
    <2>1. ListedByUser(actor, row) /\ actor.role # "employee"
        BY <1>3 DEF Listed, ListedNotification, ListedPushToken, ListedRefreshToken, Readers
    <2>2. actor.role = "superadmin"
          \/ (row.up.employee # None /\ MayAccess(actor, OwnPlace(entry[row.up.employee])))
        <3>1. CASE GetScope(actor, Anywhere).company = None
            BY <2>1, <3>1 DEF ListedByUser, GetScope, ScopeRefused, Anywhere
        <3>2. CASE GetScope(actor, Anywhere).company # None
            BY <2>1, <3>2, PlaceListed DEF ListedByUser
        <3>3. QED
            BY <3>1, <3>2
    <2>3. QED
        BY <1>3, <2>2 DEF Opens, OpensNotification, OpensToken
<1>4. QED
    BY <1>1, <1>2, <1>3

LEMMA OpenIfListed ==
    ASSUME DirectoryTypeOK, ColumnsOnly
    PROVE  ListedIsOpen
<1>. SUFFICES ASSUME NEW actor \in Viewers, NEW x \in Entries, Listed(actor, entry[x])
              PROVE  Opens(actor, entry[x])
    BY DEF ListedIsOpen
<1>1. actor \in Actor
    BY DirectoryAssumption
<1>2. entry[x].kind \in EntryKinds
    BY DEF Entries, DirectoryTypeOK, Entry
<1>3. entry[x].kind = "position" => entry[x].up.branch = None
    BY DEF ColumnsOnly, Columns, Fields
<1>4. QED
    BY <1>1, <1>2, <1>3, OwnPlaceOpen, BranchOfOpen, PersonalOpen DEF EntryKinds, ListedKinds

(***************************************************************************)
(* What clients send.                                                      *)
(***************************************************************************)
Change == [Fields -> Ids \cup {None, Absent}]

LEMMA NoRow ==
    /\ None \notin Ids /\ Absent \notin Ids /\ None # Absent
    /\ Companies \cup Branches \subseteq Ids
BY DirectoryAssumption, ScopeAssumption DEF Ids

LEMMA InputFields ==
    ASSUME NEW sent \in EntryInputs
    PROVE  /\ sent \in EntryInput /\ sent.up \in Change /\ sent.actor \in Actor
           /\ sent.actor.company \in Ids \cup {None} /\ sent.actor.branch \in Ids \cup {None}
           /\ sent.actor.role \in Roles /\ sent.kind \in EntryKinds \ ListedKinds
           /\ sent.name \in Names \cup {Absent} /\ sent.active \in BOOLEAN \cup {Absent}
           /\ \A f \in Fields \ Columns(sent.kind) : sent.up[f] = Absent
<1>1. sent \in EntryInput
    BY DirectoryAssumption
<1>2. sent.actor \in Actor /\ sent.up \in Change
    BY <1>1 DEF EntryInput, Change
<1>3. sent.actor.company \in Ids \cup {None} /\ sent.actor.branch \in Ids \cup {None}
      /\ sent.actor.role \in Roles
    BY <1>2, NoRow DEF Actor
<1>4. \A f \in Fields \ Columns(sent.kind) : sent.up[f] = Absent
    BY DirectoryAssumption
<1>5. QED
    BY <1>1, <1>2, <1>3, <1>4 DEF EntryInput

LEMMA NamedIsRow ==
    ASSUME NEW sent \in EntryInputs
    PROVE  /\ CompanyNamed(sent) \in Ids \cup {None} /\ CompanyNamed(sent) # Absent
           /\ \A company : ScopedBranch(sent, company) \in Ids \cup {None}
           /\ \A f \in Fields : sent.up[f] \in Ids \cup {None, Absent}
<1>1. /\ sent.actor.company \in Ids \cup {None} /\ sent.actor.branch \in Ids \cup {None}
      /\ sent.up \in Change
    BY InputFields
<1>2. sent.up.company \in Ids \cup {None, Absent} /\ sent.up.branch \in Ids \cup {None, Absent}
    BY <1>1 DEF Change, Fields
<1>3. QED
    BY <1>1, <1>2, NoRow
       DEF CompanyNamed, CompanyAsked, GetCompanyId, Otherwise, ScopedBranch, GetScope,
           BranchAsked, Change

(***************************************************************************)
(* What a call plans to write.                                             *)
(***************************************************************************)

\* The links written are columns of the table, and each is of the company the row is to
\* be of, or is left as it is and need not be looked at.
Fits(kind, base, change) ==
    LET company == Otherwise(change.company, base.up.company)
    IN  /\ change \in Change
        /\ \A f \in Fields \ Columns(kind) : change[f] \in {None, Absent}
        /\ \A f \in Fields \ {"company"} :
              \/ change[f] = None \/ company = None
              \/ change[f] # Absent /\ InThe(company, change[f])
              \/ /\ change[f] = Absent
                 /\ f \notin Rechecked(kind) \/ change.company = Absent \/ base.up[f] = None

\* What a call writes when it only puts the row in a company.
LEMMA MovedTo ==
    ASSUME NEW sent \in EntryInputs
    PROVE  /\ InCompanyNamed(sent) \in Change /\ InCompanyNamed(sent).company = CompanyNamed(sent)
           /\ \A f \in Fields \ {"company"} : InCompanyNamed(sent)[f] = Absent
           /\ Moved(sent) \in Change /\ \A f \in Fields \ {"company"} : Moved(sent)[f] = Absent
           /\ Moves(sent) => Moved(sent).company = CompanyNamed(sent)
           /\ ~Moves(sent) => Moved(sent).company = Absent
           /\ \A base : Otherwise(InCompanyNamed(sent).company, base.up.company)
                            = CompanyNamed(sent)
           /\ \A base : Otherwise(Moved(sent).company, base.up.company) = CompanyFor(sent, base)
           /\ Unsent \in Change /\ \A f \in Fields : Unsent[f] = Absent
<1>1. /\ InCompanyNamed(sent) \in Change /\ InCompanyNamed(sent).company = CompanyNamed(sent)
      /\ \A f \in Fields \ {"company"} : InCompanyNamed(sent)[f] = Absent
    BY NamedIsRow DEF InCompanyNamed, Unsent, Change, Fields
<1>2. Unsent \in Change /\ \A f \in Fields : Unsent[f] = Absent
    BY DEF Unsent, Change
<1>3. Unsent.company = Absent
    BY <1>2 DEF Fields
<1>4. \A base : Otherwise(InCompanyNamed(sent).company, base.up.company) = CompanyNamed(sent)
    BY <1>1, NamedIsRow DEF Otherwise
<1>5. CASE Moves(sent)
    BY <1>1, <1>2, <1>4, <1>5 DEF Moved, CompanyFor
<1>6. CASE ~Moves(sent)
    <2>1. Moved(sent) = Unsent
        BY <1>6 DEF Moved
    <2>2. \A base : Otherwise(Unsent.company, base.up.company) = base.up.company
        BY <1>3 DEF Otherwise
    <2>3. QED
        BY <1>1, <1>2, <1>3, <1>4, <1>6, <2>1, <2>2 DEF CompanyFor
<1>7. QED
    BY <1>5, <1>6

\* Kinds that only have a company, and companies.
LEMMA BareFits ==
    ASSUME NEW sent \in EntryInputs, sent.kind \in {"branch", "setting"}, NEW base
    PROVE  Fits(sent.kind, base, InCompanyNamed(sent)) /\ Fits(sent.kind, base, Moved(sent))
<1>1. "company" \in Columns(sent.kind) /\ Rechecked(sent.kind) = {}
    BY DEF Columns, Rechecked
<1>2. QED
    BY <1>1, MovedTo DEF Fits

LEMMA UnsentFits ==
    ASSUME NEW sent \in EntryInputs, NEW base
    PROVE  Fits(sent.kind, base, Unsent)
<1>1. Unsent \in Change /\ Unsent.company = Absent /\ \A f \in Fields : Unsent[f] = Absent
    BY MovedTo DEF Fields
<1>2. QED
    BY <1>1 DEF Fits

LEMMA ScopedBranchFits ==
    ASSUME NEW sent \in EntryInputs, sent.kind \in {"department", "terminal", "holiday"},
           NEW base, NEW change \in Change,
           \A f \in Fields \ {"company", "branch"} : change[f] = Absent,
           \/ change.branch = None
           \/ /\ change.branch # Absent
              /\ InThe(Otherwise(change.company, base.up.company), change.branch)
           \/ /\ change.branch = Absent
              /\ "branch" \notin Rechecked(sent.kind) \/ change.company = Absent
                 \/ base.up.branch = None
    PROVE  Fits(sent.kind, base, change)
<1>1. /\ "company" \in Columns(sent.kind) /\ "branch" \in Columns(sent.kind)
      /\ \A f \in Fields \ {"company", "branch"} : f \notin Rechecked(sent.kind)
    BY DEF Columns, Rechecked
<1>2. QED
    BY <1>1 DEF Fits, Fields

LEMMA MakeDepartmentFits ==
    ASSUME NEW sent \in EntryInputs, sent.kind \in {"department", "terminal", "holiday"},
           MakeDepartment(sent).ok, NEW base
    PROVE  Fits(sent.kind, base, MakeDepartment(sent).change)
<1>. DEFINE branch == ScopedBranch(sent, CompanyNamed(sent))
            change == [InCompanyNamed(sent) EXCEPT !.branch = branch]
<1>1. MakeDepartment(sent).change = change
    BY DEF MakeDepartment, Plan
<1>2. branch = None \/ InThe(CompanyNamed(sent), branch)
    BY DEF MakeDepartment, Plan, ScopedBranchOK
<1>3. branch \in Ids \cup {None} /\ branch # Absent
    BY NamedIsRow, NoRow
<1>4. /\ change \in Change /\ change.branch = branch
      /\ change.company = InCompanyNamed(sent).company
      /\ \A f \in Fields \ {"company", "branch"} : change[f] = Absent
    <2>. HIDE DEF branch
    <2>1. QED
        BY <1>3, MovedTo DEF Change, Fields
<1>5. Otherwise(change.company, base.up.company) = CompanyNamed(sent)
    BY <1>4, MovedTo
<1>. HIDE DEF branch, change
<1>6. QED
    BY <1>1, <1>2, <1>3, <1>4, <1>5, ScopedBranchFits

LEMMA MakePositionFits ==
    ASSUME NEW sent \in EntryInputs, sent.kind = "position", MakePosition(sent).ok, NEW base
    PROVE  Fits(sent.kind, base, MakePosition(sent).change)
<1>. DEFINE department == Otherwise(sent.up.department, None)
            change == [InCompanyNamed(sent) EXCEPT !.department = department]
<1>1. MakePosition(sent).change = change
    BY DEF MakePosition, Plan
<1>2. department = None \/ InThe(CompanyNamed(sent), department)
    BY DEF MakePosition, Plan, DepartmentOK
<1>3. department \in Ids \cup {None} /\ department # Absent
    BY NamedIsRow, NoRow DEF Otherwise, Fields
<1>4. /\ change \in Change /\ change.department = department
      /\ change.company = InCompanyNamed(sent).company
      /\ \A f \in Fields \ {"company", "department"} : change[f] = Absent
    <2>. HIDE DEF department
    <2>1. QED
        BY <1>3, MovedTo DEF Change, Fields
<1>5. Otherwise(change.company, base.up.company) = CompanyNamed(sent)
    BY <1>4, MovedTo
<1>6. Columns(sent.kind) = {"company", "department"} /\ Rechecked(sent.kind) = {}
    BY DEF Columns, Rechecked
<1>. HIDE DEF department, change
<1>7. QED
    BY <1>1, <1>2, <1>3, <1>4, <1>5, <1>6 DEF Fits, Fields

LEMMA MakeUserFits ==
    ASSUME NEW sent \in EntryInputs, sent.kind = "user", MakeUser(sent).ok
    PROVE  Fits(sent.kind, NewEntry(sent), MakeUser(sent).change)
<1>. DEFINE company == IF sent.actor.role = "superadmin" THEN CompanyAsked(sent)
                       ELSE CompanyNamed(sent)
            change == [sent.up EXCEPT !.company = company]
<1>1. MakeUser(sent).change = change
    BY DEF MakeUser, Plan
<1>2. \A f \in {"branch", "department", "position"} : FitsUser(company, sent.up[f])
    BY DEF MakeUser, Plan
<1>3. company \in Ids \cup {None} /\ company # Absent
    BY NamedIsRow, NoRow DEF CompanyAsked, Otherwise, Fields
<1>4. change \in Change /\ change.company = company
      /\ \A f \in Fields \ {"company"} : change[f] = sent.up[f]
    <2>. HIDE DEF company
    <2>1. QED
        BY <1>3, InputFields DEF Change, Fields
<1>5. Otherwise(change.company, NewEntry(sent).up.company) = company
    BY <1>3, <1>4 DEF Otherwise
<1>6. /\ Columns(sent.kind) = {"company", "branch", "department", "position"}
      /\ Rechecked(sent.kind) = {}
      /\ \A f \in Fields \ Columns(sent.kind) : sent.up[f] = Absent
    BY InputFields DEF Columns, Rechecked
<1>. HIDE DEF company, change
<1>7. \A f \in Fields \ {"company"} :
          change[f] \in {None, Absent} \/ company = None \/ InThe(company, change[f])
    BY <1>2, <1>4, <1>6 DEF FitsUser
<1>8. QED
    BY <1>1, <1>4, <1>5, <1>6, <1>7, NoRow DEF Fits, InThe, Entries

LEMMA MakeAdvanceFits ==
    ASSUME NEW sent \in EntryInputs, sent.kind \in {"advance", "adjustment"},
           MakeAdvance(sent).ok, NEW base
    PROVE  Fits(sent.kind, base, MakeAdvance(sent).change)
<1>. DEFINE change == [InCompanyNamed(sent) EXCEPT !.employee = sent.up.employee]
<1>1. MakeAdvance(sent).change = change
    BY DEF MakeAdvance, Plan
<1>2. InThe(CompanyNamed(sent), sent.up.employee)
    BY DEF MakeAdvance, Plan, EmployeeOK
<1>3. sent.up.employee \in Ids /\ sent.up.employee # Absent
    BY <1>2, NoRow DEF InThe, Entries
<1>4. /\ change \in Change /\ change.employee = sent.up.employee
      /\ change.company = InCompanyNamed(sent).company
      /\ \A f \in Fields \ {"company", "employee"} : change[f] = Absent
    BY <1>3, MovedTo DEF Change, Fields
<1>5. Otherwise(change.company, base.up.company) = CompanyNamed(sent)
    BY <1>4, MovedTo
<1>6. Columns(sent.kind) = {"company", "employee"} /\ Rechecked(sent.kind) = {"employee"}
    BY DEF Columns, Rechecked
<1>. HIDE DEF change
<1>7. QED
    BY <1>1, <1>2, <1>3, <1>4, <1>5, <1>6 DEF Fits, Fields

LEMMA MakeRawLogFits ==
    ASSUME NEW sent \in EntryInputs, sent.kind = "rawLog", MakeRawLog(sent).ok, NEW base
    PROVE  Fits(sent.kind, base, MakeRawLog(sent).change)
<1>. DEFINE employee == Otherwise(sent.up.employee, None)
            change == [InCompanyNamed(sent) EXCEPT !.terminal = sent.up.terminal,
                           !.employee = employee, !.attendance = sent.up.attendance]
<1>1. MakeRawLog(sent).change = change
    BY DEF MakeRawLog, Plan
<1>2. /\ InThe(CompanyNamed(sent), sent.up.terminal)
      /\ employee = None \/ InThe(CompanyNamed(sent), employee)
      /\ sent.up.attendance \in {Absent, None} \/ InThe(CompanyNamed(sent), sent.up.attendance)
    BY DEF MakeRawLog, Plan, EmployeeOK, AttendanceOK
<1>3. /\ sent.up.terminal \in Ids /\ sent.up.terminal # Absent
      /\ employee \in Ids \cup {None} /\ employee # Absent
      /\ sent.up.attendance \in Ids \cup {None, Absent}
    BY <1>2, NamedIsRow, NoRow DEF InThe, Entries, Otherwise, Fields
<1>4. /\ change \in Change /\ change.terminal = sent.up.terminal
      /\ change.employee = employee /\ change.attendance = sent.up.attendance
      /\ change.company = InCompanyNamed(sent).company
      /\ \A f \in Fields \ {"company", "terminal", "employee", "attendance"} : change[f] = Absent
    <2>. HIDE DEF employee
    <2>1. QED
        BY <1>3, MovedTo DEF Change, Fields
<1>5. Otherwise(change.company, base.up.company) = CompanyNamed(sent)
    BY <1>4, MovedTo
<1>6. /\ Columns(sent.kind) = {"company", "terminal", "employee", "attendance"}
      /\ Rechecked(sent.kind) = {"terminal"}
    BY DEF Columns, Rechecked
<1>. HIDE DEF employee, change
<1>7. QED
    BY <1>1, <1>2, <1>3, <1>4, <1>5, <1>6 DEF Fits, Fields

LEMMA NotificationFits ==
    ASSUME NEW sent \in EntryInputs, sent.kind = "notification", NEW base,
           base.up.company = None
    PROVE  Fits(sent.kind, base, [Unsent EXCEPT !.employee = sent.up.employee])
<1>. DEFINE change == [Unsent EXCEPT !.employee = sent.up.employee]
<1>1. sent.up.employee \in Ids \cup {None, Absent}
    BY NamedIsRow DEF Fields
<1>2. change \in Change /\ change.company = Absent
      /\ \A f \in Fields \ {"employee"} : change[f] = Absent
    BY <1>1, MovedTo DEF Change, Fields
<1>3. Columns(sent.kind) = {"employee"} /\ Rechecked(sent.kind) = {}
    BY DEF Columns, Rechecked
<1>. HIDE DEF change
<1>4. Otherwise(change.company, base.up.company) = None
    BY <1>2 DEF Otherwise
<1>5. Fits(sent.kind, base, change)
    BY <1>2, <1>3, <1>4 DEF Fits
<1>6. QED
    BY <1>5 DEF change

LEMMA MakeFits ==
    ASSUME NEW sent \in EntryInputs, Make(sent).ok
    PROVE  Fits(sent.kind, NewEntry(sent), Make(sent).change)
<1>1. sent.kind \in EntryKinds \ ListedKinds
    BY InputFields
<1>2. NewEntry(sent).up.company = None
    BY DEF NewEntry, NoLink, Fields
<1>3. CASE sent.kind \in {"company", "branch", "setting"}
    BY <1>3, UnsentFits, BareFits DEF Make, MakeCompany, MakeBranch, MakeSetting, Plan
<1>4. CASE sent.kind \in {"department", "terminal", "holiday"}
    <2>1. Make(sent) = MakeDepartment(sent)
        BY <1>4 DEF Make, MakeTerminal, MakeHoliday
    <2>2. QED
        BY <1>4, <2>1, MakeDepartmentFits
<1>5. CASE sent.kind \in {"position", "user", "advance", "adjustment", "rawLog"}
    BY <1>5, MakePositionFits, MakeUserFits, MakeAdvanceFits, MakeRawLogFits
       DEF Make, MakeAdjustment
<1>6. CASE sent.kind = "notification"
    BY <1>2, <1>6, NotificationFits DEF Make, MakeNotification, Plan
<1>7. QED
    BY <1>1, <1>3, <1>4, <1>5, <1>6 DEF EntryKinds, ListedKinds

\* The row an update starts from, as it was loaded.
LEMMA OldFields ==
    ASSUME NEW old \in Entry
    PROVE  \A f \in Fields : old.up[f] \in Ids \cup {None} /\ old.up[f] # Absent
BY NoRow DEF Entry, Links

LEMMA EditHolidayFits ==
    ASSUME NEW sent \in EntryInputs, sent.kind \in {"department", "terminal", "holiday"},
           NEW old, EditHoliday(sent, old).ok,
           \/ sent.kind = "holiday" \/ sent.up.branch # Absent \/ ~Moves(sent)
           \/ old.up.branch = None
    PROVE  Fits(sent.kind, old, EditHoliday(sent, old).change)
<1>1. CASE sent.up.branch = Absent
    <2>1. EditHoliday(sent, old).change = Moved(sent)
        BY <1>1 DEF EditHoliday, Plan
    <2>2. /\ Moved(sent) \in Change /\ \A f \in Fields \ {"company"} : Moved(sent)[f] = Absent
          /\ ~Moves(sent) => Moved(sent).company = Absent
        BY MovedTo
    <2>3. Moved(sent).branch = Absent /\ (sent.kind = "holiday" => Rechecked(sent.kind) = {})
        BY <2>2 DEF Fields, Rechecked
    <2>4. "branch" \notin Rechecked(sent.kind) \/ Moved(sent).company = Absent
          \/ old.up.branch = None
        BY <1>1, <2>2, <2>3
    <2>5. Fits(sent.kind, old, Moved(sent))
        BY <2>2, <2>3, <2>4, ScopedBranchFits
    <2>6. QED
        BY <2>1, <2>5
<1>2. CASE sent.up.branch # Absent
    <2>. DEFINE branch == ScopedBranch(sent, CompanyFor(sent, old))
                change == [Moved(sent) EXCEPT !.branch = branch]
    <2>1. EditHoliday(sent, old).change = change
        BY <1>2 DEF EditHoliday, Plan
    <2>2. branch = None \/ InThe(CompanyFor(sent, old), branch)
        BY <1>2 DEF EditHoliday, Plan, ScopedBranchOK
    <2>3. branch \in Ids \cup {None} /\ branch # Absent
        BY NamedIsRow, NoRow
    <2>4. /\ change \in Change /\ change.branch = branch
          /\ change.company = Moved(sent).company
          /\ \A f \in Fields \ {"company", "branch"} : change[f] = Absent
        <3>. HIDE DEF branch
        <3>1. QED
            BY <2>3, MovedTo DEF Change, Fields
    <2>5. Otherwise(change.company, old.up.company) = CompanyFor(sent, old)
        BY <2>4, MovedTo
    <2>. HIDE DEF branch, change
    <2>6. QED
        BY <2>1, <2>2, <2>3, <2>4, <2>5, ScopedBranchFits
<1>3. QED
    BY <1>1, <1>2

\* A department or a terminal that moves takes its branch along only if that is of the
\* company it moves to.
LEMMA KeepBranchFits ==
    ASSUME NEW sent \in EntryInputs, sent.kind \in {"department", "terminal"},
           NEW old \in Entry,
           old.up.branch = None \/ InThe(CompanyNamed(sent), old.up.branch)
    PROVE  Fits(sent.kind, old, [InCompanyNamed(sent) EXCEPT !.branch = old.up.branch])
<1>. DEFINE change == [InCompanyNamed(sent) EXCEPT !.branch = old.up.branch]
<1>1. old.up.branch \in Ids \cup {None} /\ old.up.branch # Absent
    BY OldFields DEF Fields
<1>2. /\ change \in Change /\ change.branch = old.up.branch
      /\ change.company = InCompanyNamed(sent).company
      /\ \A f \in Fields \ {"company", "branch"} : change[f] = Absent
    BY <1>1, MovedTo DEF Change, Fields
<1>3. Otherwise(change.company, old.up.company) = CompanyNamed(sent)
    BY <1>2, MovedTo
<1>. HIDE DEF change
<1>4. Fits(sent.kind, old, change)
    BY <1>1, <1>2, <1>3, ScopedBranchFits
<1>5. QED
    BY <1>4 DEF change

LEMMA EditDepartmentFits ==
    ASSUME NEW sent \in EntryInputs, sent.kind = "department", NEW old \in Entry,
           EditDepartment(sent, old).ok
    PROVE  Fits(sent.kind, old, EditDepartment(sent, old).change)
<1>1. CASE sent.up.branch = Absent /\ Moves(sent) /\ old.up.branch # None
    <2>1. /\ InThe(CompanyNamed(sent), old.up.branch)
          /\ EditDepartment(sent, old).change
                 = [InCompanyNamed(sent) EXCEPT !.branch = old.up.branch]
        BY <1>1 DEF EditDepartment, Plan
    <2>2. QED
        BY <2>1, KeepBranchFits
<1>2. CASE ~(sent.up.branch = Absent /\ Moves(sent) /\ old.up.branch # None)
    <2>1. EditDepartment(sent, old) = EditHoliday(sent, old)
        BY <1>2 DEF EditDepartment
    <2>2. QED
        BY <1>2, <2>1, EditHolidayFits
<1>3. QED
    BY <1>1, <1>2

LEMMA EditTerminalFits ==
    ASSUME NEW sent \in EntryInputs, sent.kind = "terminal", NEW old \in Entry,
           EditTerminal(sent, old).ok
    PROVE  Fits(sent.kind, old, EditTerminal(sent, old).change)
<1>1. CASE sent.up.branch = Absent /\ Moves(sent)
    <2>1. /\ old.up.branch = None \/ InThe(CompanyNamed(sent), old.up.branch)
          /\ EditTerminal(sent, old).change
                 = [InCompanyNamed(sent) EXCEPT !.branch = old.up.branch]
        BY <1>1 DEF EditTerminal, Plan
    <2>2. QED
        BY <2>1, KeepBranchFits
<1>2. CASE ~(sent.up.branch = Absent /\ Moves(sent))
    <2>1. EditTerminal(sent, old) = EditHoliday(sent, old)
        BY <1>2 DEF EditTerminal
    <2>2. QED
        BY <1>2, <2>1, EditHolidayFits
<1>3. QED
    BY <1>1, <1>2

LEMMA EditPositionFits ==
    ASSUME NEW sent \in EntryInputs, sent.kind = "position", NEW old,
           EditPosition(sent, old).ok
    PROVE  Fits(sent.kind, old, EditPosition(sent, old).change)
<1>1. Columns(sent.kind) = {"company", "department"} /\ Rechecked(sent.kind) = {}
    BY DEF Columns, Rechecked
<1>2. CASE sent.up.department = Absent
    <2>1. EditPosition(sent, old).change = Moved(sent)
        BY <1>2 DEF EditPosition, Plan
    <2>2. QED
        BY <1>1, <2>1, MovedTo DEF Fits
<1>3. CASE sent.up.department # Absent
    <2>. DEFINE department == sent.up.department
                change == [Moved(sent) EXCEPT !.department = department]
    <2>1. EditPosition(sent, old).change = change
        BY <1>3 DEF EditPosition, Plan
    <2>2. department = None \/ InThe(CompanyFor(sent, old), department)
        BY <1>3 DEF EditPosition, Plan, DepartmentOK
    <2>3. department \in Ids \cup {None} /\ department # Absent
        BY <1>3, NamedIsRow DEF Fields
    <2>4. /\ change \in Change /\ change.department = department
          /\ change.company = Moved(sent).company
          /\ \A f \in Fields \ {"company", "department"} : change[f] = Absent
        <3>. HIDE DEF department
        <3>1. QED
            BY <2>3, MovedTo DEF Change, Fields
    <2>5. Otherwise(change.company, old.up.company) = CompanyFor(sent, old)
        BY <2>4, MovedTo
    <2>. HIDE DEF department, change
    <2>6. QED
        BY <1>1, <2>1, <2>2, <2>3, <2>4, <2>5 DEF Fits, Fields
<1>4. QED
    BY <1>2, <1>3

LEMMA EditUserFits ==
    ASSUME NEW sent \in EntryInputs, sent.kind = "user", NEW old, EditUser(sent, old).ok
    PROVE  Fits(sent.kind, old, EditUser(sent, old).change)
<1>. DEFINE company == Otherwise(sent.up.company, old.up.company)
<1>1. EditUser(sent, old).change = sent.up
    BY DEF EditUser, Plan
<1>2. \A f \in {"branch", "department", "position"} : FitsUser(company, sent.up[f])
    BY DEF EditUser, Plan
<1>3. /\ Columns(sent.kind) = {"company", "branch", "department", "position"}
      /\ Rechecked(sent.kind) = {} /\ sent.up \in Change
      /\ \A f \in Fields \ Columns(sent.kind) : sent.up[f] = Absent
    BY InputFields DEF Columns, Rechecked
<1>. HIDE DEF company
<1>4. \A f \in Fields \ {"company"} :
          sent.up[f] \in {None, Absent} \/ company = None \/ InThe(company, sent.up[f])
    BY <1>2, <1>3 DEF FitsUser
<1>. USE DEF company
<1>5. QED
    BY <1>1, <1>3, <1>4, NoRow DEF Fits, InThe, Entries

LEMMA EditAdvanceFits ==
    ASSUME NEW sent \in EntryInputs, sent.kind \in {"advance", "adjustment"},
           NEW old \in Entry, EditAdvance(sent, old).ok
    PROVE  Fits(sent.kind, old, EditAdvance(sent, old).change)
<1>. DEFINE employee == IF sent.up.employee = Absent /\ Moves(sent) THEN old.up.employee
                        ELSE sent.up.employee
            change == [Moved(sent) EXCEPT !.employee = employee]
<1>1. EditAdvance(sent, old).change = change
    BY DEF EditAdvance, Plan
<1>2. employee = Absent \/ InThe(CompanyFor(sent, old), employee)
    BY DEF EditAdvance, Plan, EmployeeOK
<1>3. employee \in Ids \cup {Absent}
    BY <1>2 DEF InThe, Entries
<1>4. /\ change \in Change /\ change.employee = employee
      /\ change.company = Moved(sent).company
      /\ \A f \in Fields \ {"company", "employee"} : change[f] = Absent
    <2>. HIDE DEF employee
    <2>1. QED
        BY <1>3, MovedTo DEF Change, Fields
<1>5. Otherwise(change.company, old.up.company) = CompanyFor(sent, old)
    BY <1>4, MovedTo
<1>6. Columns(sent.kind) = {"company", "employee"} /\ Rechecked(sent.kind) = {"employee"}
    BY DEF Columns, Rechecked
<1>7. employee = Absent => ~Moves(sent)
    BY OldFields DEF Fields
<1>8. ~Moves(sent) => change.company = Absent
    BY <1>4, MovedTo
<1>. HIDE DEF employee, change
<1>9. QED
    BY <1>1, <1>2, <1>3, <1>4, <1>5, <1>6, <1>7, <1>8 DEF Fits, Fields

LEMMA EditRawLogFits ==
    ASSUME NEW sent \in EntryInputs, sent.kind = "rawLog", NEW old \in Entry,
           EditRawLog(sent, old).ok
    PROVE  Fits(sent.kind, old, EditRawLog(sent, old).change)
<1>. DEFINE company == CompanyFor(sent, old)
            terminal == IF sent.up.terminal = Absent /\ Moves(sent) THEN old.up.terminal
                        ELSE sent.up.terminal
            change == [Moved(sent) EXCEPT !.terminal = terminal,
                           !.employee = sent.up.employee, !.attendance = sent.up.attendance]
<1>1. EditRawLog(sent, old).change = change
    BY DEF EditRawLog, Plan
<1>2. /\ terminal = Absent \/ InThe(company, terminal)
      /\ sent.up.employee \in {Absent, None} \/ InThe(company, sent.up.employee)
      /\ sent.up.attendance \in {Absent, None} \/ InThe(company, sent.up.attendance)
    BY DEF EditRawLog, Plan, EmployeeOK, AttendanceOK
<1>3. terminal = Absent => ~Moves(sent)
    BY OldFields DEF Fields
<1>4. /\ terminal \in Ids \cup {None, Absent} /\ sent.up.employee \in Ids \cup {None, Absent}
      /\ sent.up.attendance \in Ids \cup {None, Absent}
    <2>1. terminal = Absent \/ terminal \in Ids
        BY <1>2 DEF InThe, Entries
    <2>2. QED
        BY <2>1, NamedIsRow DEF Fields
<1>5. /\ change \in Change /\ change.terminal = terminal
      /\ change.employee = sent.up.employee /\ change.attendance = sent.up.attendance
      /\ change.company = Moved(sent).company
      /\ \A f \in Fields \ {"company", "terminal", "employee", "attendance"} : change[f] = Absent
    <2>. HIDE DEF terminal
    <2>1. QED
        BY <1>4, MovedTo DEF Change, Fields
<1>6. Otherwise(change.company, old.up.company) = company
    BY <1>5, MovedTo
<1>7. /\ Columns(sent.kind) = {"company", "terminal", "employee", "attendance"}
      /\ Rechecked(sent.kind) = {"terminal"}
    BY DEF Columns, Rechecked
<1>8. terminal = Absent => change.company = Absent
    BY <1>3, <1>5, MovedTo
<1>9. \A p : InThe(company, p) => p # Absent
    BY NoRow DEF InThe, Entries
<1>. HIDE DEF company, terminal, change
<1>10. \A f \in Fields \ {"company"} :
          \/ change[f] = None \/ company = None
          \/ change[f] # Absent /\ InThe(company, change[f])
          \/ /\ change[f] = Absent
             /\ f \notin Rechecked(sent.kind) \/ change.company = Absent
    BY <1>2, <1>5, <1>7, <1>8, <1>9 DEF Fields
<1>11. QED
    BY <1>1, <1>5, <1>6, <1>7, <1>10 DEF Fits

LEMMA EditFits ==
    ASSUME NEW sent \in EntryInputs, NEW old \in Entry, old.kind = sent.kind,
           \A f \in Fields \ Columns(old.kind) : old.up[f] = None,
           Edit(sent, old).ok
    PROVE  Fits(sent.kind, old, Edit(sent, old).change)
<1>1. sent.kind \in EntryKinds \ ListedKinds
    BY InputFields
<1>2. sent.kind = "notification" => old.up.company = None
    BY DEF Columns, Fields
<1>3. CASE sent.kind \in {"company", "branch", "setting"}
    BY <1>3, UnsentFits, BareFits DEF Edit, EditCompany, EditBranch, EditSetting, Plan
<1>4. CASE sent.kind \in {"department", "terminal"}
    BY <1>4, EditDepartmentFits, EditTerminalFits DEF Edit
<1>5. CASE sent.kind = "holiday"
    BY <1>5, EditHolidayFits DEF Edit
<1>6. CASE sent.kind \in {"position", "user", "advance", "adjustment", "rawLog"}
    BY <1>6, EditPositionFits, EditUserFits, EditAdvanceFits, EditRawLogFits
       DEF Edit, EditAdjustment
<1>7. CASE sent.kind = "notification"
    BY <1>2, <1>7, NotificationFits DEF Edit, EditNotification, Plan
<1>8. QED
    BY <1>1, <1>3, <1>4, <1>5, <1>6, <1>7 DEF EntryKinds, ListedKinds

(***************************************************************************)
(* The row that is written.                                                *)
(***************************************************************************)
LEMMA ChangedRow ==
    ASSUME NEW base \in Entry, NEW sent \in EntryInputs, NEW change \in Change
    PROVE  LET row == Changed(base, sent, change)
           IN  /\ row \in Entry /\ row.kind = base.kind
               /\ \A f \in Fields : row.up[f] = Otherwise(change[f], base.up[f])
               /\ row.up.company = Otherwise(change.company, base.up.company)
               /\ row.name = Otherwise(sent.name, base.name)
<1>. DEFINE up == [f \in Fields |-> Otherwise(change[f], base.up[f])]
            name == Otherwise(sent.name, base.name)
            row == [base EXCEPT !.up = up, !.name = name]
<1>1. up \in Links
    BY DEF Links, Entry, Change, Otherwise
<1>2. name \in Names \cup {None}
    BY InputFields DEF Entry, Otherwise
<1>3. /\ \A f \in Fields : up[f] = Otherwise(change[f], base.up[f])
      /\ up.company = Otherwise(change.company, base.up.company)
    BY DEF Fields
<1>4. Changed(base, sent, change) = row
    BY DEF Changed, Entry
<1>. HIDE DEF up, name
<1>5. row \in Entry /\ row.kind = base.kind /\ row.up = up /\ row.name = name
    BY <1>1, <1>2 DEF Entry
<1>. USE DEF name
<1>6. QED
    BY <1>3, <1>4, <1>5

LEMMA NewRow ==
    ASSUME NEW sent \in EntryInputs
    PROVE  /\ NewEntry(sent) \in Entry /\ NewEntry(sent).kind = sent.kind
           /\ \A f \in Fields : NewEntry(sent).up[f] = None
BY InputFields DEF NewEntry, NoLink, Entry, Links

LEMMA ChangedColumns ==
    ASSUME NEW base \in Entry, NEW sent \in EntryInputs, NEW change \in Change,
           \A f \in Fields \ Columns(base.kind) : base.up[f] = None,
           \A f \in Fields \ Columns(base.kind) : change[f] \in {None, Absent}
    PROVE  LET row == Changed(base, sent, change)
           IN  \A f \in Fields \ Columns(row.kind) : row.up[f] = None
BY ChangedRow DEF Otherwise

\* What fits is checked.
LEMMA FitsChecked ==
    ASSUME NEW sent \in EntryInputs, NEW base \in Entry, NEW change,
           Fits(sent.kind, base, change)
    PROVE  LET row == Changed(base, sent, change)
           IN  \A f \in Fields \ {"company"} :
                  \/ row.up[f] = None \/ row.up.company = None
                  \/ InThe(row.up.company, row.up[f])
                  \/ /\ row.up[f] = base.up[f]
                     /\ row.up.company = base.up.company \/ f \notin Rechecked(sent.kind)
<1>. DEFINE row == Changed(base, sent, change)
<1>1. change \in Change
    BY DEF Fits
<1>2. /\ \A f \in Fields : row.up[f] = Otherwise(change[f], base.up[f])
      /\ row.up.company = Otherwise(change.company, base.up.company)
    BY <1>1, ChangedRow
<1>. HIDE DEF row
<1>3. \A f \in Fields \ {"company"} :
          \/ row.up[f] = None \/ row.up.company = None
          \/ InThe(row.up.company, row.up[f])
          \/ /\ row.up[f] = base.up[f]
             /\ row.up.company = base.up.company \/ f \notin Rechecked(sent.kind)
    <2>. SUFFICES ASSUME NEW f \in Fields \ {"company"}
                  PROVE  \/ row.up[f] = None \/ row.up.company = None
                         \/ InThe(row.up.company, row.up[f])
                         \/ /\ row.up[f] = base.up[f]
                            /\ \/ row.up.company = base.up.company
                               \/ f \notin Rechecked(sent.kind)
        OBVIOUS
    <2>1. \/ change[f] = None \/ row.up.company = None
          \/ change[f] # Absent /\ InThe(row.up.company, change[f])
          \/ /\ change[f] = Absent
             /\ f \notin Rechecked(sent.kind) \/ change.company = Absent \/ base.up[f] = None
        BY <1>2 DEF Fits
    <2>2. QED
        BY <1>2, <2>1, NoRow DEF Otherwise
<1>4. QED
    BY <1>3 DEF row

\* An update that sends none of the links names are unique over leaves them alone.
LEMMA EditKeeps ==
    ASSUME NEW sent \in EntryInputs, NEW old,
           \A f \in UniqueOver(sent.kind) : sent.up[f] = Absent
    PROVE  \A f \in UniqueOver(sent.kind) : Edit(sent, old).change[f] = Absent
<1>1. CASE sent.kind \in {"branch", "setting", "department", "position"}
    <2>1. ~Moves(sent) /\ UniqueOver(sent.kind) \subseteq Fields
        BY <1>1 DEF UniqueOver, Moves, Fields
    <2>2. Moved(sent) = Unsent
        BY <2>1 DEF Moved
    <2>3. Edit(sent, old).change = Unsent
        <3>1. CASE sent.kind \in {"branch", "setting"}
            BY <2>2, <3>1 DEF Edit, EditBranch, EditSetting, Plan
        <3>2. CASE sent.kind = "department"
            <4>1. sent.up.branch = Absent
                BY <3>2 DEF UniqueOver
            <4>2. QED
                BY <2>1, <2>2, <3>2, <4>1 DEF Edit, EditDepartment, EditHoliday, Plan
        <3>3. CASE sent.kind = "position"
            <4>1. sent.up.department = Absent
                BY <3>3 DEF UniqueOver
            <4>2. QED
                BY <2>2, <3>3, <4>1 DEF Edit, EditPosition, Plan
        <3>4. QED
            BY <1>1, <3>1, <3>2, <3>3
    <2>4. QED
        BY <2>1, <2>3, MovedTo
<1>2. CASE sent.kind \notin {"branch", "setting", "department", "position"}
    BY <1>2 DEF UniqueOver
<1>3. QED
    BY <1>1, <1>2

\* What NameOK lets through is checked.
LEMMA NameOKChecked ==
    ASSUME NEW c, c.sent \in EntryInputs, Base(c) \in Entry, c.change \in Change,
           Base(c).kind = c.sent.kind,
           c.sent.op # "create" => c.change = Edit(c.sent, c.old).change,
           NameOK(c.at, RowToBe(c), c.sent)
    PROVE  NameChecked(c)
<1>1. /\ RowToBe(c).kind = c.sent.kind
      /\ \A f \in Fields : RowToBe(c).up[f] = Otherwise(c.change[f], Base(c).up[f])
      /\ RowToBe(c).name = Otherwise(c.sent.name, Base(c).name)
    BY ChangedRow DEF RowToBe
<1>2. CASE c.sent.kind \notin Named
    BY <1>1, <1>2 DEF NameChecked, SameName
<1>3. CASE \/ c.sent.op = "create" \/ c.sent.name # Absent
           \/ \E f \in UniqueOver(c.sent.kind) : c.sent.up[f] # Absent
    BY <1>2, <1>3 DEF NameChecked, NameOK
<1>4. CASE /\ c.sent.op # "create" /\ c.sent.name = Absent
           /\ \A f \in UniqueOver(c.sent.kind) : c.sent.up[f] = Absent
    <2>1. \A f \in UniqueOver(c.sent.kind) : c.change[f] = Absent
        BY <1>4, EditKeeps
    <2>2. UniqueOver(c.sent.kind) \subseteq Fields
        BY DEF UniqueOver, Fields
    <2>3. QED
        BY <1>1, <1>4, <2>1, <2>2 DEF NameChecked, Otherwise
<1>5. QED
    BY <1>2, <1>3, <1>4

(***************************************************************************)
(* Steps that write no row.                                                *)
(***************************************************************************)
LEMMA CallFields ==
    ASSUME NEW c \in EntryCall
    PROVE  /\ c.phase \in EntryPhases /\ c.sent \in EntryInput \cup {None}
           /\ c.at \in Ids \cup {None} /\ c.old \in Entry \cup {None} /\ c.change \in Change
           /\ c.crossed \in BOOLEAN
BY DEF EntryCall, Change

\* Only the call of r has changed, and what it knows is so.
LEMMA EntryReadKeeps ==
    ASSUME DirectoryInv, NEW r \in EntryRequests, NEW d \in EntryCall,
           entryCall' = [entryCall EXCEPT ![r] = d],
           UNCHANGED <<entry, strayed, mixed, orphaned>>,
           CallKnows(d), d.at \in {None, entryCall[r].at} \cup Entries,
           entryCall[r].phase # "done"
    PROVE  DirectoryInv'
<1>1. DirectoryTypeOK'
    BY DEF DirectoryInv, DirectoryTypeOK
<1>2. CallsKnow'
    <2>. SUFFICES ASSUME NEW q \in EntryRequests
                  PROVE  CallKnows(entryCall[q])'
        BY DEF CallsKnow
    <2>1. PICK e : e = entryCall'[q]
        OBVIOUS
    <2>2. e = IF q = r THEN d ELSE entryCall[q]
        BY <2>1 DEF DirectoryInv, DirectoryTypeOK
    <2>3. CallKnows(e)
        BY <2>2 DEF DirectoryInv, CallsKnow
    <2>4. CallKnows(e)'
        BY <2>3 DEF CallKnows, LinksChecked, NameChecked, InThe, Entries
    <2>5. QED
        BY <2>1, <2>4
<1>3. IdsFresh'
    <2>. SUFFICES ASSUME NEW q \in EntryRequests,
                         entry[q] # None \/ \E o \in EntryRequests : entryCall'[o].at = q
                  PROVE  entryCall'[q].phase = "done"
        BY DEF IdsFresh
    <2>1. /\ entryCall'[r] = d
          /\ \A o \in EntryRequests \ {r} : entryCall'[o] = entryCall[o]
        BY DEF DirectoryInv, DirectoryTypeOK
    <2>2. q # None /\ q \in Ids
        BY NoRow DEF Ids
    <2>3. entry[q] # None \/ \E o \in EntryRequests : entryCall[o].at = q
        BY <2>1, <2>2 DEF Entries
    <2>4. entryCall[q].phase = "done"
        BY <2>3 DEF DirectoryInv, IdsFresh
    <2>5. QED
        BY <2>1, <2>4
<1>4. Entries' = Entries
    BY DEF Entries
<1>5. ColumnsOnly'
    BY <1>4 DEF DirectoryInv, ColumnsOnly
<1>6. ParentsAgree'
    BY <1>4 DEF DirectoryInv, ParentsAgree, InThe
<1>7. NamesTellApart'
    BY <1>4 DEF DirectoryInv, NamesTellApart
<1>8. QED
    BY <1>1, <1>2, <1>3, <1>5, <1>6, <1>7 DEF DirectoryInv

LEMMA EndedKnows ==
    ASSUME NEW phase \in {"done", "refused"}
    PROVE  /\ EndedEntryCall(phase) \in EntryCall /\ CallKnows(EndedEntryCall(phase))
           /\ EndedEntryCall(phase).at = None /\ EndedEntryCall(phase).phase = phase
BY DEF EndedEntryCall, IdleEntryCall, EntryCall, EntryPhases, Unsent, CallKnows, Underway

LEMMA StartKeeps ==
    ASSUME DirectoryInv, NEW r \in EntryRequests, StartEntryCall(r)
    PROVE  DirectoryInv'
<1>1. PICK sent \in EntryInputs, x \in Entries \cup {None} :
          /\ IF sent.op = "create" THEN x = None ELSE x # None /\ entry[x].kind = sent.kind
          /\ entryCall' = [entryCall EXCEPT ![r] =
                               [IdleEntryCall EXCEPT !.phase = "started", !.sent = sent, !.at = x]]
    BY DEF StartEntryCall
<1>. DEFINE d == [IdleEntryCall EXCEPT !.phase = "started", !.sent = sent, !.at = x]
<1>2. sent \in EntryInput /\ x \in Ids \cup {None}
    BY InputFields DEF Entries
<1>3. /\ d \in EntryCall /\ d.at = x /\ d.phase = "started" /\ d.sent = sent
    BY <1>2 DEF IdleEntryCall, EntryCall, EntryPhases, Unsent
<1>4. entryCall' = [entryCall EXCEPT ![r] = d]
    BY <1>1
<1>. HIDE DEF d
<1>5. CallKnows(d)
    BY <1>1, <1>3, NoRow DEF CallKnows, Underway, Entries
<1>6. QED
    BY <1>3, <1>4, <1>5, EntryReadKeeps DEF StartEntryCall

LEMMA LoadKeeps ==
    ASSUME DirectoryInv, NEW r \in EntryRequests, LoadEntry(r)
    PROVE  DirectoryInv'
<1>. DEFINE c == entryCall[r]
            d == [c EXCEPT !.phase = "loaded", !.old = entry[c.at]]
<1>1. /\ c.phase = "started" /\ c.sent.op # "create"
      /\ UNCHANGED <<entry, strayed, mixed, orphaned>>
    BY DEF LoadEntry, EntryRead
<1>2. c \in EntryCall /\ CallKnows(c)
    BY DEF DirectoryInv, DirectoryTypeOK, CallsKnow
<1>3. CASE entryCall' = [entryCall EXCEPT ![r] = EndedEntryCall("refused")]
    BY <1>1, <1>3, EndedKnows, EntryReadKeeps
<1>4. CASE c.at \in Entries /\ entryCall' = [entryCall EXCEPT ![r] = d]
    <2>1. entry[c.at] \in Entry /\ entry[c.at] # None /\ c.at # None
        BY <1>4, NoRow DEF Entries, DirectoryInv, DirectoryTypeOK
    <2>2. \A f \in Fields \ Columns(entry[c.at].kind) : entry[c.at].up[f] = None
        BY <1>4 DEF DirectoryInv, ColumnsOnly
    <2>3. /\ d \in EntryCall /\ d.at = c.at /\ d.phase = "loaded" /\ d.sent = c.sent
          /\ d.old = entry[c.at]
        BY <1>2, <2>1 DEF EntryCall, EntryPhases
    <2>4. c.sent \in EntryInputs /\ entry[c.at].kind = c.sent.kind
        BY <1>1, <1>2, <2>1 DEF CallKnows, Underway
    <2>. HIDE DEF d
    <2>5. CallKnows(d)
        BY <1>1, <2>1, <2>2, <2>3, <2>4 DEF CallKnows, Underway
    <2>6. QED
        BY <1>1, <1>4, <2>3, <2>5, EntryReadKeeps
<1>5. QED
    BY <1>3, <1>4 DEF LoadEntry, EntryRead

LEMMA CheckKeeps ==
    ASSUME DirectoryInv, NEW r \in EntryRequests, CheckEntry(r)
    PROVE  DirectoryInv'
<1>. DEFINE c == entryCall[r]
            plan == IF c.sent.op = "create" THEN Make(c.sent) ELSE Edit(c.sent, c.old)
            d == [c EXCEPT !.phase = "ready", !.change = plan.change]
<1>1. /\ \/ c.phase = "started" /\ c.sent.op = "create"
         \/ c.phase = "loaded" /\ c.sent.op = "update"
      /\ UNCHANGED <<entry, strayed, mixed, orphaned>>
    BY DEF CheckEntry, EntryRead
<1>2. c \in EntryCall /\ CallKnows(c)
    BY DEF DirectoryInv, DirectoryTypeOK, CallsKnow
<1>3. CASE entryCall' = [entryCall EXCEPT ![r] = EndedEntryCall("refused")]
    BY <1>1, <1>3, EndedKnows, EntryReadKeeps
<1>4. CASE /\ plan.ok /\ NameOK(c.at, Changed(Base(c), c.sent, plan.change), c.sent)
           /\ entryCall' = [entryCall EXCEPT ![r] = d]
    <2>1. /\ c.sent \in EntryInputs
          /\ c.at # None /\ entry[c.at] # None => entry[c.at].kind = c.sent.kind
          /\ c.sent.op = "create" <=> c.at = None
        BY <1>1, <1>2 DEF CallKnows, Underway
    <2>2. c.phase = "loaded" => /\ c.at # None /\ c.old # None /\ c.old \in Entry
                                /\ c.old.kind = c.sent.kind
                                /\ \A f \in Fields \ Columns(c.old.kind) : c.old.up[f] = None
                                /\ c.crossed \/ entry[c.at] = c.old
        BY <1>2, CallFields DEF CallKnows
    <2>3. Base(c) \in Entry /\ Base(c).kind = c.sent.kind
        BY <1>1, <2>1, <2>2, NewRow DEF Base
    <2>4. Fits(c.sent.kind, Base(c), plan.change)
        BY <1>1, <1>4, <2>1, <2>2, MakeFits, EditFits DEF Base
    <2>5. plan.change \in Change
        BY <2>4 DEF Fits
    <2>6. /\ d \in EntryCall /\ d.at = c.at /\ d.phase = "ready" /\ d.sent = c.sent
          /\ d.old = c.old /\ d.change = plan.change /\ d.crossed = c.crossed
        <3>. HIDE DEF plan
        <3>1. QED
            BY <1>2, <2>5 DEF EntryCall, EntryPhases, Change
    <2>7. d.sent.op # "create" => d.change = Edit(d.sent, d.old).change
        BY <2>6
    <2>. HIDE DEF d, plan
    <2>8. Base(d) = Base(c) /\ RowToBe(d) = Changed(Base(c), c.sent, plan.change)
        BY <2>6 DEF Base, RowToBe
    <2>9. LinksChecked(d)
        BY <2>1, <2>3, <2>4, <2>6, <2>8, FitsChecked DEF LinksChecked
    <2>10. NameChecked(d)
        BY <1>4, <2>1, <2>3, <2>5, <2>6, <2>7, <2>8, NameOKChecked
    <2>11. \A f \in Fields \ Columns(c.sent.kind) : plan.change[f] \in {None, Absent}
        BY <2>4 DEF Fits
    <2>12. CallKnows(d)
        BY <1>1, <2>1, <2>2, <2>6, <2>9, <2>10, <2>11 DEF CallKnows, Underway
    <2>13. QED
        BY <1>1, <1>4, <2>6, <2>12, EntryReadKeeps
<1>5. QED
    BY <1>3, <1>4 DEF CheckEntry, EntryRead, Base

LEMMA StopKeeps ==
    ASSUME DirectoryInv, NEW r \in EntryRequests, StopEntryCall(r)
    PROVE  DirectoryInv'
BY EndedKnows, EntryReadKeeps DEF StopEntryCall

(***************************************************************************)
(* Steps that write: what they leave to the calls, and to the rows.        *)
(***************************************************************************)

\* A write crosses the other calls; no row changes its kind, and none comes but that of r.
LEMMA WriteCrosses ==
    ASSUME DirectoryInv, NEW r \in EntryRequests, Cross(r),
           entryCall[r].phase \in {"loaded", "ready"},
           entry' \in [Ids -> Entry \cup {None}],
           \A x \in Ids : entry'[x] # None =>
               x = r \/ (entry[x] # None /\ entry'[x].kind = entry[x].kind)
    PROVE  entryCall' \in [EntryRequests -> EntryCall] /\ CallsKnow' /\ IdsFresh'
<1>1. /\ entryCall'[r] = EndedEntryCall("done")
      /\ \A q \in EntryRequests \ {r} :
            entryCall'[q] = [entryCall[q] EXCEPT
                                !.crossed = @ \/ entryCall[q].phase \in {"loaded", "ready"}]
    BY DEF Cross
<1>2. entryCall \in [EntryRequests -> EntryCall]
    BY DEF DirectoryInv, DirectoryTypeOK
<1>3. \A q \in EntryRequests \ {r} :
          /\ entryCall'[q] \in EntryCall
          /\ entryCall'[q].phase = entryCall[q].phase /\ entryCall'[q].sent = entryCall[q].sent
          /\ entryCall'[q].at = entryCall[q].at /\ entryCall'[q].old = entryCall[q].old
          /\ entryCall'[q].change = entryCall[q].change
          /\ entryCall[q].phase \in {"loaded", "ready"} => entryCall'[q].crossed
    <2>. TAKE q \in EntryRequests \ {r}
    <2>. DEFINE c == entryCall[q]
                b == c.crossed \/ c.phase \in {"loaded", "ready"}
    <2>1. c \in EntryCall /\ b \in BOOLEAN /\ (c.phase \in {"loaded", "ready"} => b)
        BY <1>2
    <2>2. entryCall'[q] = [c EXCEPT !.crossed = b]
        BY <1>1
    <2>. HIDE DEF c, b
    <2>3. /\ entryCall'[q] \in EntryCall /\ entryCall'[q].crossed = b
          /\ entryCall'[q].phase = c.phase /\ entryCall'[q].sent = c.sent
          /\ entryCall'[q].at = c.at /\ entryCall'[q].old = c.old
          /\ entryCall'[q].change = c.change
        BY <2>1, <2>2 DEF EntryCall
    <2>4. QED
        BY <2>1, <2>3 DEF c
<1>4. \A q \in EntryRequests : entryCall'[q] \in EntryCall
    BY <1>1, <1>3, EndedKnows
<1>5. entryCall' \in [EntryRequests -> EntryCall]
    BY <1>4 DEF Cross
<1>6. \A q \in EntryRequests : entryCall[q].at # r
    BY DEF DirectoryInv, IdsFresh
<1>7. CallsKnow'
    <2>. SUFFICES ASSUME NEW q \in EntryRequests
                  PROVE  CallKnows(entryCall[q])'
        BY DEF CallsKnow
    <2>1. CASE q = r
        BY <1>1, <2>1, EndedKnows DEF CallKnows, Underway, EndedEntryCall, IdleEntryCall
    <2>2. CASE q # r
        <3>1. CallKnows(entryCall[q])
            BY DEF DirectoryInv, CallsKnow
        <3>2. entryCall[q].at # None /\ entry'[entryCall[q].at] # None =>
                  /\ entry[entryCall[q].at] # None
                  /\ entry'[entryCall[q].at].kind = entry[entryCall[q].at].kind
            BY <1>2, <1>6, CallFields
        <3>3. QED
            BY <1>3, <2>2, <3>1, <3>2 DEF CallKnows, Underway
    <2>3. QED
        BY <2>1, <2>2
<1>8. IdsFresh'
    <2>. SUFFICES ASSUME NEW q \in EntryRequests,
                         entry'[q] # None \/ \E o \in EntryRequests : entryCall'[o].at = q
                  PROVE  entryCall'[q].phase = "done"
        BY DEF IdsFresh
    <2>1. CASE q = r
        BY <1>1, <2>1, EndedKnows
    <2>2. CASE q # r
        <3>1. q \in Ids /\ q # None
            BY NoRow DEF Ids
        <3>2. entry[q] # None \/ \E o \in EntryRequests : entryCall[o].at = q
            BY <1>1, <1>3, <2>2, <3>1, EndedKnows
        <3>3. entryCall[q].phase = "done"
            BY <3>2 DEF DirectoryInv, IdsFresh
        <3>4. QED
            BY <1>3, <2>2, <3>3
    <2>3. QED
        BY <2>1, <2>2
<1>9. QED
    BY <1>5, <1>7, <1>8

\* The write of one row, by a call that was crossed or that has checked the row.
LinksHold(r, x, row) ==
    entryCall[r].crossed \/
    \A f \in Fields \ {"company"} :
        \/ row.up[f] = None \/ row.up.company = None \/ InThe(row.up.company, row.up[f])
        \/ /\ x \in Entries /\ row.up[f] = entry[x].up[f]
           /\ row.up.company = entry[x].up.company \/ f \notin Rechecked(row.kind)

NameHolds(r, x, row) ==
    \/ entryCall[r].crossed
    \/ ~\E y \in Entries \ {x} : SameName(row, entry[y])
    \/ /\ x \in Entries /\ row.name = entry[x].name
       /\ \A f \in UniqueOver(row.kind) : row.up[f] = entry[x].up[f]

LEMMA WriteFields ==
    ASSUME DirectoryTypeOK, NEW r \in EntryRequests, NEW x \in Ids, NEW row \in Entry,
           EntryWrite(r, x, row)
    PROVE  /\ entry' \in [Ids -> Entry \cup {None}] /\ row # None
           /\ entry'[x] = row /\ \A y \in Ids \ {x} : entry'[y] = entry[y]
           /\ Entries' = Entries \cup {x}
           /\ strayed \subseteq strayed' /\ mixed \subseteq mixed' /\ orphaned' = orphaned
           /\ strayed' \subseteq Ids /\ mixed' \subseteq Ids
           /\ x \in Entries /\ entry[x].up.company # row.up.company => x \in strayed'
           /\ entryCall[r].crossed => x \in mixed'
<1>1. row # None
    BY DirectoryAssumption
<1>2. /\ entry' \in [Ids -> Entry \cup {None}] /\ entry'[x] = row
      /\ \A y \in Ids \ {x} : entry'[y] = entry[y]
    BY DEF EntryWrite, DirectoryTypeOK
<1>3. Entries' = Entries \cup {x}
    BY <1>1, <1>2 DEF Entries
<1>4. QED
    BY <1>1, <1>2, <1>3 DEF EntryWrite, DirectoryTypeOK

LEMMA WriteParents ==
    ASSUME DirectoryTypeOK, ParentsAgree, NEW r \in EntryRequests, NEW x \in Ids,
           NEW row \in Entry, EntryWrite(r, x, row), LinksHold(r, x, row),
           x \in Entries => row.kind = entry[x].kind
    PROVE  ParentsAgree'
<1>. SUFFICES ASSUME NEW y \in Entries', NEW f \in Fields \ {"company"}, NEW p, NEW company,
                     p = entry'[y].up[f], company = entry'[y].up.company
              PROVE  \/ p = None \/ company = None \/ InThe(company, p)'
                     \/ p \in strayed' \/ y \in mixed'
                     \/ y \in strayed' /\ f \notin Rechecked(entry'[y].kind)
    BY DEF ParentsAgree, InThe
<1>1. /\ entry'[x] = row /\ \A z \in Ids \ {x} : entry'[z] = entry[z]
      /\ Entries' = Entries \cup {x} /\ Entries \subseteq Ids
      /\ strayed \subseteq strayed' /\ mixed \subseteq mixed'
      /\ x \in Entries /\ entry[x].up.company # row.up.company => x \in strayed'
      /\ entryCall[r].crossed => x \in mixed'
    BY WriteFields DEF Entries
<1>2. ASSUME InThe(company, p)
      PROVE  InThe(company, p)' \/ p \in strayed'
    BY <1>1, <1>2 DEF InThe
<1>3. ASSUME NEW z \in Entries, p = entry[z].up[f], company = entry[z].up.company
      PROVE  \/ p = None \/ company = None \/ InThe(company, p)
             \/ p \in strayed \/ z \in mixed
             \/ z \in strayed /\ f \notin Rechecked(entry[z].kind)
    BY <1>3 DEF ParentsAgree
<1>4. CASE y # x
    <2>1. y \in Entries /\ entry'[y] = entry[y]
        BY <1>1, <1>4
    <2>2. QED
        BY <1>1, <1>2, <1>3, <2>1
<1>5. CASE y = x
    <2>1. entry'[y] = row
        BY <1>1, <1>5
    <2>2. CASE entryCall[r].crossed
        BY <1>1, <1>5, <2>2
    <2>3. CASE p = None \/ company = None \/ InThe(company, p)
        BY <1>2, <2>3
    <2>4. CASE /\ x \in Entries /\ p = entry[x].up[f]
               /\ company = entry[x].up.company \/ f \notin Rechecked(row.kind)
        <3>1. CASE company = entry[x].up.company
            BY <1>1, <1>2, <1>3, <1>5, <2>1, <2>4, <3>1
        <3>2. CASE company # entry[x].up.company
            BY <1>1, <1>5, <2>1, <2>4, <3>2
        <3>3. QED
            BY <3>1, <3>2
    <2>5. QED
        BY <2>1, <2>2, <2>3, <2>4 DEF LinksHold
<1>6. QED
    BY <1>4, <1>5

LEMMA SameNameSymmetric ==
    ASSUME NEW row, NEW other, SameName(row, other)
    PROVE  SameName(other, row)
BY DEF SameName

LEMMA WriteNames ==
    ASSUME DirectoryTypeOK, NamesTellApart, NEW r \in EntryRequests, NEW x \in Ids,
           NEW row \in Entry, EntryWrite(r, x, row), NameHolds(r, x, row),
           x \in Entries => row.kind = entry[x].kind
    PROVE  NamesTellApart'
<1>1. /\ entry'[x] = row /\ \A z \in Ids \ {x} : entry'[z] = entry[z]
      /\ Entries' = Entries \cup {x} /\ Entries \subseteq Ids
      /\ mixed \subseteq mixed' /\ orphaned' = orphaned
      /\ entryCall[r].crossed => x \in mixed'
    BY WriteFields DEF Entries
<1>2. ASSUME NEW y \in Entries \ {x}, SameName(row, entry[y])
      PROVE  /\ \E f \in UniqueOver(row.kind) : row.up[f] = None
             /\ {x, y} \cap (mixed' \cup orphaned') # {}
    <2>1. \E f \in UniqueOver(row.kind) : row.up[f] = None
        BY <1>2 DEF EntryWrite, Storable
    <2>2. CASE entryCall[r].crossed
        BY <1>1, <2>1, <2>2
    <2>3. CASE /\ x \in Entries /\ row.name = entry[x].name
               /\ \A f \in UniqueOver(row.kind) : row.up[f] = entry[x].up[f]
        <3>1. SameName(entry[x], entry[y])
            BY <1>2, <2>3 DEF SameName
        <3>2. {x, y} \cap (mixed \cup orphaned) # {}
            BY <2>3, <3>1 DEF NamesTellApart
        <3>3. QED
            BY <1>1, <2>1, <3>2
    <2>4. QED
        BY <1>2, <2>2, <2>3 DEF NameHolds
<1>3. SUFFICES ASSUME NEW y \in Entries', NEW z \in Entries', y # z,
                      SameName(entry'[y], entry'[z])
               PROVE  /\ \E f \in UniqueOver(entry'[y].kind) : entry'[y].up[f] = None
                      /\ {y, z} \cap (mixed' \cup orphaned') # {}
    BY DEF NamesTellApart, SameName
<1>4. CASE y = x
    BY <1>1, <1>2, <1>3, <1>4
<1>5. CASE z = x
    <2>1. SameName(row, entry[y]) /\ y \in Entries \ {x} /\ entry'[y] = entry[y]
        BY <1>1, <1>3, <1>5, SameNameSymmetric
    <2>2. \A f \in UniqueOver(row.kind) : row.up[f] = entry[y].up[f]
        BY <2>1 DEF SameName
    <2>3. row.kind = entry[y].kind
        BY <2>1 DEF SameName
    <2>4. QED
        BY <1>2, <1>5, <2>1, <2>2, <2>3
<1>6. CASE y # x /\ z # x
    <2>1. y \in Entries /\ z \in Entries /\ entry'[y] = entry[y] /\ entry'[z] = entry[z]
        BY <1>1, <1>6
    <2>2. QED
        BY <1>1, <1>3, <2>1 DEF NamesTellApart
<1>7. QED
    BY <1>4, <1>5, <1>6

\* So the write of one row keeps the invariant.
LEMMA WriteKeeps ==
    ASSUME DirectoryInv, NEW r \in EntryRequests, NEW x \in Ids, NEW row \in Entry,
           EntryWrite(r, x, row), Cross(r), entryCall[r].phase \in {"loaded", "ready"},
           x = r \/ x \in Entries, x \in Entries => row.kind = entry[x].kind,
           LinksHold(r, x, row), NameHolds(r, x, row),
           \A f \in Fields \ Columns(row.kind) : row.up[f] = None
    PROVE  DirectoryInv'
<1>1. /\ entry' \in [Ids -> Entry \cup {None}] /\ entry'[x] = row
      /\ \A y \in Ids \ {x} : entry'[y] = entry[y]
      /\ Entries' = Entries \cup {x} /\ orphaned' = orphaned
      /\ strayed' \subseteq Ids /\ mixed' \subseteq Ids
    BY WriteFields DEF DirectoryInv
<1>2. \A y \in Ids : entry'[y] # None =>
          y = r \/ (entry[y] # None /\ entry'[y].kind = entry[y].kind)
    BY <1>1 DEF Entries
<1>3. entryCall' \in [EntryRequests -> EntryCall] /\ CallsKnow' /\ IdsFresh'
    BY <1>1, <1>2, WriteCrosses
<1>4. DirectoryTypeOK'
    BY <1>1, <1>3 DEF DirectoryInv, DirectoryTypeOK
<1>5. ParentsAgree' /\ NamesTellApart'
    BY WriteParents, WriteNames DEF DirectoryInv
<1>6. ColumnsOnly'
    <2>1. \A y \in Entries' : y = x \/ (y \in Entries /\ entry'[y] = entry[y])
        BY <1>1 DEF Entries
    <2>2. QED
        BY <1>1, <2>1 DEF DirectoryInv, ColumnsOnly
<1>7. QED
    BY <1>3, <1>4, <1>5, <1>6 DEF DirectoryInv

(***************************************************************************)
(* The writes.                                                             *)
(***************************************************************************)
LEMMA InsertKeeps ==
    ASSUME DirectoryInv, NEW r \in EntryRequests, InsertEntry(r)
    PROVE  DirectoryInv'
<1>. DEFINE c == entryCall[r]
            row == RowToBe(c)
<1>1. /\ c.phase = "ready" /\ c.sent.op = "create" /\ Base(c) = NewEntry(c.sent)
      /\ EntryWrite(r, r, row) /\ Cross(r)
    BY DEF InsertEntry, RowToBe, Base
<1>2. c \in EntryCall /\ CallKnows(c) /\ c.change \in Change
    BY CallFields DEF DirectoryInv, DirectoryTypeOK, CallsKnow
<1>3. /\ c.sent \in EntryInputs /\ c.at = None
      /\ \A f \in Fields \ Columns(c.sent.kind) : c.change[f] \in {None, Absent}
      /\ c.crossed \/ (LinksChecked(c) /\ NameChecked(c))
    BY <1>1, <1>2 DEF CallKnows, Underway
<1>4. /\ Base(c) \in Entry /\ Base(c).kind = c.sent.kind
      /\ \A f \in Fields : Base(c).up[f] = None
    BY <1>1, <1>3, NewRow
<1>5. row \in Entry /\ row.kind = c.sent.kind
    BY <1>2, <1>3, <1>4, ChangedRow DEF RowToBe
<1>6. \A f \in Fields \ Columns(row.kind) : row.up[f] = None
    BY <1>2, <1>3, <1>4, <1>5, ChangedColumns DEF RowToBe
<1>7. r \in Ids /\ r \notin Entries /\ None \notin Entries
    BY <1>1, NoRow DEF Ids, Entries, DirectoryInv, IdsFresh
<1>8. LinksHold(r, r, row)
    BY <1>3, <1>4 DEF LinksHold, LinksChecked
<1>9. NameHolds(r, r, row)
    BY <1>1, <1>3, <1>7 DEF NameHolds, NameChecked
<1>. HIDE DEF row
<1>10. QED
    BY <1>1, <1>5, <1>6, <1>7, <1>8, <1>9, WriteKeeps

LEMMA UpdateKeeps ==
    ASSUME DirectoryInv, NEW r \in EntryRequests, UpdateEntry(r)
    PROVE  DirectoryInv'
<1>. DEFINE c == entryCall[r]
            x == c.at
            row == Changed(entry[x], c.sent, c.change)
<1>1. /\ c.phase = "ready" /\ c.sent.op = "update" /\ x \in Entries
      /\ EntryWrite(r, x, row) /\ Cross(r)
    BY DEF UpdateEntry
<1>2. c \in EntryCall /\ CallKnows(c) /\ c.change \in Change
    BY CallFields DEF DirectoryInv, DirectoryTypeOK, CallsKnow
<1>3. x \in Ids /\ x # None /\ entry[x] \in Entry /\ entry[x] # None
    BY <1>1, NoRow DEF Entries, DirectoryInv, DirectoryTypeOK
<1>4. /\ c.sent \in EntryInputs /\ entry[x].kind = c.sent.kind
      /\ \A f \in Fields \ Columns(c.sent.kind) : c.change[f] \in {None, Absent}
      /\ c.crossed \/ (LinksChecked(c) /\ NameChecked(c))
      /\ c.crossed \/ entry[x] = c.old
    BY <1>1, <1>2, <1>3 DEF CallKnows, Underway
<1>5. row \in Entry /\ row.kind = c.sent.kind
    BY <1>2, <1>3, <1>4, ChangedRow
<1>6. \A f \in Fields \ Columns(row.kind) : row.up[f] = None
    <2>1. \A f \in Fields \ Columns(entry[x].kind) : entry[x].up[f] = None
        BY <1>1 DEF DirectoryInv, ColumnsOnly
    <2>2. QED
        BY <1>2, <1>3, <1>4, <1>5, <2>1, ChangedColumns
<1>7. c.crossed \/ (Base(c) = entry[x] /\ RowToBe(c) = row)
    BY <1>1, <1>4 DEF Base, RowToBe
<1>8. LinksHold(r, x, row)
    BY <1>1, <1>4, <1>5, <1>7 DEF LinksHold, LinksChecked
<1>9. NameHolds(r, x, row)
    BY <1>1, <1>4, <1>5, <1>7 DEF NameHolds, NameChecked
<1>. HIDE DEF row
<1>10. QED
    BY <1>1, <1>3, <1>4, <1>5, <1>6, <1>8, <1>9, WriteKeeps

LEMMA ToggleKeeps ==
    ASSUME DirectoryInv, NEW r \in EntryRequests, ToggleEntry(r)
    PROVE  DirectoryInv'
<1>. DEFINE c == entryCall[r]
            x == c.at
            active == Otherwise(c.sent.active, ~c.old.active)
            row == [entry[x] EXCEPT !.active = active]
<1>1. /\ c.phase = "loaded" /\ x \in Entries /\ EntryWrite(r, x, row) /\ Cross(r)
    BY DEF ToggleEntry
<1>2. CallKnows(c)
    BY DEF DirectoryInv, CallsKnow
<1>3. x \in Ids /\ entry[x] \in Entry
    BY <1>1 DEF Entries, DirectoryInv, DirectoryTypeOK
<1>4. active \in BOOLEAN
    <2>1. c.sent \in EntryInputs
        BY <1>1, <1>2 DEF CallKnows, Underway
    <2>2. c.sent.active \in BOOLEAN \cup {Absent}
        BY <2>1, InputFields
    <2>3. QED
        BY <2>2 DEF Otherwise
<1>5. /\ row \in Entry /\ row.kind = entry[x].kind /\ row.up = entry[x].up
      /\ row.name = entry[x].name
    <2>. HIDE DEF active
    <2>1. QED
        BY <1>3, <1>4 DEF Entry
<1>6. \A f \in Fields \ Columns(row.kind) : row.up[f] = None
    BY <1>1, <1>5 DEF DirectoryInv, ColumnsOnly
<1>7. LinksHold(r, x, row) /\ NameHolds(r, x, row)
    BY <1>1, <1>5 DEF LinksHold, NameHolds
<1>. HIDE DEF row
<1>8. QED
    BY <1>1, <1>3, <1>5, <1>6, <1>7, WriteKeeps

\* A row that stays when others go keeps its kind and its name, and each link or none.
LEMMA SeveredRow ==
    ASSUME NEW row \in Entry, NEW gone
    PROVE  LET cut == Severed(row, gone)
           IN  /\ cut \in Entry /\ cut # None /\ cut.kind = row.kind /\ cut.name = row.name
               /\ \A f \in Fields : cut.up[f] = IF row.up[f] \in gone THEN None ELSE row.up[f]
               /\ cut.up.company = IF row.up.company \in gone THEN None ELSE row.up.company
<1>. DEFINE up == [f \in Fields |-> IF row.up[f] \in gone THEN None ELSE row.up[f]]
<1>1. /\ up \in Links
      /\ \A f \in Fields : up[f] = IF row.up[f] \in gone THEN None ELSE row.up[f]
    BY DEF Entry, Links
<1>2. Severed(row, gone) = [row EXCEPT !.up = up]
    BY DEF Severed, Entry
<1>. HIDE DEF up
<1>3. /\ Severed(row, gone) \in Entry /\ Severed(row, gone).up = up
      /\ Severed(row, gone).kind = row.kind /\ Severed(row, gone).name = row.name
    BY <1>1, <1>2 DEF Entry
<1>4. Severed(row, gone) # None
    BY <1>3, DirectoryAssumption
<1>5. "company" \in Fields
    BY DEF Fields
<1>6. QED
    BY <1>1, <1>3, <1>4, <1>5

LEMMA DeleteKeeps ==
    ASSUME DirectoryInv, NEW r \in EntryRequests, DeleteEntry(r)
    PROVE  DirectoryInv'
<1>. DEFINE gone == Doomed(entryCall[r].at)
            left == Entries \ gone
            lost == {x \in left : \E f \in Fields : entry[x].up[f] \in gone}
<1>1. /\ entryCall[r].phase = "loaded" /\ Cross(r)
      /\ entry' = [x \in Ids |-> IF x \in left THEN Severed(entry[x], gone) ELSE None]
      /\ orphaned' = orphaned \cup lost /\ strayed' = strayed /\ mixed' = mixed
    BY DEF DeleteEntry
<1>2. entryCall[r].at \in Entries
    BY DEF DeleteEntry
<1>3. None \notin gone
    BY <1>2, NoRow DEF Doomed, Below, Entries
<1>4. left \subseteq Entries /\ left \subseteq Ids /\ lost \subseteq left
      /\ (\A x \in Entries : x \in gone \/ x \in left)
      /\ (\A x \in left : x \in lost \/ \A f \in Fields : entry[x].up[f] \notin gone)
    BY DEF Entries
<1>5. \A x \in Entries : entry[x] \in Entry
    BY DEF Entries, DirectoryInv, DirectoryTypeOK
<1>. HIDE DEF gone, left, lost
<1>6. /\ \A x \in left : entry'[x] = Severed(entry[x], gone)
      /\ \A x \in Ids \ left : entry'[x] = None
    BY <1>1, <1>4
<1>7. \A x \in left : /\ entry'[x] \in Entry /\ entry'[x] # None
                      /\ entry'[x].kind = entry[x].kind /\ entry'[x].name = entry[x].name
                      /\ \A f \in Fields : entry'[x].up[f] = IF entry[x].up[f] \in gone THEN None
                                                             ELSE entry[x].up[f]
                      /\ entry'[x].up.company = IF entry[x].up.company \in gone THEN None
                                                ELSE entry[x].up.company
    BY <1>4, <1>5, <1>6, SeveredRow
<1>8. Entries' = left
    BY <1>4, <1>6, <1>7 DEF Entries
<1>9. entry' \in [Ids -> Entry \cup {None}]
    <2>1. \A x \in Ids : entry'[x] \in Entry \cup {None}
        BY <1>6, <1>7
    <2>2. QED
        BY <1>1, <2>1
<1>10. entryCall' \in [EntryRequests -> EntryCall] /\ CallsKnow' /\ IdsFresh'
    <2>1. \A x \in Ids : entry'[x] # None =>
              x = r \/ (entry[x] # None /\ entry'[x].kind = entry[x].kind)
        BY <1>4, <1>6, <1>7 DEF Entries
    <2>2. QED
        BY <1>1, <1>9, <2>1, WriteCrosses
<1>11. DirectoryTypeOK'
    BY <1>1, <1>4, <1>9, <1>10 DEF DirectoryInv, DirectoryTypeOK
<1>12. ColumnsOnly'
    BY <1>4, <1>7, <1>8 DEF DirectoryInv, ColumnsOnly
<1>13. ParentsAgree'
    <2>. SUFFICES ASSUME NEW x \in left, NEW f \in Fields \ {"company"}, NEW p, NEW company,
                         p = entry'[x].up[f], company = entry'[x].up.company,
                         p # None, company # None
                  PROVE  \/ InThe(company, p)' \/ p \in strayed \/ x \in mixed
                         \/ x \in strayed /\ f \notin Rechecked(entry'[x].kind)
        BY <1>1, <1>8 DEF ParentsAgree, InThe
    <2>1. /\ p = entry[x].up[f] /\ p \notin gone
          /\ company = entry[x].up.company /\ company \notin gone
          /\ entry'[x].kind = entry[x].kind
        BY <1>7
    <2>2. \/ InThe(company, p) \/ p \in strayed \/ x \in mixed
          \/ x \in strayed /\ f \notin Rechecked(entry[x].kind)
        BY <1>4, <2>1 DEF DirectoryInv, ParentsAgree
    <2>3. InThe(company, p) => InThe(company, p)'
        BY <1>4, <1>7, <1>8, <2>1 DEF InThe
    <2>4. QED
        BY <2>1, <2>2, <2>3
<1>14. NamesTellApart'
    <2>. SUFFICES ASSUME NEW x \in left, NEW y \in left, x # y,
                         SameName(entry'[x], entry'[y])
                  PROVE  /\ \E f \in UniqueOver(entry'[x].kind) : entry'[x].up[f] = None
                         /\ {x, y} \cap (mixed \cup orphaned \cup lost) # {}
        BY <1>1, <1>8 DEF NamesTellApart, SameName
    <2>1. /\ entry[x].kind = entry'[x].kind /\ entry[y].kind = entry[x].kind
          /\ entry[x].kind \in Named /\ entry[x].name = entry[y].name
          /\ \A f \in UniqueOver(entry[x].kind) : entry'[x].up[f] = entry'[y].up[f]
          /\ UniqueOver(entry[x].kind) \subseteq Fields
        BY <1>7 DEF SameName, UniqueOver, Fields
    <2>2. CASE SameName(entry[x], entry[y])
        <3>1. /\ \E f \in UniqueOver(entry[x].kind) : entry[x].up[f] = None
              /\ {x, y} \cap (mixed \cup orphaned) # {}
            BY <1>4, <2>2 DEF DirectoryInv, NamesTellApart
        <3>2. QED
            BY <1>3, <1>7, <2>1, <3>1
    <2>3. CASE ~SameName(entry[x], entry[y])
        <3>1. PICK f \in UniqueOver(entry[x].kind) : entry[x].up[f] # entry[y].up[f]
            BY <2>1, <2>3 DEF SameName
        <3>2. entry[x].up[f] \in gone \/ entry[y].up[f] \in gone
            BY <1>7, <2>1, <3>1
        <3>3. entry'[x].up[f] = None /\ (x \in lost \/ y \in lost)
            BY <1>4, <1>7, <2>1, <3>2
        <3>4. QED
            BY <2>1, <3>3
    <2>4. QED
        BY <2>2, <2>3
<1>15. QED
    BY <1>10, <1>11, <1>12, <1>13, <1>14 DEF DirectoryInv

(***************************************************************************)
(* The theorems.                                                           *)
(***************************************************************************)
LEMMA InitDirectory == DirectoryInit => DirectoryInv
<1>. SUFFICES ASSUME DirectoryInit
              PROVE  DirectoryInv
    OBVIOUS
<1>1. /\ SeedEntries \cup EntryRequests = Ids /\ SeedEntries \cap EntryRequests = {}
      /\ SeedEntry \in [SeedEntries -> Entry]
      /\ \A x \in SeedEntries : SeedEntry[x] # None
    BY DirectoryAssumption DEF Ids
<1>2. \A r \in EntryRequests : entryCall[r] = IdleEntryCall
    BY DEF DirectoryInit
<1>3. IdleEntryCall \in EntryCall /\ CallKnows(IdleEntryCall) /\ IdleEntryCall.at = None
    BY DEF IdleEntryCall, EntryCall, EntryPhases, Unsent, CallKnows, Underway
<1>4. Entries = SeedEntries /\ \A x \in SeedEntries : entry[x] = SeedEntry[x]
    BY <1>1 DEF DirectoryInit, Entries
<1>5. DirectoryTypeOK
    BY <1>1, <1>2, <1>3 DEF DirectoryInit, DirectoryTypeOK
<1>6. CallsKnow
    BY <1>2, <1>3 DEF CallsKnow
<1>7. IdsFresh
    BY <1>1, <1>2, <1>3, NoRow DEF IdsFresh, DirectoryInit
<1>8. ColumnsOnly
    BY <1>4, DirectoryAssumption DEF ColumnsOnly
<1>9. QED
    BY <1>5, <1>6, <1>7, <1>8 DEF DirectoryInit, DirectoryInv

LEMMA NextDirectory ==
    ASSUME DirectoryInv, [DirectoryNext]_directoryVars
    PROVE  DirectoryInv'
<1>1. CASE DirectoryNext
    BY <1>1, StartKeeps, LoadKeeps, CheckKeeps, InsertKeeps, UpdateKeeps, ToggleKeeps,
       DeleteKeeps, StopKeeps DEF DirectoryNext
<1>2. CASE UNCHANGED directoryVars
    <2>1. /\ entry' = entry /\ entryCall' = entryCall /\ strayed' = strayed
          /\ mixed' = mixed /\ orphaned' = orphaned
        BY <1>2 DEF directoryVars
    <2>2. Entries' = Entries /\ \A c, x : InThe(c, x)' <=> InThe(c, x)
        BY <2>1 DEF Entries, InThe
    <2>3. DirectoryTypeOK' /\ IdsFresh' /\ ColumnsOnly'
        BY <2>1, <2>2 DEF DirectoryInv, DirectoryTypeOK, IdsFresh, ColumnsOnly
    <2>4. ParentsAgree' /\ NamesTellApart'
        BY <2>1, <2>2 DEF DirectoryInv, ParentsAgree, NamesTellApart
    <2>5. CallsKnow'
        <3>1. \A c : /\ LinksChecked(c)' <=> LinksChecked(c)
                     /\ NameChecked(c)' <=> NameChecked(c)
            BY <2>1, <2>2 DEF LinksChecked, NameChecked, RowToBe, Base
        <3>2. \A c : CallKnows(c)' <=> CallKnows(c)
            BY <2>1, <2>2, <3>1 DEF CallKnows
        <3>3. QED
            BY <2>1, <3>2 DEF DirectoryInv, CallsKnow
    <2>6. QED
        BY <2>3, <2>4, <2>5 DEF DirectoryInv
<1>3. QED
    BY <1>1, <1>2

LEMMA DirectoryInvariant == DirectorySpec => []DirectoryInv
BY InitDirectory, NextDirectory, PTL DEF DirectorySpec

\* Rows, history and calls have their types.
THEOREM DirectoryTypeCorrect == DirectorySpec => []DirectoryTypeOK
<1>1. DirectoryInv => DirectoryTypeOK
    BY DEF DirectoryInv
<1>2. QED
    BY <1>1, DirectoryInvariant, PTL

\* What a row of a company belongs to is of that company, however calls that create, move
\* and delete rows overlap, but for the rows that have moved or were written by a call
\* that was crossed: the checks in create and update of every service suffice.
THEOREM ParentsCorrect == DirectorySpec => []ParentsAgree
<1>1. DirectoryInv => ParentsAgree
    BY DEF DirectoryInv
<1>2. QED
    BY <1>1, DirectoryInvariant, PTL

\* A name tells rows apart: look-up and unique index together let it repeat only where a
\* row belongs to no branch or no department, after calls that overlapped or among rows
\* that have lost what they belonged to.
THEOREM NamesCorrect == DirectorySpec => []NamesTellApart
<1>1. DirectoryInv => NamesTellApart
    BY DEF DirectoryInv
<1>2. QED
    BY <1>1, DirectoryInvariant, PTL

\* Whatever findAll lists to an actor, findOne lets the actor open, in every service.
THEOREM ListedCorrect == DirectorySpec => []ListedIsOpen
<1>1. DirectoryInv => ListedIsOpen
    BY OpenIfListed DEF DirectoryInv
<1>2. QED
    BY <1>1, DirectoryInvariant, PTL

(***************************************************************************)
(* The four parts together.                                                *)
(***************************************************************************)

\* A directory without rows is as sound as one that starts with some.
LEMMA EmptyDirectory == NoEntries => DirectoryInv
<1>. SUFFICES ASSUME NoEntries PROVE DirectoryInv
    OBVIOUS
<1>1. IdleEntryCall \in EntryCall /\ CallKnows(IdleEntryCall) /\ IdleEntryCall.at = None
    BY DEF IdleEntryCall, EntryCall, EntryPhases, Unsent, CallKnows, Underway
<1>2. \A r \in EntryRequests : r \in Ids /\ entryCall[r] = IdleEntryCall
    BY DEF NoEntries, Ids
<1>3. Entries = {}
    BY DEF NoEntries, Entries
<1>4. DirectoryTypeOK
    BY <1>1, <1>2 DEF NoEntries, DirectoryTypeOK
<1>5. CallsKnow
    BY <1>1, <1>2 DEF CallsKnow
<1>6. IdsFresh
    <2>1. \A r \in EntryRequests : entry[r] = None /\ r # None
        BY <1>2, NoRow DEF NoEntries
    <2>2. QED
        BY <1>1, <1>2, <2>1 DEF IdsFresh
<1>7. ColumnsOnly /\ ParentsAgree /\ NamesTellApart
    BY <1>3 DEF ColumnsOnly, ParentsAgree, NamesTellApart
<1>8. QED
    BY <1>4, <1>5, <1>6, <1>7 DEF DirectoryInv

PartsInv == /\ RowsInv /\ AnswersInv /\ NewsInv
            /\ SessionInv
            /\ DirectoryInv
            /\ TaskInv /\ ToldInv

LEMMA InitParts == PeopleInit => PartsInv
<1>. SUFFICES ASSUME PeopleInit PROVE PartsInv
    OBVIOUS
<1>1. LeaveInit /\ SessionInit /\ TasksInit /\ (DirectoryInit \/ NoEntries)
    BY DEF PeopleInit
<1>2. QED
    BY <1>1, InitRows, InitAnswers, InitNews, SessionInitInv, InitDirectory, EmptyDirectory,
       TaskInitInv, InitTold DEF PartsInv

\* Each step is one of one part, and leaves the others alone.
LEMMA NextPeople ==
    [PeopleNext]_peopleVars => /\ [LeaveNext]_leaveVars /\ [SessionNext]_sessionVars
                               /\ [DirectoryNext]_directoryVars /\ [TasksNext]_taskVars
BY DEF PeopleNext, peopleVars

LEMMA NextParts == PartsInv /\ [PeopleNext]_peopleVars => PartsInv'
<1>. SUFFICES ASSUME PartsInv, [PeopleNext]_peopleVars PROVE PartsInv'
    OBVIOUS
<1>1. /\ [LeaveNext]_leaveVars /\ [SessionNext]_sessionVars
      /\ [DirectoryNext]_directoryVars /\ [TasksNext]_taskVars
    BY NextPeople
<1>2. RowsInv' /\ AnswersInv' /\ NewsInv'
    BY <1>1, NextRows, NextAnswers, NextNews DEF PartsInv
<1>3. SessionInv'
    BY <1>1, StepInv DEF PartsInv
<1>4. DirectoryInv'
    BY <1>1, NextDirectory DEF PartsInv
<1>5. TaskInv' /\ ToldInv'
    BY <1>1, NextInv, NextTold DEF PartsInv
<1>6. QED
    BY <1>2, <1>3, <1>4, <1>5 DEF PartsInv

LEMMA PartsInvariant == PeopleSpec => []PartsInv
BY InitParts, NextParts, PTL DEF PeopleSpec

\* The specification the model checker runs, for any people, rows, devices and tasks and
\* whatever is sent: leaves, sessions, directory and tasks stay well typed, whichever is at
\* work.
THEOREM PeopleTypeCorrect == PeopleSpec => []PeopleTypeOK
<1>1. PartsInv => PeopleTypeOK
    BY DEF PartsInv, RowsInv, SessionInv, DirectoryInv, TaskInv, PeopleTypeOK
<1>2. QED
    BY <1>1, PartsInvariant, PTL
\* All that the run of this specification checks of leaves, sessions, directory and tasks, for
\* any number of calls of each.
THEOREM PeopleCorrect ==
    PeopleSpec => [](/\ RangesSound /\ LeavesInCompany /\ AnsweredOnce /\ AnswerReachesEmployee
                     /\ BarredGetNoToken /\ EndedGivesNoToken /\ SilentAfterLogout
                     /\ ParentsAgree /\ NamesTellApart /\ ListedIsOpen
                     /\ DatesOrdered /\ AssigneesTold)
<1>1. PeopleSpec => LeaveSpec /\ SessionSpec /\ TasksSpec
    <2>1. PeopleInit => LeaveInit /\ SessionInit /\ TasksInit
        BY DEF PeopleInit
    <2>2. QED
        BY <2>1, NextPeople, PTL DEF PeopleSpec, LeaveSpec, SessionSpec, TasksSpec
<1>2. PartsInv => ParentsAgree /\ NamesTellApart /\ ListedIsOpen
    BY OpenIfListed DEF PartsInv, DirectoryInv
<1>3. QED
    BY <1>1, <1>2, PartsInvariant, RangesCorrect, InCompanyCorrect, AnsweredOnceCorrect,
       ReachesEmployeeCorrect, BarredCorrect, EndedCorrect, SilentCorrect, DatesCorrect,
       AssigneesCorrect, PTL
=============================================================================
