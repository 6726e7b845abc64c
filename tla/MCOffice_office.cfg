CONSTANTS
    None = None
    Absent = Absent
    Given = Given
    Nothing = Nothing
    c1 = c1
    b1 = b1
    e1 = e1
    boss = boss
    s1 = s1
    users = users
    leaves = leaves
    Companies = {c1}
    Branches = {b1}
    Users = {e1, boss}
    Employees = {e1}
    SeedCompanyOf <- MCSeedCompanyOf
    MovingBranches = {}
    LastDay = 1
    StaffRows <- MCStaffRows
    SeedLeaves = {s1}
    SeedRows <- MCSeedRows
    LeaveRequests = {q1}
    LeaveInputs <- MCLeaveInputs
    Today = 1
    Scheduled = {e1}
    Passes = {p1, p2}
    MaxFailures = 1
    MaxEdits = 1
    Resources = {users, leaves}
    Readers = {i1, i2}
    ReadsOf <- MCReadsOf
    WritesOf <- MCWritesOf
    MaxVersion <- MCMaxVersion
    WebRequests = {w1, w2}
SPECIFICATION Spec
INVARIANTS OfficeTypeOK NoticesBounded NoticesJustified StaleOnlyIfOutrun
PROPERTIES RemindersArrive EventuallyFresh
CHECK_DEADLOCK FALSE
