CONSTANTS
    None = None
    Absent = Absent
    Given = Given
    c1 = c1
    c2 = c2
    b1 = b1
    b2 = b2
    u1 = u1
    u2 = u2
    boss = boss
    s1 = s1
    d1 = d1
    d2 = d2
    d3 = d3
    p1 = p1
    t1 = t1
    h1 = h1
    k1 = k1
    a1 = a1
    l1 = l1
    o1 = o1
    w1 = w1
    v1 = v1
    g1 = g1
    q1 = q1
    n1 = n1
    n2 = n2
    j1 = j1
    i1 = i1
    Companies = {c1, c2}
    Branches = {b1, b2}
    Users = {u1, u2, boss}
    Employees = {u1, u2}
    SeedCompanyOf <- MCSeedCompanyOf
    MovingBranches = {b1}
    LastDay = 2
    StaffRows <- MCStaffRows
    SeedLeaves = {s1}
    SeedRows <- MCSeedRows
    LeaveRequests = {r1, r2}
    LeaveInputs <- MCLeaveInputs
    People = {u1, u2}
    Devices = {t1}
    SeedSessions = {s1}
    AuthCalls = {r1, r2}
    AuthKinds = {"login", "refresh", "logout", "setActive", "setBlocked", "deleteUser",
                 "addSession", "editSession", "endSession",
                 "addDevice", "moveDevice", "dropDevice", "push"}
    Names = {n1, n2}
    SeedEntries = {c1, c2, b1, b2, d1, d2, d3, p1, u1, u2, t1, h1, k1, a1, l1, o1, w1, v1, g1, i1, q1, s1}
    SeedEntry <- MCSeedEntry
    EntryRequests = {r1, r2}
    EntryInputs <- MCEntryInputs
    Viewers <- MCViewers
    LastDate = 2
    Titles = {n1, n2}
    SeedProjects = {j1}
    SeedProject <- MCSeedProject
    SeedTasks = {i1}
    SeedTask <- MCSeedTask
    TaskRequests = {r1, r2}
    TaskInputs <- MCTaskInputs
SPECIFICATION PeopleSpec
INVARIANTS PeopleTypeOK RangesSound LeavesInCompany AnsweredOnce AnswerReachesEmployee
INVARIANTS BarredGetNoToken EndedGivesNoToken SilentAfterLogout
INVARIANTS ListedIsOpen ParentsAgree NamesTellApart DatesOrdered AssigneesTold
SYMMETRY Interchangeable
CHECK_DEADLOCK FALSE
