------------------------------- MODULE MCPeople -------------------------------
(***************************************************************************)
(* The records the office keeps about people: leaves, sessions, the        *)
(* directory and tasks.  Their services share no rows but those of users,  *)
(* which each part keeps what it needs of, so each behaviour is one of one *)
(* part, and the others have nothing and rest.  The parts give their calls *)
(* the same names, which are interchangeable.                              *)
(***************************************************************************)
EXTENDS EmployeeLeave, Sessions, Directory, Tasks, TLC

CONSTANTS c1, c2, b1, b2, u1, u2, boss, s1,
          d1, d2, d3, p1, t1, h1, k1, a1, l1, o1, w1, v1, g1, q1, n1, n2, j1, i1

Boss == [sub |-> boss, role |-> "superadmin", company |-> None, branch |-> None]
Admin == [sub |-> boss, role |-> "admin", company |-> c1, branch |-> None]
Head == [sub |-> boss, role |-> "manager", company |-> c1, branch |-> b1]
Self(u) == [sub |-> u, role |-> "employee", company |-> c1, branch |-> b1]

(***************************************************************************)
(* Leaves                                                                  *)
(***************************************************************************)
MCSeedCompanyOf == [b \in Branches |-> c1]

MCStaffRows ==
    {[company |-> c1, branch |-> b1, enabled |-> TRUE],
     [company |-> c1, branch |-> b2, enabled |-> TRUE],
     [company |-> c1, branch |-> None, enabled |-> FALSE],
     [company |-> c2, branch |-> None, enabled |-> TRUE]}

MCSeedRows ==
    LET row == [company |-> c1, branch |-> b1, employee |-> u1, from |-> 1, to |-> 2, days |-> 2,
                duration |-> "multi_day", status |-> "pending"]
    IN {row, [row EXCEPT !.to = 1, !.days = 0, !.duration = "hourly"],
        [row EXCEPT !.branch = None, !.status = "approved", !.days = Given, !.duration = "daily"]}

Blank(kind, actor) ==
    [kind |-> kind, actor |-> actor, employee |-> Absent, company |-> Absent,
     branch |-> Absent, from |-> Absent, to |-> Absent, days |-> Absent, duration |-> "daily"]

MCLeaveInputs ==
    {Blank("approve", Boss), Blank("reject", Head), Blank("delete", Admin),
     [Blank("grant", Boss) EXCEPT !.company = c1, !.employee = u1, !.from = 1, !.to = 2],
     [Blank("grantAll", Admin) EXCEPT !.branch = b1, !.from = 2, !.to = 2, !.days = Given],
     [Blank("grantAll", Admin) EXCEPT !.from = 1, !.to = 2],
     [Blank("request", Self(u1)) EXCEPT !.from = 1, !.duration = "hourly"],
     [Blank("request", Self(u2)) EXCEPT !.from = 1, !.to = 2, !.duration = "multi_day"],
     [Blank("edit", Boss) EXCEPT !.company = c2],
     [Blank("edit", Boss) EXCEPT !.company = c2, !.employee = u2, !.branch = None],
     [Blank("edit", Admin) EXCEPT !.employee = u2],
     [Blank("edit", Admin) EXCEPT !.from = 2],
     [Blank("edit", Admin) EXCEPT !.to = 1, !.branch = b1]}

(***************************************************************************)
(* The directory: a company with everything, and another one.              *)
(***************************************************************************)
Row(kind, links, name) == [kind |-> kind, up |-> links @@ NoLink, name |-> name, active |-> TRUE]

In1 == "company" :> c1
In2 == "company" :> c2

MCSeedEntry ==
    [x \in SeedEntries |->
        CASE x = c1 -> Row("company", <<>>, n1)
          [] x = c2 -> Row("company", <<>>, n2)
          [] x = b1 -> Row("branch", In1, n1)
          [] x = b2 -> Row("branch", In2, n1)
          [] x = d1 -> Row("department", In1 @@ ("branch" :> b1), n1)
          [] x = d2 -> Row("department", In1, n2)
          [] x = d3 -> Row("department", In2, n2)
          [] x = p1 -> Row("position", In1 @@ ("department" :> d1), n1)
          [] x = u1 -> Row("user", In1 @@ ("branch" :> b1) @@ ("department" :> d1), n1)
          [] x = u2 -> Row("user", In2, n2)
          [] x = t1 -> Row("terminal", In1 @@ ("branch" :> b1), n1)
          [] x = h1 -> Row("holiday", In1 @@ ("branch" :> b1), n1)
          [] x = k1 -> Row("setting", In1, n1)
          [] x = a1 -> Row("advance", In1 @@ ("employee" :> u1), None)
          [] x = l1 -> Row("rawLog", In1 @@ ("terminal" :> t1) @@ ("employee" :> u1)
                                         @@ ("attendance" :> w1), None)
          [] x = o1 -> Row("notification", "employee" :> u1, None)
          [] x = w1 -> Row("attendance", In1 @@ ("branch" :> b1) @@ ("employee" :> u1), None)
          [] x = v1 -> Row("leave", In1 @@ ("branch" :> b1) @@ ("employee" :> u1), None)
          [] x = g1 -> Row("payroll", In1 @@ ("employee" :> u1), None)
          [] x = i1 -> Row("task", In1, None)
          [] x = q1 -> Row("pushToken", "employee" :> u1, None)
          [] x = s1 -> Row("refreshToken", "employee" :> u2, None)]

MCViewers == {Boss, [Boss EXCEPT !.company = c1], Admin, Head, [Head EXCEPT !.branch = None],
              [Head EXCEPT !.company = c2, !.branch = b2], Self(u1)}

Sends(op, kind, actor, links, name) ==
    [op |-> op, kind |-> kind, actor |-> actor, up |-> links @@ Unsent, name |-> name,
     active |-> Absent]

MCEntryInputs ==
    {Sends("update", kind, Boss, In2, Absent) :
        kind \in {"branch", "department", "position", "user", "terminal", "holiday", "setting",
                  "advance", "adjustment", "rawLog"}}
    \cup {Sends("create", "company", Boss, <<>>, n2),
          Sends("create", "branch", Admin, <<>>, n2),
          Sends("create", "department", Head, <<>>, n2),
          Sends("create", "department", Admin, <<>>, n1),
          Sends("create", "position", Head, "department" :> d1, n1),
          Sends("create", "user", Boss, "branch" :> b1, n1),
          Sends("create", "terminal", Admin, "branch" :> b1, n2),
          Sends("create", "holiday", Head, <<>>, n2),
          Sends("create", "setting", Admin, <<>>, n1),
          Sends("create", "adjustment", Head, "employee" :> u1, Absent),
          Sends("create", "rawLog", Head, ("terminal" :> t1) @@ ("attendance" :> w1), Absent),
          Sends("create", "notification", Head, "employee" :> u1, Absent),
          Sends("create", "notification", Boss, <<>>, Absent)}
    \cup {Sends("update", "department", Admin, "branch" :> None, Absent),
          Sends("update", "company", Boss, <<>>, n1),
          Sends("update", "department", Head, <<>>, n2),
          Sends("update", "position", Admin, "department" :> d2, Absent),
          Sends("update", "user", Admin, "company" :> None, Absent),
          Sends("update", "terminal", Admin, "branch" :> None, Absent),
          Sends("update", "advance", Boss, In2 @@ ("employee" :> u2), Absent),
          Sends("update", "rawLog", Admin, "employee" :> None, Absent),
          Sends("update", "notification", Head, "employee" :> None, Absent)}
    \cup {Sends("delete", kind, Boss, <<>>, Absent) :
             kind \in {"company", "branch", "department", "user", "terminal"}}
    \cup {Sends("toggle", "department", Head, <<>>, Absent)}

(***************************************************************************)
(* Tasks                                                                   *)
(***************************************************************************)
MCSeedProject == [p \in SeedProjects |-> [company |-> c1, title |-> n1]]

MCSeedTask ==
    [t \in SeedTasks |-> [company |-> c1, project |-> j1, start |-> 1, due |-> 2,
                          status |-> "not_started", creator |-> u1, assignees |-> {}]]

Asked(kind, actor) ==
    [kind |-> kind, actor |-> actor, company |-> Absent, project |-> Absent, title |-> Absent,
     start |-> Absent, due |-> Absent, status |-> Absent, assignees |-> {}]

MCTaskInputs ==
    {[Asked(kind, Admin) EXCEPT !.title = n2] : kind \in {"createProject", "renameProject"}}
    \cup {Asked("removeProject", Boss), Asked("remove", Admin), Asked("createSelf", Self(u2)),
          [Asked("create", Self(u1)) EXCEPT !.project = j1, !.start = 1, !.due = 2,
                                            !.assignees = {u1, u2}],
          [Asked("setStatus", Self(u2)) EXCEPT !.status = "done"],
          [Asked("reorder", Admin) EXCEPT !.status = "in_progress"],
          [Asked("update", Admin) EXCEPT !.project = j1]}
    \cup {[Asked("update", Head) EXCEPT !.start = date] : date \in {2, None}}
    \cup {[Asked("update", Head) EXCEPT !.due = date] : date \in {1, 2}}
    \cup {[Asked("assign", Admin) EXCEPT !.assignees = users] : users \in SUBSET {u1, u2}}

(***************************************************************************)
(* One part at a time.                                                     *)
(***************************************************************************)
VARIABLE part

peopleVars == <<leaveVars, sessionVars, directoryVars, taskVars, part>>

Interchangeable == Permutations(TaskRequests)

Settled == [company |-> c1, branch |-> b1, enabled |-> TRUE]

NoLeaves ==
    /\ staff = [e \in Employees |-> Settled]
    /\ leave = [l \in Leaves |-> None]

NoSessions ==
    /\ person = [u \in People |-> [active |-> TRUE, blocked |-> FALSE]]
    /\ session = [s \in SessionIds |-> None]
    /\ device = [d \in Devices |-> None]

NoEntries ==
    /\ entry = [x \in Ids |-> None]
    /\ strayed = {} /\ mixed = {} /\ orphaned = {}
    /\ entryCall = [r \in EntryRequests |-> IdleEntryCall]

\* Bound: only one of the users may be barred at the start, and only the other may work
\* elsewhere than where the seeded leaves are.
PeopleInit ==
    /\ part \in {"leaves", "sessions", "directory", "tasks"}
    /\ part # "leaves" => NoLeaves
    /\ part # "sessions" => NoSessions
    /\ LeaveInit /\ SessionInit /\ TasksInit
    /\ part = "sessions" => MayLogin(person[u2])
    /\ part = "leaves" => staff[u1] = Settled
    /\ IF part = "directory" THEN DirectoryInit ELSE NoEntries

PeopleNext ==
    /\ UNCHANGED part
    /\ \/ part = "leaves" /\ LeaveNext /\ UNCHANGED <<sessionVars, directoryVars, taskVars>>
       \/ part = "sessions" /\ SessionNext /\ UNCHANGED <<leaveVars, directoryVars, taskVars>>
       \/ part = "directory" /\ DirectoryNext /\ UNCHANGED <<leaveVars, sessionVars, taskVars>>
       \/ part = "tasks" /\ TasksNext /\ UNCHANGED <<leaveVars, sessionVars, directoryVars>>

PeopleSpec == PeopleInit /\ [][PeopleNext]_peopleVars

PeopleTypeOK == LeaveTypeOK /\ SessionTypeOK /\ DirectoryTypeOK /\ TasksTypeOK
=============================================================================
