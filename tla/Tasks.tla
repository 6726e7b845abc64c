--------------------------------- MODULE Tasks ---------------------------------
(***************************************************************************)
(* The tasks of a company, the projects they are sorted into and the users *)
(* they are assigned to.  A call loads the task and checks what was sent   *)
(* against it, writes the fields that were sent, and then tells the users  *)
(* it has put on the task, one after another; nothing is locked, and a     *)
(* notice that fails is not repeated.                                      *)
(***************************************************************************)
EXTENDS Scope, Integers

CONSTANTS
    LastDate,       \* dates are 1 .. LastDate
    Titles,         \* names of projects
    SeedProjects,   \* projects there are at the start
    SeedProject,    \* SeedProject[p]: what project p looks like then
    SeedTasks,      \* tasks there are at the start
    SeedTask,       \* SeedTask[t]: what task t looks like then
    TaskRequests,   \* identities of the calls; what a call creates bears its name
    TaskInputs      \* what the clients send

Dates == 1 .. LastDate
Projects == SeedProjects \cup TaskRequests
Tasks == SeedTasks \cup TaskRequests

TaskStatuses == {"not_started", "in_progress", "done"}

Project == [company : Companies, title : Titles]

Task == [company : Companies, project : Projects \cup {None}, start : Dates \cup {None},
         due : Dates \cup {None}, status : TaskStatuses, creator : Users,
         assignees : SUBSET Users]

ProjectKinds == {"createProject", "renameProject", "removeProject"}
TaskKinds == {"create", "createSelf", "update", "setStatus", "assign", "reorder", "remove"}

TaskInput ==
    [kind : ProjectKinds \cup TaskKinds, actor : Actor, company : Companies \cup {Absent},
     project : Projects \cup {None, Absent}, title : Titles \cup {Absent},
     start : Dates \cup {None, Absent}, due : Dates \cup {None, Absent},
     status : TaskStatuses \cup {Absent}, assignees : SUBSET Users]

TaskPhases == {"idle", "started", "ready", "unlinked", "written", "done", "refused"}

\* news are the users still to be told.  Two flags are history: another call has changed
\* the dates, or the assignees, of the task since this one loaded it.
TaskCall == [phase : TaskPhases, sent : TaskInput \cup {None}, on : SUBSET (Projects \cup Tasks),
             news : SUBSET Users, redated : BOOLEAN, reassigned : BOOLEAN]

ASSUME TasksAssumption ==
    /\ LastDate \in Nat \ {0}
    /\ (SeedProjects \cup SeedTasks) \cap TaskRequests = {}
    /\ SeedProjects \cap SeedTasks = {}
    /\ SeedProject \in [SeedProjects -> Project]
    /\ SeedTask \in [SeedTasks -> Task]
    /\ TaskInputs \subseteq TaskInput
    /\ None \notin Project \cup Task \cup TaskInput

VARIABLES
    project,    \* project[p]: the row of project p, None if there is none
    task,       \* task[t]: the row of task t with its assignees, None if there is none
    informed,   \* informed[t]: who was told of being put on t, or did it themselves
    missed,     \* history: missed[t]: those whose notice failed, or came too late
    clashed,    \* history: the tasks whose dates were last written past another call
    taskCall    \* taskCall[r]: the state of request r

taskVars == <<project, task, informed, missed, clashed, taskCall>>

IdleTaskCall == [phase |-> "idle", sent |-> None, on |-> {}, news |-> {},
                 redated |-> FALSE, reassigned |-> FALSE]

TasksTypeOK ==
    /\ project \in [Projects -> Project \cup {None}]
    /\ task \in [Tasks -> Task \cup {None}]
    /\ informed \in [Tasks -> SUBSET Users]
    /\ missed \in [Tasks -> SUBSET Users]
    /\ clashed \subseteq Tasks
    /\ taskCall \in [TaskRequests -> TaskCall]

OpenProjects == {p \in Projects : project[p] # None}
OpenTasks == {t \in Tasks : task[t] # None}

InOrder(start, due) == start = None \/ due = None \/ start <= due

\* A task is not due before it starts, whichever of its dates an update sends, unless
\* the dates were changed between the update's load and its write: then the end the
\* update did not send is not the one it compared with.
DatesOrdered ==
    \A t \in OpenTasks \ clashed : InOrder(task[t].start, task[t].due)

\* Whoever is on a task has been told of it, or is about to be, unless the notice failed
\* or two calls assigned the task at once; and nobody is told again who knows.
AssigneesTold ==
    /\ \A t \in OpenTasks, u \in Users :
          u \in task[t].assignees =>
              \/ u \in informed[t] \cup missed[t]
              \/ \E r \in TaskRequests : /\ taskCall[r].phase = "written"
                                         /\ t \in taskCall[r].on /\ u \in taskCall[r].news
    /\ \A r \in TaskRequests, t \in Tasks :
          taskCall[r].phase = "written" /\ t \in taskCall[r].on /\ ~taskCall[r].reassigned =>
              taskCall[r].news \cap informed[t] = {}

TasksInit ==
    /\ project = [p \in Projects |-> IF p \in SeedProjects THEN SeedProject[p] ELSE None]
    /\ task = [t \in Tasks |-> IF t \in SeedTasks THEN SeedTask[t] ELSE None]
    /\ informed = [t \in Tasks |-> IF t \in SeedTasks THEN SeedTask[t].assignees ELSE {}]
    /\ missed = [t \in Tasks |-> {}]
    /\ clashed = {}
    /\ taskCall = [r \in TaskRequests |-> IdleTaskCall]
    /\ DatesOrdered
    /\ \A t \in SeedTasks : task[t].project # None =>
           project[task[t].project] # None /\ project[task[t].project].company = task[t].company

(***************************************************************************)
(* The start of a call, and its reads.                                     *)
(***************************************************************************)
TaskCallers(kind) ==
    IF kind \in ProjectKinds \cup {"assign", "remove"}
    THEN {"superadmin", "admin", "manager"} ELSE Roles

\* A call is on one project, on one task, or on several tasks to be reordered.
MayBeOn(kind, on) ==
    CASE kind \in {"createProject", "create", "createSelf"} -> on = {}
      [] kind \in {"renameProject", "removeProject"} -> \E p \in OpenProjects : on = {p}
      [] kind = "reorder" -> on # {} /\ on \subseteq OpenTasks
      [] OTHER -> \E t \in OpenTasks : on = {t}

StartTaskCall(r) ==
    /\ taskCall[r].phase = "idle"
    /\ \E sent \in TaskInputs, on \in SUBSET (OpenProjects \cup OpenTasks) :
          /\ sent.actor.role \in TaskCallers(sent.kind)
          /\ MayBeOn(sent.kind, on)
          /\ taskCall' = [taskCall EXCEPT ![r] =
                              [IdleTaskCall EXCEPT !.phase = "started", !.sent = sent, !.on = on]]
    /\ UNCHANGED <<project, task, informed, missed, clashed>>

EndedTaskCall(phase) == [IdleTaskCall EXCEPT !.phase = phase]

TaskRead(r, permits, next) ==
    /\ taskCall' = [taskCall EXCEPT ![r] = IF permits THEN next ELSE EndedTaskCall("refused")]
    /\ UNCHANGED <<project, task, informed, missed, clashed>>

Begun(r, kinds) == taskCall[r].phase = "started" /\ taskCall[r].sent.kind \in kinds

Sent(value, kept) == IF value = Absent THEN kept ELSE value

CompanySent(sent) == Sent(sent.company, None)

\* checkAccess with the company alone
OfCompany(company) == [company |-> company, branch |-> None]

MayOpenProject(actor, p) ==
    p \in OpenProjects /\ MayAccess(actor, OfCompany(project[p].company))

MayOpenTask(actor, t) ==
    t \in OpenTasks /\ MayAccess(actor, OfCompany(task[t].company))

\* The project a task is put into is one of its company.
ProjectFits(p, company) ==
    p \in {None, Absent} \/ (p \in OpenProjects /\ project[p].company = company)

TitleFree(company, title, except) ==
    ~\E p \in OpenProjects \ except : project[p] = [company |-> company, title |-> title]

CheckNewProject(r) ==
    LET sent == taskCall[r].sent
    IN  /\ Begun(r, {"createProject"})
        /\ TaskRead(r, /\ ~CompanyRefused(sent.actor, CompanySent(sent))
                       /\ sent.title # Absent
                       /\ TitleFree(GetCompanyId(sent.actor, CompanySent(sent)), sent.title, {}),
                    [taskCall[r] EXCEPT !.phase = "ready"])

LoadProject(r) ==
    LET c == taskCall[r]
        p == CHOOSE p \in c.on : TRUE
    IN  /\ Begun(r, {"renameProject", "removeProject"})
        /\ TaskRead(r, /\ MayOpenProject(c.sent.actor, p)
                       /\ c.sent.kind = "renameProject" /\ c.sent.title # Absent =>
                              TitleFree(project[p].company, c.sent.title, {p}),
                    [c EXCEPT !.phase = "ready"])

\* create, whose dates are compared with one another, and createSelf
CheckNewTask(r) ==
    LET sent == taskCall[r].sent
        company == GetCompanyId(sent.actor, CompanySent(sent))
    IN  /\ Begun(r, {"create", "createSelf"})
        /\ TaskRead(r, /\ ~CompanyRefused(sent.actor, CompanySent(sent))
                       /\ sent.kind = "create" => /\ InOrder(Sent(sent.start, None), Sent(sent.due, None))
                                                  /\ ProjectFits(sent.project, company),
                    [taskCall[r] EXCEPT !.phase = "ready"])

\* A date to be cleared counts as the one there is.
Compared(value, kept) == IF value \in {None, Absent} THEN kept ELSE value

\* Slip: the dates sent are compared with one another only.
LoadToUpdateAsSent(r) ==
    LET c == taskCall[r]
        t == CHOOSE t \in c.on : TRUE
    IN  /\ Begun(r, {"update"})
        /\ TaskRead(r, /\ MayOpenTask(c.sent.actor, t) /\ c.sent.actor.role # "employee"
                       /\ InOrder(Compared(c.sent.start, None), Compared(c.sent.due, None))
                       /\ ProjectFits(c.sent.project, task[t].company),
                    [c EXCEPT !.phase = "ready"])

\* The date that was not sent is the one there is.
LoadToUpdate(r) ==
    LET c == taskCall[r]
        t == CHOOSE t \in c.on : TRUE
    IN  /\ Begun(r, {"update"})
        /\ TaskRead(r, /\ MayOpenTask(c.sent.actor, t) /\ c.sent.actor.role # "employee"
                       /\ {c.sent.start, c.sent.due} # {Absent} =>
                              InOrder(Compared(c.sent.start, task[t].start),
                                      Compared(c.sent.due, task[t].due))
                       /\ ProjectFits(c.sent.project, task[t].company),
                    [c EXCEPT !.phase = "ready"])

\* An employee sets the status of the tasks they created or are on.
LoadToSetStatus(r) ==
    LET c == taskCall[r]
        t == CHOOSE t \in c.on : TRUE
    IN  /\ Begun(r, {"setStatus"})
        /\ TaskRead(r, /\ MayOpenTask(c.sent.actor, t) /\ c.sent.status # Absent
                       /\ c.sent.actor.role = "employee" =>
                              c.sent.actor.sub \in task[t].assignees \cup {task[t].creator},
                    [c EXCEPT !.phase = "ready"])

\* Slip: whoever is to be on the task is told.
LoadToAssignAll(r) ==
    LET c == taskCall[r]
        t == CHOOSE t \in c.on : TRUE
    IN  /\ Begun(r, {"assign"})
        /\ TaskRead(r, MayOpenTask(c.sent.actor, t),
                    [c EXCEPT !.phase = "ready", !.news = c.sent.assignees \ {c.sent.actor.sub}])

\* Only those not on the task yet will be told, and never the actor.
LoadToAssign(r) ==
    LET c == taskCall[r]
        t == CHOOSE t \in c.on : TRUE
    IN  /\ Begun(r, {"assign"})
        /\ TaskRead(r, MayOpenTask(c.sent.actor, t) /\ c.sent.actor.role # "employee",
                    [c EXCEPT !.phase = "ready",
                              !.news = c.sent.assignees \ (task[t].assignees \cup {c.sent.actor.sub})])

\* The tasks are read one by one; none of them changes its company in between.
LoadToReorder(r) ==
    LET c == taskCall[r]
    IN  /\ Begun(r, {"reorder"})
        /\ TaskRead(r, \A t \in c.on : MayOpenTask(c.sent.actor, t), [c EXCEPT !.phase = "ready"])

LoadToRemove(r) ==
    LET c == taskCall[r]
        t == CHOOSE t \in c.on : TRUE
    IN  /\ Begun(r, {"remove"})
        /\ TaskRead(r, MayOpenTask(c.sent.actor, t) /\ c.sent.actor.role # "employee",
                    [c EXCEPT !.phase = "ready"])

(***************************************************************************)
(* The writes.  A title is unique in its company, and a project named      *)
(* exists, or the database refuses the row.                                *)
(***************************************************************************)
Ready(r, kinds) == taskCall[r].phase = "ready" /\ taskCall[r].sent.kind \in kinds

DoneTaskCall(r) == taskCall' = [taskCall EXCEPT ![r] = EndedTaskCall("done")]

InsertProject(r) ==
    LET sent == taskCall[r].sent
        company == GetCompanyId(sent.actor, CompanySent(sent))
    IN  /\ Ready(r, {"createProject"}) /\ TitleFree(company, sent.title, {})
        /\ project' = [project EXCEPT ![r] = [company |-> company, title |-> sent.title]]
        /\ DoneTaskCall(r)
        /\ UNCHANGED <<task, informed, missed, clashed>>

UpdateProject(r) ==
    LET sent == taskCall[r].sent
        p == CHOOSE p \in taskCall[r].on : TRUE
        title == Sent(sent.title, project[p].title)
    IN  /\ Ready(r, {"renameProject"}) /\ p \in OpenProjects
        /\ TitleFree(project[p].company, title, {p})
        /\ project' = [project EXCEPT ![p].title = title]
        /\ DoneTaskCall(r)
        /\ UNCHANGED <<task, informed, missed, clashed>>

\* The tasks as they are when project p goes.
Unlinked(p) == [t \in Tasks |-> IF t \in OpenTasks /\ task[t].project = p
                                THEN [task[t] EXCEPT !.project = None] ELSE task[t]]

\* removeProject takes the tasks out first, in a statement of its own ...
UnlinkTasks(r) ==
    LET p == CHOOSE p \in taskCall[r].on : TRUE
    IN  /\ Ready(r, {"removeProject"})
        /\ task' = Unlinked(p)
        /\ taskCall' = [taskCall EXCEPT ![r].phase = "unlinked"]
        /\ UNCHANGED <<project, informed, missed, clashed>>

\* ... and the database does so for those put into it since.
DeleteProject(r) ==
    LET p == CHOOSE p \in taskCall[r].on : TRUE
    IN  /\ taskCall[r].phase = "unlinked" /\ p \in OpenProjects
        /\ project' = [project EXCEPT ![p] = None]
        /\ task' = Unlinked(p)
        /\ DoneTaskCall(r)
        /\ UNCHANGED <<informed, missed, clashed>>

\* Slip: the company is the one that was sent, if any.
NewTaskAsSent(sent) ==
    [company |-> CompanySent(sent), creator |-> sent.actor.sub,
     project |-> Sent(sent.project, None), start |-> Sent(sent.start, None),
     due |-> Sent(sent.due, None), status |-> Sent(sent.status, "not_started"),
     assignees |-> sent.assignees]

\* The row of a task that is created.
NewTask(sent) ==
    [company |-> GetCompanyId(sent.actor, CompanySent(sent)), creator |-> sent.actor.sub,
     project |-> Sent(sent.project, None), start |-> Sent(sent.start, None),
     due |-> Sent(sent.due, None), status |-> Sent(sent.status, "not_started"),
     assignees |-> sent.assignees]

\* A task of one's own has nothing but its creator.
OwnTask(sent) ==
    [NewTask(sent) EXCEPT !.project = None, !.start = None, !.due = None,
                          !.status = "not_started", !.assignees = {sent.actor.sub}]

\* The call has written the task, and tells those in news of it.
Written(c, on, news) ==
    IF news = {} THEN EndedTaskCall("done")
    ELSE [c EXCEPT !.phase = "written", !.on = on, !.news = news]

InsertTask(r) ==
    LET sent == taskCall[r].sent
        row == IF sent.kind = "create" THEN NewTask(sent) ELSE OwnTask(sent)
    IN  /\ Ready(r, {"create", "createSelf"})
        /\ row.project \in OpenProjects \cup {None}
        /\ task' = [task EXCEPT ![r] = row]
        /\ informed' = [informed EXCEPT ![r] = row.assignees \cap {sent.actor.sub}]
        /\ taskCall' = [taskCall EXCEPT ![r] = Written(@, {r}, row.assignees \ {sent.actor.sub})]
        /\ UNCHANGED <<project, missed, clashed>>

\* The other calls that have loaded task t see it no more as it is.
Past(calls, t, redated, reassigned) ==
    [q \in TaskRequests |->
        IF t \in calls[q].on /\ calls[q].phase \in {"ready", "written"}
        THEN [calls[q] EXCEPT !.redated = @ \/ redated, !.reassigned = @ \/ reassigned]
        ELSE calls[q]]

\* Only what was sent is written.
UpdateTask(r) ==
    LET c == taskCall[r]
        t == CHOOSE t \in c.on : TRUE
        row == [task[t] EXCEPT !.project = Sent(c.sent.project, @), !.start = Sent(c.sent.start, @),
                               !.due = Sent(c.sent.due, @), !.status = Sent(c.sent.status, @)]
        dated == {c.sent.start, c.sent.due} # {Absent}
    IN  /\ Ready(r, {"update"}) /\ t \in OpenTasks
        /\ row.project \in OpenProjects \cup {None}
        /\ task' = [task EXCEPT ![t] = row]
        /\ clashed' = CASE dated /\ c.redated -> clashed \cup {t}
                        [] dated /\ ~c.redated -> clashed \ {t}
                        [] OTHER -> clashed
        /\ taskCall' = Past([taskCall EXCEPT ![r] = EndedTaskCall("done")], t, dated, FALSE)
        /\ UNCHANGED <<project, informed, missed>>

\* updateStatus of one task, reorder of several; none is written if one has gone.
SetStatus(r) ==
    LET c == taskCall[r]
    IN  /\ Ready(r, {"setStatus", "reorder"}) /\ c.on \subseteq OpenTasks
        /\ task' = [t \in Tasks |-> IF t \in c.on
                                    THEN [task[t] EXCEPT !.status = Sent(c.sent.status, @)]
                                    ELSE task[t]]
        /\ DoneTaskCall(r)
        /\ UNCHANGED <<project, informed, missed, clashed>>

\* The assignees are replaced in one transaction, whoever they are by now.
ReplaceAssignees(r) ==
    LET c == taskCall[r]
        t == CHOOSE t \in c.on : TRUE
        new == c.sent.assignees
        stay == task[t].assignees \cap new
    IN  /\ Ready(r, {"assign"}) /\ t \in OpenTasks
        /\ task' = [task EXCEPT ![t].assignees = new]
        /\ informed' = [informed EXCEPT ![t] = (@ \cap stay) \cup (new \cap {c.sent.actor.sub})]
        /\ missed' = [missed EXCEPT ![t] = IF c.reassigned THEN new ELSE @ \cap stay]
        /\ taskCall' = [Past(taskCall, t, FALSE, TRUE) EXCEPT ![r] = Written(c, {t}, c.news)]
        /\ UNCHANGED <<project, clashed>>

\* notifyUser; a failure is swallowed.  A notice that comes after the assignees were
\* changed again tells nothing of the change.
TellAssignee(r) ==
    LET c == taskCall[r]
        t == CHOOSE t \in c.on : TRUE
    IN  /\ c.phase = "written"
        /\ \E u \in c.news :
              /\ taskCall' = [taskCall EXCEPT ![r] = Written(c, c.on, c.news \ {u})]
              /\ \/ /\ ~c.reassigned
                    /\ informed' = [informed EXCEPT ![t] = @ \cup {u}] /\ UNCHANGED missed
                 \/ missed' = [missed EXCEPT ![t] = @ \cup {u}] /\ UNCHANGED informed
        /\ UNCHANGED <<project, task, clashed>>

DeleteTask(r) ==
    LET t == CHOOSE t \in taskCall[r].on : TRUE
    IN  /\ Ready(r, {"remove"}) /\ t \in OpenTasks
        /\ task' = [task EXCEPT ![t] = None]
        /\ informed' = [informed EXCEPT ![t] = {}]
        /\ missed' = [missed EXCEPT ![t] = {}]
        /\ clashed' = clashed \ {t}
        /\ DoneTaskCall(r)
        /\ UNCHANGED project

\* The write is refused, the database fails, or the process stops: what was written stays,
\* and the users still to be told are not.
StopTaskCall(r) ==
    LET c == taskCall[r]
        t == CHOOSE t \in c.on : TRUE
    IN  /\ c.phase \in {"started", "ready", "unlinked", "written"}
        /\ missed' = IF c.phase = "written" THEN [missed EXCEPT ![t] = @ \cup c.news] ELSE missed
        /\ taskCall' = [taskCall EXCEPT ![r] = EndedTaskCall("refused")]
        /\ UNCHANGED <<project, task, informed, clashed>>

TasksNext ==
    \E r \in TaskRequests :
        \/ StartTaskCall(r) \/ CheckNewProject(r) \/ LoadProject(r) \/ CheckNewTask(r)
        \/ LoadToUpdate(r) \/ LoadToSetStatus(r) \/ LoadToAssign(r) \/ LoadToReorder(r)
        \/ LoadToRemove(r) \/ InsertProject(r) \/ UpdateProject(r) \/ UnlinkTasks(r)
        \/ DeleteProject(r) \/ InsertTask(r) \/ UpdateTask(r) \/ SetStatus(r)
        \/ ReplaceAssignees(r) \/ TellAssignee(r) \/ DeleteTask(r) \/ StopTaskCall(r)

TasksSpec == TasksInit /\ [][TasksNext]_taskVars
=============================================================================
