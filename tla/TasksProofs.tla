----------------------------- MODULE TasksProofs -----------------------------
(***************************************************************************)
(* Proofs about Tasks for any companies, projects, tasks, inputs and       *)
(* calls.                                                                  *)
(***************************************************************************)
EXTENDS Tasks, TLAPS

(***************************************************************************)
(* The inductive invariant.                                                *)
(***************************************************************************)
CreateKinds == {"createProject", "create", "createSelf"}
OneTaskKinds == {"update", "setStatus", "assign", "remove"}
TaskLivePhases == {"started", "ready", "unlinked", "written"}

Dated(sent) == {sent.start, sent.due} # {Absent}

\* The dates the update leaves behind.
NextInOrder(sent, row) == InOrder(Sent(sent.start, row.start), Sent(sent.due, row.due))

\* A call is on what its kind calls for, and what a new row needs has been checked.
TaskCallSound(c) ==
    /\ c.phase \in TaskLivePhases => c.sent \in TaskInputs
    /\ c.phase \in {"started", "ready"} /\ c.sent.kind \in OneTaskKinds =>
           \E t \in Tasks : c.on = {t}
    /\ c.phase = "ready" =>
           /\ c.sent.kind \in CreateKinds => ~CompanyRefused(c.sent.actor, CompanySent(c.sent))
           /\ c.sent.kind = "createProject" => c.sent.title # Absent
           /\ c.sent.kind = "create" => InOrder(Sent(c.sent.start, None), Sent(c.sent.due, None))

\* An update that no other has overtaken leaves the dates of its task in order.
UpdateSound(c) ==
    c.phase = "ready" /\ c.sent.kind = "update" /\ ~c.redated /\ Dated(c.sent) =>
        \A t \in c.on \cap OpenTasks : NextInOrder(c.sent, task[t])

\* What bears the name of a call was written by it.
TaskNamesFresh ==
    \A n \in TaskRequests :
        task[n] # None \/ project[n] # None \/ (\E q \in TaskRequests : n \in taskCall[q].on) =>
            taskCall[n].phase \notin {"idle", "started", "ready"}

TaskInv ==
    /\ TasksTypeOK
    /\ \A r \in TaskRequests : TaskCallSound(taskCall[r]) /\ UpdateSound(taskCall[r])
    /\ TaskNamesFresh
    /\ DatesOrdered

(***************************************************************************)
(* Lemmas.                                                                 *)
(***************************************************************************)
LEMMA TaskNoRow == None \notin Project /\ None \notin Task
BY TasksAssumption

LEMMA TaskInputType ==
    ASSUME NEW sent \in TaskInputs
    PROVE  /\ sent.kind \in ProjectKinds \cup TaskKinds
           /\ sent.actor \in Actor /\ sent.actor.sub \in Users
           /\ sent.company \in Companies \cup {Absent}
           /\ sent.project \in Projects \cup {None, Absent}
           /\ sent.title \in Titles \cup {Absent}
           /\ sent.start \in Dates \cup {None, Absent}
           /\ sent.due \in Dates \cup {None, Absent}
           /\ sent.status \in TaskStatuses \cup {Absent}
           /\ sent.assignees \subseteq Users
BY TasksAssumption DEF TaskInput, Actor

\* getCompanyId leaves nothing without a company.
LEMMA NewCompany ==
    ASSUME NEW sent \in TaskInputs, ~CompanyRefused(sent.actor, CompanySent(sent))
    PROVE  GetCompanyId(sent.actor, CompanySent(sent)) \in Companies
<1>1. sent.actor.company \in Companies \cup {None} /\ sent.company \in Companies \cup {Absent}
    BY TaskInputType DEF Actor
<1>2. QED
    BY <1>1, ScopeAssumption DEF GetCompanyId, CompanySent, CompanyRefused, Sent

LEMMA TaskEndedSound ==
    ASSUME NEW phase \in {"done", "refused"}
    PROVE  /\ EndedTaskCall(phase) \in TaskCall /\ EndedTaskCall(phase).phase = phase
           /\ EndedTaskCall(phase).on = {}
           /\ TaskCallSound(EndedTaskCall(phase)) /\ UpdateSound(EndedTaskCall(phase))
BY DEF EndedTaskCall, IdleTaskCall, TaskCall, TaskPhases, TaskCallSound, UpdateSound, TaskLivePhases

LEMMA TaskCallFacts ==
    ASSUME TaskInv, NEW r \in TaskRequests
    PROVE  taskCall[r] \in TaskCall /\ TaskCallSound(taskCall[r]) /\ UpdateSound(taskCall[r])
BY DEF TaskInv, TasksTypeOK

LEMMA TaskInitInv == TasksInit => TaskInv
<1>. SUFFICES ASSUME TasksInit PROVE TaskInv
    OBVIOUS
<1>1. TasksTypeOK
    <2>1. IdleTaskCall \in TaskCall
        BY DEF IdleTaskCall, TaskCall, TaskPhases
    <2>2. project \in [Projects -> Project \cup {None}] /\ task \in [Tasks -> Task \cup {None}]
        BY TasksAssumption DEF TasksInit
    <2>3. informed \in [Tasks -> SUBSET Users]
        BY TasksAssumption DEF TasksInit, Task
    <2>4. QED
        BY <2>1, <2>2, <2>3 DEF TasksInit, TasksTypeOK
<1>2. \A r \in TaskRequests : TaskCallSound(taskCall[r]) /\ UpdateSound(taskCall[r])
    BY DEF TasksInit, IdleTaskCall, TaskCallSound, UpdateSound, TaskLivePhases
<1>3. TaskNamesFresh
    <2>1. \A n \in TaskRequests : task[n] = None /\ project[n] = None
        BY TasksAssumption DEF TasksInit, Tasks, Projects
    <2>2. QED
        BY <2>1 DEF TaskNamesFresh, TasksInit, IdleTaskCall
<1>4. QED
    BY <1>1, <1>2, <1>3 DEF TaskInv, TasksInit

(***************************************************************************)
(* The steps that only change the state of their call.                     *)
(***************************************************************************)
LEMMA TaskCallMoves ==
    ASSUME TaskInv, NEW r \in TaskRequests, NEW c \in TaskCall, TaskCallSound(c), UpdateSound(c),
           c.on \subseteq taskCall[r].on,
           taskCall[r].phase \notin {"idle", "started", "ready"} =>
               c.phase \notin {"idle", "started", "ready"},
           taskCall' = [taskCall EXCEPT ![r] = c], UNCHANGED <<project, task, clashed>>,
           informed' \in [Tasks -> SUBSET Users], missed' \in [Tasks -> SUBSET Users]
    PROVE  TaskInv'
<1>1. taskCall'[r] = c /\ \A q \in TaskRequests \ {r} : taskCall'[q] = taskCall[q]
    BY DEF TaskInv, TasksTypeOK
<1>2. TasksTypeOK'
    BY DEF TaskInv, TasksTypeOK
<1>3. ASSUME NEW q \in TaskRequests PROVE TaskCallSound(taskCall[q])' /\ UpdateSound(taskCall[q])'
    <2>1. TaskCallSound(taskCall'[q]) /\ UpdateSound(taskCall'[q])
        BY <1>1, TaskCallFacts
    <2>2. QED
        BY <2>1 DEF TaskCallSound, UpdateSound, OpenTasks, NextInOrder
<1>4. TaskNamesFresh'
    <2>1. \A q \in TaskRequests : taskCall'[q].on \subseteq taskCall[q].on
        BY <1>1
    <2>2. \A q \in TaskRequests : taskCall[q].phase \notin {"idle", "started", "ready"} =>
              taskCall'[q].phase \notin {"idle", "started", "ready"}
        BY <1>1
    <2>3. QED
        BY <2>1, <2>2 DEF TaskInv, TaskNamesFresh
<1>5. DatesOrdered'
    BY DEF TaskInv, DatesOrdered, OpenTasks
<1>6. QED
    BY <1>2, <1>3, <1>4, <1>5 DEF TaskInv

LEMMA TaskReadKeeps ==
    ASSUME TaskInv, NEW r \in TaskRequests, taskCall[r].phase = "started",
           NEW permits \in BOOLEAN, NEW next, TaskRead(r, permits, next),
           permits => /\ next \in TaskCall /\ TaskCallSound(next) /\ UpdateSound(next)
                      /\ next.on = taskCall[r].on
    PROVE  TaskInv'
<1>1. CASE permits
    <2>1. taskCall' = [taskCall EXCEPT ![r] = next]
        BY <1>1 DEF TaskRead
    <2>2. QED
        BY <1>1, <2>1, TaskCallMoves DEF TaskRead, TaskInv, TasksTypeOK
<1>2. CASE ~permits
    <2>1. taskCall' = [taskCall EXCEPT ![r] = EndedTaskCall("refused")]
        BY <1>2 DEF TaskRead
    <2>2. QED
        BY <2>1, TaskEndedSound, TaskCallMoves DEF TaskRead, TaskInv, TasksTypeOK
<1>3. QED
    BY <1>1, <1>2

\* A call that is ready for anything but an update, with what it needs.
LEMMA ReadySound ==
    ASSUME TaskInv, NEW r \in TaskRequests, NEW kinds, Begun(r, kinds),
           NEW news \in SUBSET Users,
           taskCall[r].sent.kind \in CreateKinds =>
               ~CompanyRefused(taskCall[r].sent.actor, CompanySent(taskCall[r].sent)),
           taskCall[r].sent.kind = "createProject" => taskCall[r].sent.title # Absent,
           taskCall[r].sent.kind = "create" =>
               InOrder(Sent(taskCall[r].sent.start, None), Sent(taskCall[r].sent.due, None)),
           taskCall[r].sent.kind = "update" /\ Dated(taskCall[r].sent) =>
               \A t \in taskCall[r].on \cap OpenTasks : NextInOrder(taskCall[r].sent, task[t])
    PROVE  LET next == [taskCall[r] EXCEPT !.phase = "ready", !.news = news]
           IN  next \in TaskCall /\ TaskCallSound(next) /\ UpdateSound(next) /\ next.on = taskCall[r].on
<1>. DEFINE c == taskCall[r]
            next == [c EXCEPT !.phase = "ready", !.news = news]
<1>1. c \in TaskCall /\ TaskCallSound(c) /\ c.phase = "started"
    BY TaskCallFacts DEF Begun
<1>2. /\ next.phase = "ready" /\ next.on = c.on /\ next.sent = c.sent
      /\ next \in TaskCall
    BY <1>1 DEF TaskCall, TaskPhases
<1>. HIDE DEF next
<1>3. TaskCallSound(next)
    BY <1>1, <1>2 DEF TaskCallSound, TaskLivePhases
<1>4. UpdateSound(next)
    BY <1>2 DEF UpdateSound
<1>5. QED
    BY <1>2, <1>3, <1>4 DEF next

LEMMA SameNews ==
    ASSUME TaskInv, NEW r \in TaskRequests
    PROVE  /\ taskCall[r].news \in SUBSET Users
           /\ [taskCall[r] EXCEPT !.phase = "ready"]
                  = [taskCall[r] EXCEPT !.phase = "ready", !.news = taskCall[r].news]
BY TaskCallFacts DEF TaskCall

\* The same of a check that finds nobody to tell.
LEMMA ReadyAsLoaded ==
    ASSUME TaskInv, NEW r \in TaskRequests, NEW kinds, Begun(r, kinds),
           taskCall[r].sent.kind \in CreateKinds =>
               ~CompanyRefused(taskCall[r].sent.actor, CompanySent(taskCall[r].sent)),
           taskCall[r].sent.kind = "createProject" => taskCall[r].sent.title # Absent,
           taskCall[r].sent.kind = "create" =>
               InOrder(Sent(taskCall[r].sent.start, None), Sent(taskCall[r].sent.due, None)),
           taskCall[r].sent.kind = "update" /\ Dated(taskCall[r].sent) =>
               \A t \in taskCall[r].on \cap OpenTasks : NextInOrder(taskCall[r].sent, task[t])
    PROVE  LET next == [taskCall[r] EXCEPT !.phase = "ready"]
           IN  next \in TaskCall /\ TaskCallSound(next) /\ UpdateSound(next) /\ next.on = taskCall[r].on
<1>1. taskCall[r].news \in SUBSET Users
    BY SameNews
<1>2. LET next == [taskCall[r] EXCEPT !.phase = "ready", !.news = taskCall[r].news]
      IN  next \in TaskCall /\ TaskCallSound(next) /\ UpdateSound(next) /\ next.on = taskCall[r].on
    BY <1>1, ReadySound
<1>3. QED
    BY <1>2, SameNews

LEMMA TaskStartKeeps ==
    ASSUME TaskInv, NEW r \in TaskRequests, StartTaskCall(r)
    PROVE  TaskInv'
<1>1. PICK sent \in TaskInputs, on \in SUBSET (OpenProjects \cup OpenTasks) :
          /\ MayBeOn(sent.kind, on)
          /\ taskCall' = [taskCall EXCEPT ![r] =
                 [IdleTaskCall EXCEPT !.phase = "started", !.sent = sent, !.on = on]]
    BY DEF StartTaskCall
<1>. DEFINE c == [IdleTaskCall EXCEPT !.phase = "started", !.sent = sent, !.on = on]
<1>2. /\ taskCall[r].phase = "idle" /\ UNCHANGED <<project, task, informed, missed, clashed>>
      /\ OpenProjects \subseteq Projects /\ OpenTasks \subseteq Tasks
    BY DEF StartTaskCall, OpenProjects, OpenTasks
<1>3. c.phase = "started" /\ c.sent = sent /\ c.on = on /\ c \in TaskCall
    <2>1. sent \in TaskInput /\ on \subseteq Projects \cup Tasks
        BY <1>2, TasksAssumption
    <2>2. QED
        BY <2>1 DEF IdleTaskCall, TaskCall, TaskPhases
<1>. HIDE DEF c
<1>4. taskCall'[r] = c /\ \A q \in TaskRequests \ {r} : taskCall'[q] = taskCall[q]
    BY <1>1 DEF TaskInv, TasksTypeOK, c
<1>5. TaskCallSound(c) /\ UpdateSound(c)
    <2>1. sent.kind \in OneTaskKinds => \E t \in OpenTasks : on = {t}
        BY <1>1 DEF MayBeOn, OneTaskKinds
    <2>2. QED
        BY <1>2, <1>3, <2>1 DEF TaskCallSound, UpdateSound, TaskLivePhases
<1>6. TasksTypeOK'
    BY <1>1, <1>2, <1>3 DEF TaskInv, TasksTypeOK, c
<1>7. ASSUME NEW q \in TaskRequests PROVE TaskCallSound(taskCall[q])' /\ UpdateSound(taskCall[q])'
    <2>1. TaskCallSound(taskCall'[q]) /\ UpdateSound(taskCall'[q])
        BY <1>4, <1>5, TaskCallFacts
    <2>2. QED
        BY <1>2, <2>1 DEF TaskCallSound, UpdateSound, OpenTasks, NextInOrder
<1>8. TaskNamesFresh'
    <2> SUFFICES ASSUME NEW n \in TaskRequests,
                        task'[n] # None \/ project'[n] # None
                        \/ \E q \in TaskRequests : n \in taskCall'[q].on
                 PROVE  taskCall'[n].phase \notin {"idle", "started", "ready"}
        BY DEF TaskNamesFresh
    <2>1. n \in on => task[n] # None \/ project[n] # None
        BY DEF OpenTasks, OpenProjects
    <2>2. task[n] # None \/ project[n] # None \/ \E q \in TaskRequests : n \in taskCall[q].on
        BY <1>2, <1>3, <1>4, <2>1
    <2>3. taskCall[n].phase \notin {"idle", "started", "ready"}
        BY <2>2 DEF TaskInv, TaskNamesFresh
    <2>4. QED
        BY <1>2, <1>4, <2>3
<1>9. DatesOrdered'
    BY <1>2 DEF TaskInv, DatesOrdered, OpenTasks
<1>10. QED
    BY <1>6, <1>7, <1>8, <1>9 DEF TaskInv

LEMMA NewRowLoads ==
    ASSUME TaskInv, NEW r \in TaskRequests, CheckNewProject(r) \/ CheckNewTask(r)
    PROVE  TaskInv'
<1>. DEFINE sent == taskCall[r].sent
            next == [taskCall[r] EXCEPT !.phase = "ready"]
<1>1. CASE CheckNewProject(r)
    <2>. DEFINE permits == /\ ~CompanyRefused(sent.actor, CompanySent(sent))
                           /\ sent.title # Absent
                           /\ TitleFree(GetCompanyId(sent.actor, CompanySent(sent)), sent.title, {})
    <2>1. TaskRead(r, permits, next) /\ Begun(r, {"createProject"})
        BY <1>1 DEF CheckNewProject
    <2>2. permits => next \in TaskCall /\ TaskCallSound(next) /\ UpdateSound(next)
                     /\ next.on = taskCall[r].on
        BY <2>1, ReadyAsLoaded DEF Begun
    <2>3. taskCall[r].phase = "started" /\ permits \in BOOLEAN
        BY <2>1 DEF Begun, CompanyRefused
    <2>. HIDE DEF permits, next
    <2>4. QED
        BY <2>1, <2>2, <2>3, TaskReadKeeps
<1>2. CASE CheckNewTask(r)
    <2>. DEFINE company == GetCompanyId(sent.actor, CompanySent(sent))
                permits == /\ ~CompanyRefused(sent.actor, CompanySent(sent))
                           /\ sent.kind = "create" =>
                                  /\ InOrder(Sent(sent.start, None), Sent(sent.due, None))
                                  /\ ProjectFits(sent.project, company)
    <2>1. TaskRead(r, permits, next) /\ Begun(r, {"create", "createSelf"})
        BY <1>2 DEF CheckNewTask
    <2>2. permits => next \in TaskCall /\ TaskCallSound(next) /\ UpdateSound(next)
                     /\ next.on = taskCall[r].on
        BY <2>1, ReadyAsLoaded DEF Begun
    <2>3. taskCall[r].phase = "started" /\ permits \in BOOLEAN
        BY <2>1 DEF Begun, CompanyRefused
    <2>. HIDE DEF permits, next
    <2>4. QED
        BY <2>1, <2>2, <2>3, TaskReadKeeps
<1>3. QED
    BY <1>1, <1>2

\* The end that was not sent is the one the task has, so that the dates stay in order if
\* the task has not changed by the write.
LEMMA UpdateLoad ==
    ASSUME TaskInv, NEW r \in TaskRequests, LoadToUpdate(r)
    PROVE  TaskInv'
<1>. DEFINE c == taskCall[r]
            t == CHOOSE t \in c.on : TRUE
            permits == /\ MayOpenTask(c.sent.actor, t) /\ c.sent.actor.role # "employee"
                       /\ {c.sent.start, c.sent.due} # {Absent} =>
                              InOrder(Compared(c.sent.start, task[t].start),
                                      Compared(c.sent.due, task[t].due))
                       /\ ProjectFits(c.sent.project, task[t].company)
            next == [c EXCEPT !.phase = "ready"]
<1>1. TaskRead(r, permits, next) /\ Begun(r, {"update"})
    BY DEF LoadToUpdate
<1>2. c \in TaskCall /\ TaskCallSound(c) /\ c.phase = "started" /\ c.sent.kind = "update"
    BY <1>1, TaskCallFacts DEF Begun
<1>3. \E k \in Tasks : c.on = {k}
    BY <1>2 DEF TaskCallSound, OneTaskKinds
<1>4. c.on = {t}
    BY <1>3
<1>. HIDE DEF t
<1>5. ASSUME permits, Dated(c.sent), t \in OpenTasks
      PROVE  NextInOrder(c.sent, task[t])
    BY <1>5 DEF Dated, NextInOrder, InOrder, Sent, Compared
<1>6. permits => next \in TaskCall /\ TaskCallSound(next) /\ UpdateSound(next)
                 /\ next.on = taskCall[r].on
    <2>. HIDE DEF permits
    <2>1. ASSUME permits, Dated(c.sent)
          PROVE  \A k \in c.on \cap OpenTasks : NextInOrder(c.sent, task[k])
        BY <1>4, <1>5, <2>1
    <2>2. c.news \in SUBSET Users /\ next = [c EXCEPT !.phase = "ready", !.news = c.news]
        BY SameNews
    <2>3. c.sent.kind \notin CreateKinds /\ c.sent.kind # "createProject" /\ c.sent.kind # "create"
        BY <1>2 DEF CreateKinds
    <2>. HIDE DEF next, c
    <2>4. QED
        BY <1>1, <2>1, <2>2, <2>3, ReadySound DEF c
<1>7. permits \in BOOLEAN
    BY DEF MayOpenTask, MayAccess, ProjectFits
<1>. HIDE DEF permits, next
<1>8. QED
    BY <1>1, <1>2, <1>6, <1>7, TaskReadKeeps

LEMMA OtherLoads ==
    ASSUME TaskInv, NEW r \in TaskRequests,
           \/ LoadProject(r) \/ LoadToSetStatus(r) \/ LoadToReorder(r) \/ LoadToRemove(r)
           \/ LoadToAssign(r)
    PROVE  TaskInv'
<1>. DEFINE c == taskCall[r]
            ready(news) == [c EXCEPT !.phase = "ready", !.news = news]
            kinds == {"renameProject", "removeProject", "setStatus", "reorder", "remove", "assign"}
<1>1. Begun(r, kinds)
    BY DEF LoadProject, LoadToSetStatus, LoadToReorder, LoadToRemove, LoadToAssign, Begun
<1>2. \E permits \in BOOLEAN, news \in SUBSET Users : TaskRead(r, permits, ready(news))
    <2>1. c.news \in SUBSET Users /\ ready(c.news) = [c EXCEPT !.phase = "ready"]
        BY SameNews
    <2>. HIDE DEF ready
    <2>2. CASE LoadProject(r)
        BY <2>1, <2>2 DEF LoadProject, MayOpenProject, MayAccess
    <2>3. CASE LoadToSetStatus(r)
        BY <2>1, <2>3 DEF LoadToSetStatus, MayOpenTask, MayAccess
    <2>4. CASE LoadToReorder(r)
        BY <2>1, <2>4 DEF LoadToReorder
    <2>5. CASE LoadToRemove(r)
        BY <2>1, <2>5 DEF LoadToRemove, MayOpenTask, MayAccess
    <2>6. CASE LoadToAssign(r)
        <3>. DEFINE t == CHOOSE t \in c.on : TRUE
                    news == c.sent.assignees \ (task[t].assignees \cup {c.sent.actor.sub})
        <3>1. c.sent \in TaskInputs
            BY <2>6, TaskCallFacts DEF LoadToAssign, Begun, TaskCallSound, TaskLivePhases
        <3>2. news \in SUBSET Users
            BY <3>1, TaskInputType
        <3>3. TaskRead(r, MayOpenTask(c.sent.actor, t) /\ c.sent.actor.role # "employee", ready(news))
            BY <2>6 DEF LoadToAssign, ready
        <3>. HIDE DEF news, t
        <3>4. QED
            BY <3>2, <3>3 DEF MayOpenTask, MayAccess
    <2>7. QED
        BY <2>2, <2>3, <2>4, <2>5, <2>6
<1>3. PICK permits \in BOOLEAN, news \in SUBSET Users : TaskRead(r, permits, ready(news))
    BY <1>2
<1>4. ready(news) \in TaskCall /\ TaskCallSound(ready(news)) /\ UpdateSound(ready(news))
      /\ ready(news).on = taskCall[r].on
    BY <1>1, ReadySound DEF Begun, CreateKinds
<1>5. c.phase = "started"
    BY <1>1 DEF Begun
<1>. HIDE DEF ready
<1>6. QED
    BY <1>3, <1>4, <1>5, TaskReadKeeps

\* A notice, or the end of a call that has come to nothing, changes no task.
LEMMA TellKeeps ==
    ASSUME TaskInv, NEW r \in TaskRequests, TellAssignee(r)
    PROVE  TaskInv'
<1>. DEFINE c == taskCall[r]
<1>1. c \in TaskCall /\ TaskCallSound(c) /\ c.phase = "written"
    BY TaskCallFacts DEF TellAssignee
<1>2. PICK u \in c.news : taskCall' = [taskCall EXCEPT ![r] = Written(c, c.on, c.news \ {u})]
    BY DEF TellAssignee
<1>3. /\ UNCHANGED <<project, task, clashed>>
      /\ informed' \in [Tasks -> SUBSET Users] /\ missed' \in [Tasks -> SUBSET Users]
    <2>1. \A v \in c.news : v \in Users
        BY <1>1 DEF TaskCall
    <2>2. ASSUME NEW f \in [Tasks -> SUBSET Users], NEW v \in Users, NEW t
          PROVE  [f EXCEPT ![t] = @ \cup {v}] \in [Tasks -> SUBSET Users]
        OBVIOUS
    <2>3. informed \in [Tasks -> SUBSET Users] /\ missed \in [Tasks -> SUBSET Users]
        BY DEF TaskInv, TasksTypeOK
    <2>. DEFINE t == CHOOSE t \in c.on : TRUE
    <2>4. PICK v \in c.news :
              \/ informed' = [informed EXCEPT ![t] = @ \cup {v}] /\ UNCHANGED missed
              \/ missed' = [missed EXCEPT ![t] = @ \cup {v}] /\ UNCHANGED informed
        BY DEF TellAssignee
    <2>. HIDE DEF t
    <2>5. informed' \in [Tasks -> SUBSET Users] /\ missed' \in [Tasks -> SUBSET Users]
        BY <2>1, <2>2, <2>3, <2>4
    <2>6. QED
        BY <2>5 DEF TellAssignee
<1>. DEFINE next == Written(c, c.on, c.news \ {u})
<1>4. next \in TaskCall /\ TaskCallSound(next) /\ UpdateSound(next) /\ next.on \subseteq c.on
      /\ next.phase \in {"done", "written"}
    <2>1. CASE c.news \ {u} = {}
        BY <2>1, TaskEndedSound DEF Written
    <2>2. CASE c.news \ {u} # {}
        BY <1>1, <2>2 DEF Written, TaskCall, TaskPhases, TaskCallSound, UpdateSound, TaskLivePhases
    <2>3. QED
        BY <2>1, <2>2
<1>. HIDE DEF next
<1>5. taskCall' = [taskCall EXCEPT ![r] = next]
    BY <1>2 DEF next
<1>6. QED
    BY <1>3, <1>4, <1>5, TaskCallMoves

LEMMA TaskStopKeeps ==
    ASSUME TaskInv, NEW r \in TaskRequests, StopTaskCall(r)
    PROVE  TaskInv'
<1>1. taskCall[r] \in TaskCall
    BY TaskCallFacts
<1>2. missed' \in [Tasks -> SUBSET Users]
    BY <1>1 DEF StopTaskCall, TaskInv, TasksTypeOK, TaskCall
<1>3. QED
    BY <1>2, TaskEndedSound, TaskCallMoves DEF StopTaskCall, TaskInv, TasksTypeOK

(***************************************************************************)
(* The steps that write.                                                   *)
(***************************************************************************)

\* The other calls stay what they are, but for what they are known to have missed.
OthersStay(r) ==
    \A q \in TaskRequests \ {r} :
        /\ taskCall'[q].phase = taskCall[q].phase /\ taskCall'[q].sent = taskCall[q].sent
        /\ taskCall'[q].on = taskCall[q].on
        /\ taskCall[q].redated => taskCall'[q].redated

RowsTyped ==
    /\ project \in [Projects -> Project \cup {None}]
    /\ task \in [Tasks -> Task \cup {None}]
    /\ informed \in [Tasks -> SUBSET Users]
    /\ missed \in [Tasks -> SUBSET Users]
    /\ clashed \subseteq Tasks
    /\ taskCall \in [TaskRequests -> TaskCall]

\* Rows appear under the name of the call that writes them.
OnlyNew(r) ==
    \A n \in TaskRequests \ {r} :
        task'[n] # None \/ project'[n] # None => task[n] # None \/ project[n] # None

LEMMA TaskWriteKeeps ==
    ASSUME TaskInv, NEW r \in TaskRequests, TaskCallSound(taskCall'[r]),
           taskCall'[r].phase \in {"unlinked", "written", "done"},
           taskCall'[r].on \subseteq taskCall[r].on \cup {r},
           OthersStay(r), RowsTyped', OnlyNew(r),
           \A q \in TaskRequests \ {r} : UpdateSound(taskCall[q])',
           DatesOrdered'
    PROVE  TaskInv'
<1>1. TasksTypeOK'
    BY DEF TasksTypeOK, RowsTyped
<1>2. ASSUME NEW q \in TaskRequests PROVE TaskCallSound(taskCall[q])' /\ UpdateSound(taskCall[q])'
    <2>1. CASE q = r
        BY <2>1 DEF TaskCallSound, UpdateSound
    <2>2. CASE q # r
        <3>1. TaskCallSound(taskCall[q])
            BY TaskCallFacts
        <3>2. TaskCallSound(taskCall[q])'
            BY <2>2, <3>1 DEF TaskCallSound, OthersStay
        <3>3. QED
            BY <2>2, <3>2
    <2>3. QED
        BY <2>1, <2>2
<1>3. TaskNamesFresh'
    <2> SUFFICES ASSUME NEW n \in TaskRequests, n # r,
                        task'[n] # None \/ project'[n] # None
                        \/ \E q \in TaskRequests : n \in taskCall'[q].on
                 PROVE  taskCall'[n].phase \notin {"idle", "started", "ready"}
        BY DEF TaskNamesFresh
    <2>1. ASSUME NEW q \in TaskRequests, n \in taskCall'[q].on PROVE n \in taskCall[q].on
        BY <2>1 DEF OthersStay
    <2>2. task[n] # None \/ project[n] # None \/ \E q \in TaskRequests : n \in taskCall[q].on
        BY <2>1 DEF OnlyNew
    <2>3. QED
        BY <2>2 DEF TaskInv, TaskNamesFresh, OthersStay
<1>4. QED
    BY <1>1, <1>2, <1>3 DEF TaskInv

\* No dates are written.
LEMMA DatesKept ==
    ASSUME TaskInv, NEW r \in TaskRequests, OthersStay(r), RowsTyped',
           \A t \in Tasks : task'[t] # None =>
               /\ task[t] # None /\ task'[t].start = task[t].start /\ task'[t].due = task[t].due
               /\ t \in clashed => t \in clashed'
    PROVE  DatesOrdered' /\ \A q \in TaskRequests \ {r} : UpdateSound(taskCall[q])'
<1>1. DatesOrdered'
    BY DEF DatesOrdered, OpenTasks, TaskInv
<1>2. ASSUME NEW q \in TaskRequests \ {r} PROVE UpdateSound(taskCall[q])'
    <2>1. UpdateSound(taskCall[q]) /\ taskCall[q] \in TaskCall /\ taskCall'[q] \in TaskCall
        BY TaskCallFacts DEF RowsTyped
    <2>2. taskCall[q].redated \in BOOLEAN /\ taskCall'[q].redated \in BOOLEAN
        BY <2>1 DEF TaskCall
    <2>3. QED
        BY <2>1, <2>2 DEF UpdateSound, OthersStay, OpenTasks, NextInOrder
<1>3. QED
    BY <1>1, <1>2

\* A call that is done, the others being as they were.
LEMMA DoneStep ==
    ASSUME TaskInv, NEW r \in TaskRequests, DoneTaskCall(r)
    PROVE  /\ TaskCallSound(taskCall'[r]) /\ taskCall'[r].phase = "done" /\ taskCall'[r].on = {}
           /\ OthersStay(r) /\ taskCall' \in [TaskRequests -> TaskCall]
BY TaskEndedSound DEF DoneTaskCall, OthersStay, TaskInv, TasksTypeOK

LEMMA InsertProjectKeeps ==
    ASSUME TaskInv, NEW r \in TaskRequests, InsertProject(r)
    PROVE  TaskInv'
<1>. DEFINE sent == taskCall[r].sent
            company == GetCompanyId(sent.actor, CompanySent(sent))
<1>1. /\ project' = [project EXCEPT ![r] = [company |-> company, title |-> sent.title]]
      /\ DoneTaskCall(r) /\ UNCHANGED <<task, informed, missed, clashed>>
    BY DEF InsertProject
<1>2. sent \in TaskInputs /\ ~CompanyRefused(sent.actor, CompanySent(sent))
      /\ sent.title # Absent
    BY TaskCallFacts DEF InsertProject, Ready, TaskCallSound, CreateKinds, TaskLivePhases
<1>3. [company |-> company, title |-> sent.title] \in Project
    BY <1>2, NewCompany, TaskInputType DEF Project
<1>4. RowsTyped'
    BY <1>1, <1>3, DoneStep DEF RowsTyped, TaskInv, TasksTypeOK
<1>5. OnlyNew(r)
    BY <1>1 DEF OnlyNew, TaskInv, TasksTypeOK, Projects
<1>6. DatesOrdered' /\ \A q \in TaskRequests \ {r} : UpdateSound(taskCall[q])'
    BY <1>1, <1>4, DoneStep, DatesKept
<1>7. QED
    BY <1>1, <1>4, <1>5, <1>6, DoneStep, TaskWriteKeeps

LEMMA UpdateProjectKeeps ==
    ASSUME TaskInv, NEW r \in TaskRequests, UpdateProject(r)
    PROVE  TaskInv'
<1>. DEFINE sent == taskCall[r].sent
            p == CHOOSE p \in taskCall[r].on : TRUE
            title == Sent(sent.title, project[p].title)
<1>1. /\ project' = [project EXCEPT ![p].title = title] /\ p \in OpenProjects
      /\ DoneTaskCall(r) /\ UNCHANGED <<task, informed, missed, clashed>>
    BY DEF UpdateProject
<1>2. sent \in TaskInputs
    BY TaskCallFacts DEF UpdateProject, Ready, TaskCallSound, TaskLivePhases
<1>. HIDE DEF p
<1>3. p \in Projects /\ project[p] \in Project
    BY <1>1 DEF OpenProjects, TaskInv, TasksTypeOK
<1>4. [project[p] EXCEPT !.title = title] \in Project
    BY <1>2, <1>3, TaskInputType DEF Project, Sent
<1>5. RowsTyped'
    BY <1>1, <1>3, <1>4, DoneStep DEF RowsTyped, TaskInv, TasksTypeOK
<1>6. OnlyNew(r)
    BY <1>1, <1>3, TaskNoRow DEF OnlyNew, TaskInv, TasksTypeOK, Projects
<1>7. DatesOrdered' /\ \A q \in TaskRequests \ {r} : UpdateSound(taskCall[q])'
    BY <1>1, <1>5, DoneStep, DatesKept
<1>8. QED
    BY <1>1, <1>5, <1>6, <1>7, DoneStep, TaskWriteKeeps

\* Taking tasks out of a project keeps them and their dates.
LEMMA UnlinkedRows ==
    ASSUME TaskInv, NEW p
    PROVE  /\ Unlinked(p) \in [Tasks -> Task \cup {None}]
           /\ \A t \in Tasks : Unlinked(p)[t] # None =>
                  /\ task[t] # None /\ Unlinked(p)[t].start = task[t].start
                  /\ Unlinked(p)[t].due = task[t].due
<1>1. ASSUME NEW t \in Tasks, task[t] # None
      PROVE  /\ task[t] \in Task /\ [task[t] EXCEPT !.project = None] \in Task
             /\ [task[t] EXCEPT !.project = None].start = task[t].start
             /\ [task[t] EXCEPT !.project = None].due = task[t].due
    <2>1. task[t] \in Task
        BY <1>1 DEF TaskInv, TasksTypeOK
    <2>2. QED
        BY <2>1 DEF Task
<1>2. QED
    BY <1>1 DEF Unlinked, OpenTasks

LEMMA UnlinkTasksKeeps ==
    ASSUME TaskInv, NEW r \in TaskRequests, UnlinkTasks(r)
    PROVE  TaskInv'
<1>. DEFINE p == CHOOSE p \in taskCall[r].on : TRUE
<1>1. /\ task' = Unlinked(p) /\ taskCall' = [taskCall EXCEPT ![r].phase = "unlinked"]
      /\ UNCHANGED <<project, informed, missed, clashed>>
    BY DEF UnlinkTasks
<1>. HIDE DEF p
<1>2. taskCall[r] \in TaskCall /\ TaskCallSound(taskCall[r]) /\ taskCall[r].phase = "ready"
    BY TaskCallFacts DEF UnlinkTasks, Ready
<1>3. /\ TaskCallSound(taskCall'[r]) /\ taskCall'[r].phase = "unlinked"
      /\ taskCall'[r].on = taskCall[r].on /\ taskCall'[r] \in TaskCall
    BY <1>1, <1>2 DEF TaskCallSound, TaskLivePhases, TaskCall, TaskPhases, TaskInv, TasksTypeOK
<1>4. OthersStay(r) /\ taskCall' \in [TaskRequests -> TaskCall]
    BY <1>1, <1>3 DEF OthersStay, TaskInv, TasksTypeOK
<1>5. RowsTyped'
    BY <1>1, <1>4, UnlinkedRows DEF RowsTyped, TaskInv, TasksTypeOK
<1>6. OnlyNew(r)
    BY <1>1, UnlinkedRows DEF OnlyNew, Tasks
<1>7. DatesOrdered' /\ \A q \in TaskRequests \ {r} : UpdateSound(taskCall[q])'
    BY <1>1, <1>4, <1>5, UnlinkedRows, DatesKept
<1>8. QED
    BY <1>3, <1>4, <1>5, <1>6, <1>7, TaskWriteKeeps

LEMMA DeleteProjectKeeps ==
    ASSUME TaskInv, NEW r \in TaskRequests, DeleteProject(r)
    PROVE  TaskInv'
<1>. DEFINE p == CHOOSE p \in taskCall[r].on : TRUE
<1>1. /\ task' = Unlinked(p) /\ project' = [project EXCEPT ![p] = None] /\ DoneTaskCall(r)
      /\ UNCHANGED <<informed, missed, clashed>>
    BY DEF DeleteProject
<1>. HIDE DEF p
<1>2. RowsTyped'
    BY <1>1, UnlinkedRows, DoneStep DEF RowsTyped, TaskInv, TasksTypeOK
<1>3. OnlyNew(r)
    BY <1>1, UnlinkedRows DEF OnlyNew, Tasks, Projects, TaskInv, TasksTypeOK
<1>4. DatesOrdered' /\ \A q \in TaskRequests \ {r} : UpdateSound(taskCall[q])'
    BY <1>1, <1>2, DoneStep, UnlinkedRows, DatesKept
<1>5. QED
    BY <1>1, <1>2, <1>3, <1>4, DoneStep, TaskWriteKeeps

\* A call that has written tells those who are to be told.
LEMMA TaskWrittenSound ==
    ASSUME NEW c \in TaskCall, c.sent \in TaskInputs, NEW on \in SUBSET Tasks,
           NEW news \in SUBSET Users
    PROVE  /\ Written(c, on, news) \in TaskCall /\ TaskCallSound(Written(c, on, news))
           /\ Written(c, on, news).phase \in {"written", "done"}
           /\ Written(c, on, news).on \subseteq on
<1>1. CASE news = {}
    BY <1>1, TaskEndedSound DEF Written
<1>2. CASE news # {}
    BY <1>2 DEF Written, TaskCall, TaskPhases, TaskCallSound, TaskLivePhases
<1>3. QED
    BY <1>1, <1>2

LEMMA NewRowType ==
    ASSUME NEW sent \in TaskInputs, ~CompanyRefused(sent.actor, CompanySent(sent))
    PROVE  NewTask(sent) \in Task /\ OwnTask(sent) \in Task
           /\ NewTask(sent).start = Sent(sent.start, None)
           /\ NewTask(sent).due = Sent(sent.due, None)
           /\ OwnTask(sent).start = None
<1>1. NewTask(sent) \in Task
    BY NewCompany, TaskInputType DEF NewTask, Task, Sent, TaskStatuses
<1>2. QED
    BY <1>1, TaskInputType DEF NewTask, OwnTask, Task, TaskStatuses

LEMMA InsertTaskKeeps ==
    ASSUME TaskInv, NEW r \in TaskRequests, InsertTask(r)
    PROVE  TaskInv'
<1>. DEFINE c == taskCall[r]
            sent == c.sent
            row == IF sent.kind = "create" THEN NewTask(sent) ELSE OwnTask(sent)
            news == row.assignees \ {sent.actor.sub}
<1>1. /\ c.phase = "ready" /\ sent.kind \in {"create", "createSelf"}
      /\ task' = [task EXCEPT ![r] = row]
      /\ informed' = [informed EXCEPT ![r] = row.assignees \cap {sent.actor.sub}]
      /\ taskCall' = [taskCall EXCEPT ![r] = Written(c, {r}, news)]
      /\ UNCHANGED <<project, missed, clashed>>
    BY DEF InsertTask, Ready
<1>2. c \in TaskCall /\ sent \in TaskInputs /\ ~CompanyRefused(sent.actor, CompanySent(sent))
      /\ (sent.kind = "create" => InOrder(Sent(sent.start, None), Sent(sent.due, None)))
    BY <1>1, TaskCallFacts DEF TaskCallSound, CreateKinds, TaskLivePhases
<1>3. row \in Task /\ InOrder(row.start, row.due)
    BY <1>1, <1>2, NewRowType DEF InOrder
<1>. HIDE DEF row
<1>4. news \in SUBSET Users /\ row.assignees \cap {sent.actor.sub} \in SUBSET Users
      /\ r \in Tasks
    BY <1>3 DEF Task, Tasks
<1>. DEFINE next == Written(c, {r}, news)
<1>5. next \in TaskCall /\ TaskCallSound(next) /\ next.phase \in {"written", "done"}
      /\ next.on \subseteq {r}
    BY <1>2, <1>4, TaskWrittenSound
<1>. HIDE DEF next
<1>6. taskCall'[r] = next /\ OthersStay(r) /\ taskCall' \in [TaskRequests -> TaskCall]
    BY <1>1, <1>5 DEF OthersStay, TaskInv, TasksTypeOK, next
<1>7. RowsTyped'
    BY <1>1, <1>3, <1>4, <1>6 DEF RowsTyped, TaskInv, TasksTypeOK
<1>8. OnlyNew(r)
    BY <1>1 DEF OnlyNew, TaskInv, TasksTypeOK, Tasks
<1>9. \A t \in Tasks \ {r} : task'[t] = task[t]
    BY <1>1 DEF TaskInv, TasksTypeOK
<1>10. DatesOrdered'
    <2>1. task'[r] = row
        BY <1>1, <1>4 DEF TaskInv, TasksTypeOK
    <2>2. QED
        BY <1>1, <1>3, <1>9, <2>1 DEF DatesOrdered, OpenTasks, TaskInv
<1>11. ASSUME NEW q \in TaskRequests \ {r} PROVE UpdateSound(taskCall[q])'
    <2>1. r \notin taskCall[q].on
        BY <1>1 DEF TaskInv, TaskNamesFresh
    <2>2. taskCall'[q] = taskCall[q] /\ UpdateSound(taskCall[q])
        BY <1>1, TaskCallFacts DEF TaskInv, TasksTypeOK
    <2>3. \A t \in taskCall[q].on \cap OpenTasks' : t \in OpenTasks /\ task'[t] = task[t]
        BY <1>9, <2>1 DEF OpenTasks
    <2>4. QED
        BY <2>2, <2>3 DEF UpdateSound, NextInOrder
<1>12. QED
    BY <1>5, <1>6, <1>7, <1>8, <1>10, <1>11, TaskWriteKeeps

\* What an update makes known to the other calls on the task.
LEMMA PastType ==
    ASSUME NEW calls \in [TaskRequests -> TaskCall], NEW t,
           NEW redated \in BOOLEAN, NEW reassigned \in BOOLEAN
    PROVE  Past(calls, t, redated, reassigned) \in [TaskRequests -> TaskCall]
<1>1. ASSUME NEW c \in TaskCall
      PROVE  [c EXCEPT !.redated = @ \/ redated, !.reassigned = @ \/ reassigned] \in TaskCall
    BY DEF TaskCall
<1>2. QED
    BY <1>1 DEF Past

\* An update that has loaded the dates there are leaves them in order; one that has not
\* is known to have clashed.
LEMMA UpdateTaskKeeps ==
    ASSUME TaskInv, NEW r \in TaskRequests, UpdateTask(r)
    PROVE  TaskInv'
<1>. DEFINE c == taskCall[r]
            sent == c.sent
            t == CHOOSE t \in c.on : TRUE
            row == [task[t] EXCEPT !.project = Sent(c.sent.project, @), !.start = Sent(c.sent.start, @),
                               !.due = Sent(c.sent.due, @), !.status = Sent(c.sent.status, @)]
            dated == Dated(sent)
            ended == [taskCall EXCEPT ![r] = EndedTaskCall("done")]
<1>1. /\ c.phase = "ready" /\ sent.kind = "update" /\ t \in OpenTasks
      /\ task' = [task EXCEPT ![t] = row]
      /\ clashed' = CASE dated /\ c.redated -> clashed \cup {t}
                      [] dated /\ ~c.redated -> clashed \ {t}
                      [] OTHER -> clashed
      /\ taskCall' = Past(ended, t, dated, FALSE)
      /\ UNCHANGED <<project, informed, missed>>
    BY DEF UpdateTask, Ready, Dated
<1>2. c \in TaskCall /\ TaskCallSound(c) /\ UpdateSound(c) /\ sent \in TaskInputs
    BY <1>1, TaskCallFacts DEF TaskCallSound, TaskLivePhases
<1>3. c.on = {t}
    <2>1. \E k \in Tasks : c.on = {k}
        BY <1>1, <1>2 DEF TaskCallSound, OneTaskKinds
    <2>2. QED
        BY <2>1
<1>. HIDE DEF t
<1>4. t \in Tasks /\ task[t] \in Task
    BY <1>1 DEF OpenTasks, TaskInv, TasksTypeOK
<1>5. /\ row \in Task /\ row.start = Sent(sent.start, task[t].start)
      /\ row.due = Sent(sent.due, task[t].due)
    BY <1>2, <1>4, TaskInputType DEF Task, Sent
<1>. HIDE DEF row
<1>6. ended \in [TaskRequests -> TaskCall] /\ ended[r] = EndedTaskCall("done")
      /\ \A q \in TaskRequests \ {r} : ended[q] = taskCall[q]
    BY TaskEndedSound DEF TaskInv, TasksTypeOK
<1>7. dated \in BOOLEAN
    BY DEF Dated
<1>. HIDE DEF ended, dated
<1>8. /\ taskCall' \in [TaskRequests -> TaskCall] /\ OthersStay(r)
      /\ taskCall'[r] = EndedTaskCall("done")
      /\ \A q \in TaskRequests \ {r} :
             dated /\ t \in taskCall[q].on /\ taskCall[q].phase = "ready" => taskCall'[q].redated
    <2>1. taskCall' \in [TaskRequests -> TaskCall]
        BY <1>1, <1>6, <1>7, PastType
    <2>2. ASSUME NEW q \in TaskRequests \ {r}
          PROVE  /\ taskCall'[q].phase = taskCall[q].phase /\ taskCall'[q].sent = taskCall[q].sent
                 /\ taskCall'[q].on = taskCall[q].on
                 /\ taskCall[q].redated => taskCall'[q].redated
                 /\ dated /\ t \in taskCall[q].on /\ taskCall[q].phase = "ready"
                        => taskCall'[q].redated
        <3>. DEFINE past == [ended[q] EXCEPT !.redated = @ \/ dated, !.reassigned = @ \/ FALSE]
                    overtaken == t \in ended[q].on /\ ended[q].phase \in {"ready", "written"}
        <3>1. taskCall'[q] = IF overtaken THEN past ELSE ended[q]
            BY <1>1 DEF Past
        <3>2. ended[q] = taskCall[q] /\ ended[q] \in TaskCall
            BY <1>6
        <3>3. /\ past.phase = ended[q].phase /\ past.sent = ended[q].sent
              /\ past.on = ended[q].on /\ past.redated = (ended[q].redated \/ dated)
            BY <3>2 DEF TaskCall
        <3>. HIDE DEF past
        <3>4. CASE overtaken
            BY <3>1, <3>2, <3>3, <3>4
        <3>5. CASE ~overtaken
            BY <3>1, <3>2, <3>5
        <3>6. QED
            BY <3>4, <3>5
    <2>3. taskCall'[r] = EndedTaskCall("done")
        <3>1. ended[r].phase = "done"
            BY <1>6, TaskEndedSound
        <3>2. QED
            BY <1>1, <1>6, <3>1 DEF Past
    <2>4. QED
        BY <2>1, <2>2, <2>3 DEF OthersStay
<1>9. RowsTyped'
    BY <1>1, <1>4, <1>5, <1>8 DEF RowsTyped, TaskInv, TasksTypeOK
<1>10. task'[t] = row /\ \A k \in Tasks \ {t} : task'[k] = task[k]
    BY <1>1, <1>4 DEF TaskInv, TasksTypeOK
<1>11. OnlyNew(r)
    BY <1>1, <1>10 DEF OnlyNew, OpenTasks, Tasks
<1>12. ~dated => row.start = task[t].start /\ row.due = task[t].due
    BY <1>5 DEF dated, Dated, Sent
<1>13. DatesOrdered'
    <2> SUFFICES ASSUME NEW k \in Tasks, task'[k] # None, k \notin clashed'
                 PROVE  InOrder(task'[k].start, task'[k].due)
        BY DEF DatesOrdered, OpenTasks
    <2>1. CASE k # t
        <3>1. k \notin clashed
            BY <1>1, <2>1
        <3>2. QED
            BY <1>10, <2>1, <3>1 DEF TaskInv, DatesOrdered, OpenTasks
    <2>2. CASE k = t /\ dated
        <3>1. ~c.redated
            BY <1>1, <2>2
        <3>2. NextInOrder(sent, task[t])
            BY <1>1, <1>2, <1>3, <2>2, <3>1 DEF UpdateSound, dated
        <3>3. QED
            BY <1>5, <1>10, <2>2, <3>2 DEF NextInOrder
    <2>3. CASE k = t /\ ~dated
        <3>1. t \notin clashed
            BY <1>1, <2>3
        <3>2. InOrder(task[t].start, task[t].due)
            BY <1>1, <3>1 DEF TaskInv, DatesOrdered
        <3>3. QED
            BY <1>10, <1>12, <2>3, <3>2
    <2>4. QED
        BY <2>1, <2>2, <2>3
<1>14. ASSUME NEW q \in TaskRequests \ {r} PROVE UpdateSound(taskCall[q])'
    <2>1. UpdateSound(taskCall[q]) /\ taskCall[q] \in TaskCall /\ taskCall'[q] \in TaskCall
        BY <1>8, TaskCallFacts
    <2> SUFFICES ASSUME taskCall'[q].phase = "ready", taskCall'[q].sent.kind = "update",
                        ~taskCall'[q].redated, Dated(taskCall'[q].sent),
                        NEW k \in taskCall'[q].on, k \in Tasks, task'[k] # None
                 PROVE  NextInOrder(taskCall'[q].sent, task'[k])
        BY DEF UpdateSound, OpenTasks, NextInOrder
    <2>2. /\ taskCall[q].phase = "ready" /\ taskCall[q].sent = taskCall'[q].sent
          /\ ~taskCall[q].redated /\ k \in taskCall[q].on
        BY <1>8 DEF OthersStay
    <2>3. k \in OpenTasks
        BY <1>1, <1>10 DEF OpenTasks
    <2>4. NextInOrder(taskCall[q].sent, task[k])
        BY <2>1, <2>2, <2>3 DEF UpdateSound
    <2>5. task'[k].start = task[k].start /\ task'[k].due = task[k].due
        <3>1. CASE k = t
            BY <1>8, <1>10, <1>12, <2>2, <3>1
        <3>2. CASE k # t
            BY <1>10, <3>2
        <3>3. QED
            BY <3>1, <3>2
    <2>6. QED
        BY <2>2, <2>4, <2>5 DEF NextInOrder
<1>15. QED
    BY <1>8, <1>9, <1>11, <1>13, <1>14, TaskEndedSound, TaskWriteKeeps

LEMMA SetStatusKeeps ==
    ASSUME TaskInv, NEW r \in TaskRequests, SetStatus(r)
    PROVE  TaskInv'
<1>. DEFINE c == taskCall[r]
            row(t) == [task[t] EXCEPT !.status = Sent(c.sent.status, @)]
<1>1. /\ task' = [t \in Tasks |-> IF t \in c.on THEN row(t) ELSE task[t]]
      /\ c.on \subseteq OpenTasks /\ DoneTaskCall(r)
      /\ UNCHANGED <<project, informed, missed, clashed>>
    BY DEF SetStatus
<1>2. c.sent \in TaskInputs
    BY TaskCallFacts DEF SetStatus, Ready, TaskCallSound, TaskLivePhases
<1>3. ASSUME NEW t \in Tasks, task[t] # None
      PROVE  row(t) \in Task /\ row(t).start = task[t].start /\ row(t).due = task[t].due
    <2>1. task[t] \in Task
        BY <1>3 DEF TaskInv, TasksTypeOK
    <2>2. QED
        BY <1>2, <2>1, TaskInputType DEF Task, Sent
<1>. HIDE DEF row
<1>4. \A t \in Tasks : t \in c.on => task[t] # None
    BY <1>1 DEF OpenTasks
<1>5. RowsTyped'
    BY <1>1, <1>3, <1>4, DoneStep DEF RowsTyped, TaskInv, TasksTypeOK
<1>6. OnlyNew(r)
    BY <1>1, <1>4 DEF OnlyNew, Tasks
<1>7. DatesOrdered' /\ \A q \in TaskRequests \ {r} : UpdateSound(taskCall[q])'
    BY <1>1, <1>3, <1>4, <1>5, DoneStep, DatesKept
<1>8. QED
    BY <1>1, <1>5, <1>6, <1>7, DoneStep, TaskWriteKeeps

LEMMA ReplaceAssigneesKeeps ==
    ASSUME TaskInv, NEW r \in TaskRequests, ReplaceAssignees(r)
    PROVE  TaskInv'
<1>. DEFINE c == taskCall[r]
            t == CHOOSE t \in c.on : TRUE
            new == c.sent.assignees
            stay == task[t].assignees \cap new
            next == Written(c, {t}, c.news)
            row == [task[t] EXCEPT !.assignees = new]
<1>1. /\ t \in OpenTasks /\ c.sent.kind = "assign" /\ c.phase = "ready"
      /\ task' = [task EXCEPT ![t] = row]
      /\ informed' = [informed EXCEPT ![t] = (@ \cap stay) \cup (new \cap {c.sent.actor.sub})]
      /\ missed' = [missed EXCEPT ![t] = IF c.reassigned THEN new ELSE @ \cap stay]
      /\ taskCall' = [Past(taskCall, t, FALSE, TRUE) EXCEPT ![r] = next]
      /\ UNCHANGED <<project, clashed>>
    BY DEF ReplaceAssignees, Ready
<1>2. c \in TaskCall /\ c.sent \in TaskInputs /\ c.news \in SUBSET Users
    BY <1>1, TaskCallFacts DEF TaskCallSound, TaskLivePhases, TaskCall
<1>3. t \in Tasks /\ task[t] \in Task /\ new \subseteq Users
    BY <1>1, <1>2, TaskInputType DEF OpenTasks, TaskInv, TasksTypeOK
<1>4. c.on = {t}
    <2>1. \E k \in Tasks : c.on = {k}
        BY <1>1, TaskCallFacts DEF TaskCallSound, OneTaskKinds
    <2>2. QED
        BY <2>1
<1>. HIDE DEF t
<1>5. row \in Task /\ row.start = task[t].start /\ row.due = task[t].due
    BY <1>3 DEF Task
<1>6. next \in TaskCall /\ TaskCallSound(next) /\ next.phase \in {"written", "done"}
      /\ next.on \subseteq c.on
    BY <1>2, <1>3, <1>4, TaskWrittenSound
<1>. HIDE DEF next, row
<1>7. /\ taskCall' \in [TaskRequests -> TaskCall] /\ taskCall'[r] = next /\ OthersStay(r)
    <2>1. taskCall \in [TaskRequests -> TaskCall]
        BY DEF TaskInv, TasksTypeOK
    <2>. DEFINE past == Past(taskCall, t, FALSE, TRUE)
    <2>2. past \in [TaskRequests -> TaskCall]
        BY <2>1, PastType
    <2>3. ASSUME NEW q \in TaskRequests
          PROVE  /\ past[q].phase = taskCall[q].phase /\ past[q].sent = taskCall[q].sent
                 /\ past[q].on = taskCall[q].on /\ (taskCall[q].redated => past[q].redated)
        <3>. DEFINE marked == [taskCall[q] EXCEPT !.redated = @ \/ FALSE, !.reassigned = @ \/ TRUE]
        <3>1. past[q] \in {marked, taskCall[q]}
            BY DEF Past
        <3>2. taskCall[q] \in TaskCall
            BY <2>1
        <3>3. /\ marked.phase = taskCall[q].phase /\ marked.sent = taskCall[q].sent
              /\ marked.on = taskCall[q].on /\ marked.redated = (taskCall[q].redated \/ FALSE)
            BY <3>2 DEF TaskCall
        <3>. HIDE DEF marked
        <3>4. QED
            BY <3>1, <3>3
    <2>4. taskCall' = [past EXCEPT ![r] = next]
        BY <1>1
    <2>. HIDE DEF past
    <2>5. QED
        BY <1>6, <2>2, <2>3, <2>4 DEF OthersStay
<1>8. RowsTyped'
    <2>1. task' \in [Tasks -> Task \cup {None}]
        BY <1>1, <1>5 DEF TaskInv, TasksTypeOK
    <2>2. informed' \in [Tasks -> SUBSET Users] /\ missed' \in [Tasks -> SUBSET Users]
        BY <1>1, <1>3 DEF TaskInv, TasksTypeOK
    <2>3. QED
        BY <1>1, <1>7, <2>1, <2>2 DEF RowsTyped, TaskInv, TasksTypeOK
<1>9. task'[t] = row /\ \A k \in Tasks \ {t} : task'[k] = task[k]
    BY <1>1, <1>3 DEF TaskInv, TasksTypeOK
<1>10. OnlyNew(r)
    BY <1>1, <1>9 DEF OnlyNew, OpenTasks, Tasks
<1>11. DatesOrdered' /\ \A q \in TaskRequests \ {r} : UpdateSound(taskCall[q])'
    <2>1. \A k \in Tasks : task'[k] # None =>
               /\ task[k] # None /\ task'[k].start = task[k].start /\ task'[k].due = task[k].due
               /\ k \in clashed => k \in clashed'
        BY <1>1, <1>5, <1>9 DEF OpenTasks
    <2>2. QED
        BY <1>7, <1>8, <2>1, DatesKept
<1>12. QED
    BY <1>6, <1>7, <1>8, <1>10, <1>11, TaskWriteKeeps

LEMMA DeleteTaskKeeps ==
    ASSUME TaskInv, NEW r \in TaskRequests, DeleteTask(r)
    PROVE  TaskInv'
<1>. DEFINE t == CHOOSE t \in taskCall[r].on : TRUE
<1>1. /\ t \in OpenTasks /\ task' = [task EXCEPT ![t] = None]
      /\ informed' = [informed EXCEPT ![t] = {}] /\ missed' = [missed EXCEPT ![t] = {}]
      /\ clashed' = clashed \ {t} /\ DoneTaskCall(r) /\ UNCHANGED project
    BY DEF DeleteTask
<1>. HIDE DEF t
<1>2. RowsTyped'
    BY <1>1, DoneStep DEF RowsTyped, TaskInv, TasksTypeOK
<1>3. \A k \in Tasks : task'[k] # None => k # t /\ task'[k] = task[k]
    BY <1>1 DEF TaskInv, TasksTypeOK
<1>4. OnlyNew(r)
    BY <1>1, <1>3 DEF OnlyNew, Tasks
<1>5. DatesOrdered' /\ \A q \in TaskRequests \ {r} : UpdateSound(taskCall[q])'
    BY <1>1, <1>2, <1>3, DoneStep, DatesKept
<1>6. QED
    BY <1>1, <1>2, <1>4, <1>5, DoneStep, TaskWriteKeeps

(***************************************************************************)
(* The theorems.                                                           *)
(***************************************************************************)
LEMMA NextInv == TaskInv /\ [TasksNext]_taskVars => TaskInv'
<1>. SUFFICES ASSUME TaskInv, [TasksNext]_taskVars PROVE TaskInv'
    OBVIOUS
<1>1. ASSUME NEW r \in TaskRequests,
             \/ StartTaskCall(r) \/ CheckNewProject(r) \/ LoadProject(r) \/ CheckNewTask(r)
             \/ LoadToUpdate(r) \/ LoadToSetStatus(r) \/ LoadToAssign(r) \/ LoadToReorder(r)
             \/ LoadToRemove(r) \/ TellAssignee(r) \/ StopTaskCall(r)
      PROVE  TaskInv'
    BY <1>1, TaskStartKeeps, NewRowLoads, UpdateLoad, OtherLoads, TellKeeps, TaskStopKeeps
<1>2. ASSUME NEW r \in TaskRequests,
             \/ InsertProject(r) \/ UpdateProject(r) \/ UnlinkTasks(r) \/ DeleteProject(r)
             \/ InsertTask(r) \/ UpdateTask(r) \/ SetStatus(r) \/ ReplaceAssignees(r)
             \/ DeleteTask(r)
      PROVE  TaskInv'
    BY <1>2, InsertProjectKeeps, UpdateProjectKeeps, UnlinkTasksKeeps, DeleteProjectKeeps,
       InsertTaskKeeps, UpdateTaskKeeps, SetStatusKeeps, ReplaceAssigneesKeeps, DeleteTaskKeeps
<1>3. CASE UNCHANGED taskVars
    BY <1>3 DEF taskVars, TaskInv, TasksTypeOK, TaskCallSound, UpdateSound, TaskNamesFresh, DatesOrdered,
                OpenTasks, NextInOrder
<1>4. QED
    BY <1>1, <1>2, <1>3 DEF TasksNext

\* Whatever is sent, and however calls on tasks and projects overlap, the rows are those of
\* a company, with users, dates and projects where there are any.
THEOREM TasksTypeCorrect == TasksSpec => []TasksTypeOK
<1>1. TaskInv => TasksTypeOK
    BY DEF TaskInv
<1>2. QED
    BY <1>1, TaskInitInv, NextInv, PTL DEF TasksSpec

\* create and update leave no task that is due before it starts, for any number of tasks
\* and calls, unless two calls write the dates of one task and one of them did not see
\* what the other wrote.
THEOREM DatesCorrect == TasksSpec => []DatesOrdered
<1>1. TaskInv => DatesOrdered
    BY DEF TaskInv
<1>2. QED
    BY <1>1, TaskInitInv, NextInv, PTL DEF TasksSpec

(***************************************************************************)
(* Who has been told.  The assignees an assignment loaded are those there  *)
(* are, or another call is known to have replaced them; so at most one     *)
(* call is telling the assignees of a task of what still holds.            *)
(***************************************************************************)
ToldSound(c) ==
    /\ c.phase = "written" => \E t \in Tasks : c.on = {t}
    /\ ~c.reassigned => \A t \in c.on \cap OpenTasks :
           /\ c.phase = "ready" /\ c.sent.kind = "assign" =>
                  c.news = c.sent.assignees \ (task[t].assignees \cup {c.sent.actor.sub})
           /\ c.phase = "written" => c.news \subseteq task[t].assignees

Telling(c, t) == c.phase = "written" /\ t \in c.on /\ ~c.reassigned

ToldInv ==
    /\ \A q \in TaskRequests : ToldSound(taskCall[q])
    /\ \A t \in OpenTasks : informed[t] \subseteq task[t].assignees
    /\ \A q, r \in TaskRequests, t \in Tasks :
           Telling(taskCall[q], t) /\ Telling(taskCall[r], t) => q = r
    /\ AssigneesTold

\* A call that another one has left as it was.
Stays(c, next) ==
    /\ next.phase = c.phase /\ next.sent = c.sent /\ next.on = c.on /\ next.news = c.news
    /\ next.reassigned = c.reassigned

\* Steps that neither replace assignees nor tell anybody, and give up no notice without
\* its being missed.
LEMMA TaskQuietStep ==
    ASSUME TaskInv, ToldInv, NEW r \in TaskRequests,
           \A q \in TaskRequests \ {r} : Stays(taskCall[q], taskCall'[q]),
           taskCall'[r].phase # "written", ToldSound(taskCall[r])',
           \A t \in Tasks : informed'[t] \subseteq informed[t],
           \A t \in Tasks : task'[t] # None =>
               /\ task[t] # None /\ task'[t].assignees = task[t].assignees
               /\ informed'[t] = informed[t] /\ missed[t] \subseteq missed'[t]
               /\ taskCall[r].phase = "written" /\ t \in taskCall[r].on =>
                      taskCall[r].news \subseteq missed'[t]
    PROVE  ToldInv'
<1>1. ASSUME NEW q \in TaskRequests PROVE ToldSound(taskCall[q])'
    <2>1. CASE q = r
        BY <2>1
    <2>2. CASE q # r
        <3>1. ToldSound(taskCall[q]) /\ Stays(taskCall[q], taskCall'[q])
            BY <2>2 DEF ToldInv
        <3>2. QED
            BY <3>1 DEF ToldSound, Stays, OpenTasks
    <2>3. QED
        BY <2>1, <2>2
<1>2. \A t \in OpenTasks' : informed'[t] \subseteq task'[t].assignees
    BY DEF ToldInv, OpenTasks
<1>3. \A q \in TaskRequests, t \in Tasks :
          Telling(taskCall'[q], t) => q # r /\ Telling(taskCall[q], t)
    BY DEF Telling, Stays
<1>4. AssigneesTold'
    <2>1. ASSUME NEW t \in Tasks, task'[t] # None, NEW u \in Users, u \in task'[t].assignees
          PROVE  \/ u \in informed'[t] \cup missed'[t]
                 \/ \E q \in TaskRequests : /\ taskCall'[q].phase = "written"
                                            /\ t \in taskCall'[q].on /\ u \in taskCall'[q].news
        <3>1. /\ task[t] # None /\ u \in task[t].assignees /\ t \in OpenTasks
              /\ informed'[t] = informed[t] /\ missed[t] \subseteq missed'[t]
            BY <2>1 DEF OpenTasks
        <3>2. CASE u \in informed[t] \cup missed[t]
            BY <3>1, <3>2
        <3>3. CASE u \notin informed[t] \cup missed[t]
            <4>1. PICK q \in TaskRequests : /\ taskCall[q].phase = "written"
                                            /\ t \in taskCall[q].on /\ u \in taskCall[q].news
                BY <3>1, <3>3 DEF ToldInv, AssigneesTold
            <4>2. CASE q = r
                BY <2>1, <4>1, <4>2
            <4>3. CASE q # r
                BY <4>1, <4>3 DEF Stays
            <4>4. QED
                BY <4>2, <4>3
        <3>4. QED
            BY <3>2, <3>3
    <2>2. ASSUME NEW q \in TaskRequests, NEW t \in Tasks, Telling(taskCall'[q], t)
          PROVE  taskCall'[q].news \cap informed'[t] = {}
        <3>1. q # r /\ Telling(taskCall[q], t) /\ taskCall'[q].news = taskCall[q].news
            BY <1>3, <2>2 DEF Stays
        <3>2. taskCall[q].news \cap informed[t] = {}
            BY <3>1 DEF ToldInv, AssigneesTold, Telling
        <3>3. QED
            BY <3>1, <3>2
    <2>3. QED
        BY <2>1, <2>2 DEF AssigneesTold, OpenTasks, Telling
<1>5. QED
    BY <1>1, <1>2, <1>3, <1>4 DEF ToldInv

LEMMA MovesTold ==
    ASSUME TaskInv, ToldInv, NEW r \in TaskRequests, NEW c,
           taskCall' = [taskCall EXCEPT ![r] = c], UNCHANGED <<task, informed, missed>>,
           taskCall[r].phase # "written", c.phase # "written", ToldSound(c)
    PROVE  ToldInv'
<1>1. taskCall'[r] = c /\ \A q \in TaskRequests \ {r} : taskCall'[q] = taskCall[q]
    BY DEF TaskInv, TasksTypeOK
<1>2. ToldSound(taskCall[r])'
    BY <1>1 DEF ToldSound, OpenTasks
<1>3. \A q \in TaskRequests \ {r} : Stays(taskCall[q], taskCall'[q])
    BY <1>1 DEF Stays
<1>4. QED
    BY <1>1, <1>2, <1>3, TaskQuietStep

LEMMA ReadTold ==
    ASSUME TaskInv, ToldInv, NEW r \in TaskRequests, taskCall[r].phase = "started",
           NEW permits \in BOOLEAN, NEW next, TaskRead(r, permits, next),
           next.phase = "ready", permits => ToldSound(next)
    PROVE  ToldInv'
<1>1. EndedTaskCall("refused").phase = "refused" /\ ToldSound(EndedTaskCall("refused"))
    BY TaskEndedSound DEF ToldSound
<1>2. CASE permits
    BY <1>2, MovesTold DEF TaskRead
<1>3. CASE ~permits
    BY <1>1, <1>3, MovesTold DEF TaskRead
<1>4. QED
    BY <1>2, <1>3

\* A call that is ready for anything but an assignment has nobody to tell.
LEMMA ReadyTold ==
    ASSUME TaskInv, NEW r \in TaskRequests, NEW kinds, Begun(r, kinds), "assign" \notin kinds
    PROVE  LET next == [taskCall[r] EXCEPT !.phase = "ready"]
           IN  next.phase = "ready" /\ ToldSound(next) /\ taskCall[r].phase = "started"
<1>. DEFINE next == [taskCall[r] EXCEPT !.phase = "ready"]
<1>1. taskCall[r] \in TaskCall /\ taskCall[r].sent.kind # "assign" /\ taskCall[r].phase = "started"
    BY TaskCallFacts DEF Begun
<1>2. next.phase = "ready" /\ next.sent = taskCall[r].sent
    BY <1>1 DEF TaskCall
<1>. HIDE DEF next
<1>3. ToldSound(next)
    BY <1>1, <1>2 DEF ToldSound
<1>4. QED
    BY <1>1, <1>2, <1>3 DEF next

LEMMA StartTold ==
    ASSUME TaskInv, ToldInv, NEW r \in TaskRequests, StartTaskCall(r)
    PROVE  ToldInv'
<1>1. PICK sent \in TaskInputs, on \in SUBSET (OpenProjects \cup OpenTasks) :
          taskCall' = [taskCall EXCEPT ![r] =
                 [IdleTaskCall EXCEPT !.phase = "started", !.sent = sent, !.on = on]]
    BY DEF StartTaskCall
<1>. DEFINE c == [IdleTaskCall EXCEPT !.phase = "started", !.sent = sent, !.on = on]
<1>2. c.phase = "started"
    BY DEF IdleTaskCall
<1>. HIDE DEF c
<1>3. ToldSound(c)
    BY <1>2 DEF ToldSound
<1>4. taskCall' = [taskCall EXCEPT ![r] = c]
    BY <1>1 DEF c
<1>5. QED
    BY <1>2, <1>3, <1>4, MovesTold DEF StartTaskCall

LEMMA LoadsTold ==
    ASSUME TaskInv, ToldInv, NEW r \in TaskRequests,
           \/ CheckNewProject(r) \/ LoadProject(r) \/ CheckNewTask(r) \/ LoadToUpdate(r)
           \/ LoadToSetStatus(r) \/ LoadToReorder(r) \/ LoadToRemove(r)
    PROVE  ToldInv'
<1>. DEFINE next == [taskCall[r] EXCEPT !.phase = "ready"]
<1>1. \E permits \in BOOLEAN : TaskRead(r, permits, next)
    <2>. HIDE DEF next
    <2>1. CASE CheckNewProject(r)
        BY <2>1 DEF CheckNewProject, CompanyRefused, next
    <2>2. CASE LoadProject(r)
        BY <2>2 DEF LoadProject, MayOpenProject, MayAccess, next
    <2>3. CASE CheckNewTask(r)
        BY <2>3 DEF CheckNewTask, CompanyRefused, next
    <2>4. CASE LoadToUpdate(r)
        BY <2>4 DEF LoadToUpdate, MayOpenTask, MayAccess, ProjectFits, next
    <2>5. CASE LoadToSetStatus(r)
        BY <2>5 DEF LoadToSetStatus, MayOpenTask, MayAccess, next
    <2>6. CASE LoadToReorder(r)
        BY <2>6 DEF LoadToReorder, next
    <2>7. CASE LoadToRemove(r)
        BY <2>7 DEF LoadToRemove, MayOpenTask, MayAccess, next
    <2>8. QED
        BY <2>1, <2>2, <2>3, <2>4, <2>5, <2>6, <2>7
<1>2. Begun(r, {"createProject", "renameProject", "removeProject", "create", "createSelf",
                "update", "setStatus", "reorder", "remove"})
    BY DEF CheckNewProject, LoadProject, CheckNewTask, LoadToUpdate, LoadToSetStatus,
           LoadToReorder, LoadToRemove, Begun
<1>3. next.phase = "ready" /\ ToldSound(next) /\ taskCall[r].phase = "started"
    BY <1>2, ReadyTold
<1>. HIDE DEF next
<1>4. QED
    BY <1>1, <1>3, ReadTold

LEMMA AssignLoadTold ==
    ASSUME TaskInv, ToldInv, NEW r \in TaskRequests, LoadToAssign(r)
    PROVE  ToldInv'
<1>. DEFINE c == taskCall[r]
            t == CHOOSE t \in c.on : TRUE
            news == c.sent.assignees \ (task[t].assignees \cup {c.sent.actor.sub})
            next == [c EXCEPT !.phase = "ready", !.news = news]
            permits == MayOpenTask(c.sent.actor, t) /\ c.sent.actor.role # "employee"
<1>1. TaskRead(r, permits, next) /\ c.phase = "started" /\ c.sent.kind = "assign"
    BY DEF LoadToAssign, Begun
<1>2. c \in TaskCall /\ TaskCallSound(c)
    BY TaskCallFacts
<1>3. c.on = {t}
    <2>1. \E k \in Tasks : c.on = {k}
        BY <1>1, <1>2 DEF TaskCallSound, OneTaskKinds
    <2>2. QED
        BY <2>1
<1>. HIDE DEF t
<1>4. /\ next.phase = "ready" /\ next.sent = c.sent /\ next.on = {t} /\ next.news = news
    BY <1>2, <1>3 DEF TaskCall
<1>5. permits \in BOOLEAN
    BY DEF MayOpenTask, MayAccess
<1>. HIDE DEF next, permits
<1>6. ToldSound(next)
    BY <1>4 DEF ToldSound
<1>7. QED
    BY <1>1, <1>4, <1>5, <1>6, ReadTold

\* A call that is done without a notice to send.
LEMMA DoneTold ==
    ASSUME TaskInv, ToldInv, NEW r \in TaskRequests, taskCall[r].phase # "written",
           DoneTaskCall(r),
           \A t \in Tasks : informed'[t] \subseteq informed[t],
           \A t \in Tasks : task'[t] # None =>
               /\ task[t] # None /\ task'[t].assignees = task[t].assignees
               /\ informed'[t] = informed[t] /\ missed[t] \subseteq missed'[t]
    PROVE  ToldInv'
<1>1. /\ taskCall'[r].phase = "done"
      /\ \A q \in TaskRequests \ {r} : taskCall'[q] = taskCall[q]
    BY TaskEndedSound DEF DoneTaskCall, TaskInv, TasksTypeOK
<1>2. ToldSound(taskCall[r])' /\ \A q \in TaskRequests \ {r} : Stays(taskCall[q], taskCall'[q])
    BY <1>1 DEF ToldSound, Stays
<1>3. QED
    BY <1>1, <1>2, TaskQuietStep

\* Taking a task out of its project, or setting its status, leaves its assignees.
LEMMA SameAssignees ==
    ASSUME TaskInv, NEW t \in Tasks, task[t] # None
    PROVE  /\ \A p : [task[t] EXCEPT !.project = p].assignees = task[t].assignees
           /\ \A status : [task[t] EXCEPT !.status = status].assignees = task[t].assignees
BY DEF TaskInv, TasksTypeOK, Task

LEMMA DoneStepsTold ==
    ASSUME TaskInv, ToldInv, NEW r \in TaskRequests,
           InsertProject(r) \/ UpdateProject(r) \/ DeleteProject(r) \/ SetStatus(r) \/ DeleteTask(r)
    PROVE  ToldInv'
<1>1. taskCall[r].phase # "written" /\ DoneTaskCall(r)
    BY DEF InsertProject, UpdateProject, DeleteProject, SetStatus, DeleteTask, Ready
<1>2. CASE InsertProject(r) \/ UpdateProject(r)
    <2>1. UNCHANGED <<task, informed, missed>>
        BY <1>2 DEF InsertProject, UpdateProject
    <2>2. QED
        BY <1>1, <2>1, DoneTold
<1>3. CASE DeleteProject(r)
    <2>1. UNCHANGED <<informed, missed>> /\ \E p : task' = Unlinked(p)
        BY <1>3 DEF DeleteProject
    <2>2. \A t \in Tasks : task'[t] # None =>
              task[t] # None /\ task'[t].assignees = task[t].assignees
        BY <2>1, SameAssignees DEF Unlinked, OpenTasks
    <2>3. QED
        BY <1>1, <2>1, <2>2, DoneTold
<1>4. CASE SetStatus(r)
    <2>1. /\ UNCHANGED <<informed, missed>> /\ taskCall[r].on \subseteq OpenTasks
          /\ task' = [t \in Tasks |-> IF t \in taskCall[r].on
                                      THEN [task[t] EXCEPT !.status = Sent(taskCall[r].sent.status, @)]
                                      ELSE task[t]]
        BY <1>4 DEF SetStatus
    <2>2. \A t \in Tasks : task'[t] # None =>
              task[t] # None /\ task'[t].assignees = task[t].assignees
        BY <2>1, SameAssignees DEF OpenTasks
    <2>3. QED
        BY <1>1, <2>1, <2>2, DoneTold
<1>5. CASE DeleteTask(r)
    <2>. DEFINE t == CHOOSE t \in taskCall[r].on : TRUE
    <2>1. /\ task' = [task EXCEPT ![t] = None]
          /\ informed' = [informed EXCEPT ![t] = {}] /\ missed' = [missed EXCEPT ![t] = {}]
        BY <1>5 DEF DeleteTask
    <2>. HIDE DEF t
    <2>2. \A k \in Tasks : /\ informed'[k] \subseteq informed[k]
                           /\ task'[k] # None => /\ task'[k] = task[k] /\ informed'[k] = informed[k]
                                                 /\ missed'[k] = missed[k]
        BY <2>1 DEF TaskInv, TasksTypeOK
    <2>3. QED
        BY <1>1, <2>2, DoneTold
<1>6. QED
    BY <1>2, <1>3, <1>4, <1>5

LEMMA UnlinkTold ==
    ASSUME TaskInv, ToldInv, NEW r \in TaskRequests, UnlinkTasks(r)
    PROVE  ToldInv'
<1>1. /\ UNCHANGED <<informed, missed>> /\ \E p : task' = Unlinked(p)
      /\ taskCall' = [taskCall EXCEPT ![r].phase = "unlinked"] /\ taskCall[r].phase = "ready"
    BY DEF UnlinkTasks, Ready
<1>2. \A t \in Tasks : task'[t] # None => task[t] # None /\ task'[t].assignees = task[t].assignees
    BY <1>1, SameAssignees DEF Unlinked, OpenTasks
<1>3. taskCall'[r].phase = "unlinked" /\ \A q \in TaskRequests \ {r} : taskCall'[q] = taskCall[q]
    BY <1>1 DEF TaskInv, TasksTypeOK, TaskCall
<1>4. ToldSound(taskCall[r])' /\ \A q \in TaskRequests \ {r} : Stays(taskCall[q], taskCall'[q])
    BY <1>3 DEF ToldSound, Stays
<1>5. QED
    BY <1>1, <1>2, <1>3, <1>4, TaskQuietStep

LEMMA StopTold ==
    ASSUME TaskInv, ToldInv, NEW r \in TaskRequests, StopTaskCall(r)
    PROVE  ToldInv'
<1>. DEFINE c == taskCall[r]
            t == CHOOSE t \in c.on : TRUE
<1>1. /\ missed' = IF c.phase = "written" THEN [missed EXCEPT ![t] = @ \cup c.news] ELSE missed
      /\ taskCall' = [taskCall EXCEPT ![r] = EndedTaskCall("refused")]
      /\ UNCHANGED <<task, informed>>
    BY DEF StopTaskCall
<1>2. c.phase = "written" => c.on = {t}
    BY DEF ToldInv, ToldSound
<1>. HIDE DEF t
<1>3. /\ taskCall'[r].phase = "refused"
      /\ \A q \in TaskRequests \ {r} : taskCall'[q] = taskCall[q]
    BY <1>1, TaskEndedSound DEF TaskInv, TasksTypeOK
<1>4. ToldSound(taskCall[r])' /\ \A q \in TaskRequests \ {r} : Stays(taskCall[q], taskCall'[q])
    BY <1>3 DEF ToldSound, Stays
<1>5. \A k \in Tasks : /\ missed[k] \subseteq missed'[k]
                       /\ c.phase = "written" /\ k \in c.on => c.news \subseteq missed'[k]
    BY <1>1, <1>2 DEF TaskInv, TasksTypeOK
<1>6. QED
    BY <1>1, <1>3, <1>4, <1>5, TaskQuietStep

\* A call as another that has written task t leaves it: an overtaken one knows that it is.
Follows(c, next, t, reassigned) ==
    /\ next.phase = c.phase /\ next.sent = c.sent /\ next.on = c.on /\ next.news = c.news
    /\ c.reassigned => next.reassigned
    /\ ~reassigned => next.reassigned = c.reassigned
    /\ reassigned /\ t \in c.on /\ c.phase \in {"ready", "written"} => next.reassigned

LEMMA PastStays ==
    ASSUME NEW calls \in [TaskRequests -> TaskCall], NEW t,
           NEW redated \in BOOLEAN, NEW reassigned \in BOOLEAN, NEW q \in TaskRequests
    PROVE  Follows(calls[q], Past(calls, t, redated, reassigned)[q], t, reassigned)
<1>. DEFINE next == Past(calls, t, redated, reassigned)[q]
            past == [calls[q] EXCEPT !.redated = @ \/ redated, !.reassigned = @ \/ reassigned]
            overtaken == t \in calls[q].on /\ calls[q].phase \in {"ready", "written"}
<1>1. next = IF overtaken THEN past ELSE calls[q]
    BY DEF Past
<1>2. calls[q] \in TaskCall
    OBVIOUS
<1>3. /\ past.phase = calls[q].phase /\ past.sent = calls[q].sent /\ past.on = calls[q].on
      /\ past.news = calls[q].news /\ past.reassigned = (calls[q].reassigned \/ reassigned)
      /\ calls[q].reassigned \in BOOLEAN
    BY <1>2 DEF TaskCall
<1>. HIDE DEF past, next
<1>4. CASE overtaken
    BY <1>1, <1>3, <1>4 DEF next, Follows
<1>5. CASE ~overtaken
    BY <1>1, <1>5 DEF next, Follows
<1>6. QED
    BY <1>4, <1>5

LEMMA UpdateTold ==
    ASSUME TaskInv, ToldInv, NEW r \in TaskRequests, UpdateTask(r)
    PROVE  ToldInv'
<1>. DEFINE c == taskCall[r]
            t == CHOOSE t \in c.on : TRUE
            row == [task[t] EXCEPT !.project = Sent(c.sent.project, @), !.start = Sent(c.sent.start, @),
                               !.due = Sent(c.sent.due, @), !.status = Sent(c.sent.status, @)]
            dated == Dated(c.sent)
            ended == [taskCall EXCEPT ![r] = EndedTaskCall("done")]
<1>1. /\ c.phase = "ready" /\ t \in OpenTasks /\ task' = [task EXCEPT ![t] = row]
      /\ taskCall' = Past(ended, t, dated, FALSE)
      /\ UNCHANGED <<project, informed, missed>>
    BY DEF UpdateTask, Ready, Dated
<1>. HIDE DEF t
<1>2. t \in Tasks /\ task[t] \in Task
    BY <1>1 DEF OpenTasks, TaskInv, TasksTypeOK
<1>3. row.assignees = task[t].assignees
    BY <1>2 DEF Task
<1>. HIDE DEF row
<1>4. /\ ended \in [TaskRequests -> TaskCall] /\ ended[r].phase = "done"
      /\ \A q \in TaskRequests \ {r} : ended[q] = taskCall[q]
    BY TaskEndedSound DEF TaskInv, TasksTypeOK
<1>5. dated \in BOOLEAN
    BY DEF Dated
<1>. HIDE DEF ended, dated
<1>0. ASSUME NEW q \in TaskRequests PROVE Follows(ended[q], taskCall'[q], t, FALSE)
    <2>1. Follows(ended[q], Past(ended, t, dated, FALSE)[q], t, FALSE)
        BY <1>4, <1>5, PastStays
    <2>2. QED
        BY <1>1, <2>1
<1>6. ASSUME NEW q \in TaskRequests \ {r} PROVE Stays(taskCall[q], taskCall'[q])
    <2>1. Follows(taskCall[q], taskCall'[q], t, FALSE)
        BY <1>4, <1>0
    <2>2. QED
        BY <2>1 DEF Stays, Follows
<1>7. taskCall'[r].phase = "done"
    <2>1. Follows(ended[r], taskCall'[r], t, FALSE)
        BY <1>0
    <2>2. QED
        BY <1>4, <2>1 DEF Follows
<1>8. ToldSound(taskCall[r])'
    BY <1>7 DEF ToldSound
<1>9. \A k \in Tasks : task'[k] # None => task[k] # None /\ task'[k].assignees = task[k].assignees
    BY <1>1, <1>2, <1>3 DEF OpenTasks, TaskInv, TasksTypeOK
<1>10. QED
    BY <1>1, <1>6, <1>7, <1>8, <1>9, TaskQuietStep

\* A call that tells those in news, or has nobody to tell.
LEMMA WrittenTells ==
    ASSUME NEW c \in TaskCall, NEW on \in SUBSET Tasks, NEW news \in SUBSET Users
    PROVE  /\ Written(c, on, news).phase \in {"written", "done"}
           /\ Written(c, on, news).phase = "written" =>
                  /\ Written(c, on, news).on = on /\ Written(c, on, news).news = news
                  /\ Written(c, on, news).reassigned = c.reassigned
           /\ news # {} => Written(c, on, news).phase = "written"
<1>1. CASE news = {}
    BY <1>1, TaskEndedSound DEF Written
<1>2. CASE news # {}
    <2>. DEFINE next == [c EXCEPT !.phase = "written", !.on = on, !.news = news]
    <2>1. next.phase = "written" /\ next.on = on /\ next.news = news /\ next.reassigned = c.reassigned
        BY DEF TaskCall
    <2>2. QED
        BY <1>2, <2>1 DEF Written
<1>3. QED
    BY <1>1, <1>2

LEMMA InsertTold ==
    ASSUME TaskInv, ToldInv, NEW r \in TaskRequests, InsertTask(r)
    PROVE  ToldInv'
<1>. DEFINE c == taskCall[r]
            sent == c.sent
            row == IF sent.kind = "create" THEN NewTask(sent) ELSE OwnTask(sent)
            own == row.assignees \cap {sent.actor.sub}
            news == row.assignees \ {sent.actor.sub}
            next == Written(c, {r}, news)
<1>1. /\ c.phase = "ready" /\ sent.kind \in {"create", "createSelf"}
      /\ task' = [task EXCEPT ![r] = row] /\ informed' = [informed EXCEPT ![r] = own]
      /\ taskCall' = [taskCall EXCEPT ![r] = next] /\ UNCHANGED missed
    BY DEF InsertTask, Ready
<1>2. c \in TaskCall /\ sent \in TaskInputs /\ ~CompanyRefused(sent.actor, CompanySent(sent))
    BY <1>1, TaskCallFacts DEF TaskCallSound, CreateKinds, TaskLivePhases
<1>3. row \in Task
    BY <1>1, <1>2, NewRowType
<1>. HIDE DEF row
<1>4. news \in SUBSET Users /\ r \in Tasks /\ own \subseteq row.assignees
    BY <1>3 DEF Task, Tasks
<1>5. /\ next.phase \in {"written", "done"}
      /\ next.phase = "written" => next.on = {r} /\ next.news = news
      /\ news # {} => next.phase = "written"
    <2>1. PICK n \in SUBSET Users, on \in SUBSET Tasks : n = news /\ on = {r}
        BY <1>4
    <2>. HIDE DEF c, news
    <2>2. LET w == Written(c, on, n)
          IN  /\ w.phase \in {"written", "done"}
              /\ w.phase = "written" => w.on = on /\ w.news = n
              /\ n # {} => w.phase = "written"
        BY <1>2, WrittenTells
    <2>3. QED
        BY <2>1, <2>2
<1>. HIDE DEF next
<1>6. taskCall'[r] = next /\ \A q \in TaskRequests \ {r} : taskCall'[q] = taskCall[q]
    BY <1>1 DEF TaskInv, TasksTypeOK
<1>7. /\ task'[r] = row /\ informed'[r] = own
      /\ \A t \in Tasks \ {r} : task'[t] = task[t] /\ informed'[t] = informed[t]
    BY <1>1, <1>4 DEF TaskInv, TasksTypeOK
<1>8. \A q \in TaskRequests : r \notin taskCall[q].on
    BY <1>1 DEF TaskInv, TaskNamesFresh
<1>9. ASSUME NEW q \in TaskRequests PROVE ToldSound(taskCall[q])'
    <2>1. CASE q = r
        <3>1. next.phase = "written" =>
                  /\ \E t \in Tasks : next.on = {t}
                  /\ \A t \in next.on : next.news \subseteq task'[t].assignees
            BY <1>4, <1>5, <1>7
        <3>2. QED
            BY <1>5, <1>6, <2>1, <3>1 DEF ToldSound
    <2>2. CASE q # r
        <3>1. ToldSound(taskCall[q]) /\ taskCall'[q] = taskCall[q]
            BY <1>6, <2>2 DEF ToldInv
        <3>2. \A t \in taskCall[q].on \cap OpenTasks' : t \in OpenTasks /\ task'[t] = task[t]
            BY <1>7, <1>8 DEF OpenTasks
        <3>3. QED
            BY <3>1, <3>2 DEF ToldSound
    <2>3. QED
        BY <2>1, <2>2
<1>10. \A t \in OpenTasks' : informed'[t] \subseteq task'[t].assignees
    BY <1>4, <1>7 DEF ToldInv, OpenTasks
<1>11. \A q \in TaskRequests, t \in Tasks : Telling(taskCall'[q], t) =>
           \/ q = r /\ t = r
           \/ q # r /\ t # r /\ Telling(taskCall[q], t)
    BY <1>5, <1>6, <1>8 DEF Telling
<1>12. \A p, q \in TaskRequests, t \in Tasks :
           Telling(taskCall'[p], t) /\ Telling(taskCall'[q], t) => p = q
    BY <1>11 DEF ToldInv
<1>13. AssigneesTold'
    <2>1. ASSUME NEW t \in Tasks, task'[t] # None, NEW u \in Users, u \in task'[t].assignees
          PROVE  \/ u \in informed'[t] \cup missed'[t]
                 \/ \E q \in TaskRequests : /\ taskCall'[q].phase = "written"
                                            /\ t \in taskCall'[q].on /\ u \in taskCall'[q].news
        <3>1. CASE t = r
            <4>1. u \in own \/ u \in news
                BY <1>7, <2>1, <3>1
            <4>2. u \in news => /\ next.phase = "written" /\ r \in next.on /\ u \in next.news
                BY <1>5
            <4>3. QED
                BY <1>6, <1>7, <3>1, <4>1, <4>2
        <3>2. CASE t # r
            <4>1. /\ t \in OpenTasks /\ u \in task[t].assignees /\ informed'[t] = informed[t]
                  /\ missed'[t] = missed[t]
                BY <1>1, <1>7, <2>1, <3>2 DEF OpenTasks
            <4>2. \/ u \in informed[t] \cup missed[t]
                  \/ \E q \in TaskRequests : /\ taskCall[q].phase = "written"
                                             /\ t \in taskCall[q].on /\ u \in taskCall[q].news
                BY <4>1 DEF ToldInv, AssigneesTold
            <4>3. \A q \in TaskRequests : taskCall[q].phase = "written" => taskCall'[q] = taskCall[q]
                BY <1>1, <1>6
            <4>4. QED
                BY <4>1, <4>2, <4>3
        <3>3. QED
            BY <3>1, <3>2
    <2>2. ASSUME NEW q \in TaskRequests, NEW t \in Tasks, Telling(taskCall'[q], t)
          PROVE  taskCall'[q].news \cap informed'[t] = {}
        <3>1. CASE q = r /\ t = r
            BY <1>5, <1>6, <1>7, <2>2, <3>1 DEF Telling
        <3>2. CASE q # r /\ t # r /\ Telling(taskCall[q], t)
            BY <1>6, <1>7, <3>2 DEF ToldInv, AssigneesTold, Telling
        <3>3. QED
            BY <1>11, <2>2, <3>1, <3>2
    <2>3. QED
        BY <2>1, <2>2 DEF AssigneesTold, OpenTasks, Telling
<1>14. QED
    BY <1>9, <1>10, <1>12, <1>13 DEF ToldInv

\* Whoever stays on the task has been told, is missed, or is being told; the call tells
\* the others, unless it did not see who was on the task: then all are missed.
LEMMA ReplaceTold ==
    ASSUME TaskInv, ToldInv, NEW r \in TaskRequests, ReplaceAssignees(r)
    PROVE  ToldInv'
<1>. DEFINE c == taskCall[r]
            t == CHOOSE t \in c.on : TRUE
            new == c.sent.assignees
            me == c.sent.actor.sub
            stay == task[t].assignees \cap new
            row == [task[t] EXCEPT !.assignees = new]
            past == Past(taskCall, t, FALSE, TRUE)
            next == Written(c, {t}, c.news)
<1>1. /\ t \in OpenTasks /\ c.sent.kind = "assign" /\ c.phase = "ready"
      /\ task' = [task EXCEPT ![t] = row]
      /\ informed' = [informed EXCEPT ![t] = (@ \cap stay) \cup (new \cap {me})]
      /\ missed' = [missed EXCEPT ![t] = IF c.reassigned THEN new ELSE @ \cap stay]
      /\ taskCall' = [past EXCEPT ![r] = next]
    BY DEF ReplaceAssignees, Ready
<1>2. c \in TaskCall /\ c.news \in SUBSET Users /\ c.reassigned \in BOOLEAN
    BY TaskCallFacts DEF TaskCall
<1>3. c.on = {t}
    <2>1. \E k \in Tasks : c.on = {k}
        BY <1>1, TaskCallFacts DEF TaskCallSound, OneTaskKinds
    <2>2. QED
        BY <2>1
<1>. HIDE DEF t
<1>4. t \in Tasks /\ task[t] \in Task /\ row.assignees = new
    BY <1>1 DEF OpenTasks, TaskInv, TasksTypeOK, Task
<1>5. ~c.reassigned => c.news = new \ (task[t].assignees \cup {me})
    BY <1>1, <1>3 DEF ToldInv, ToldSound
<1>. HIDE DEF row
<1>6. /\ task'[t].assignees = new
      /\ task'[t] # None => task[t] # None
      /\ informed'[t] = (informed[t] \cap stay) \cup (new \cap {me})
      /\ missed'[t] = IF c.reassigned THEN new ELSE missed[t] \cap stay
      /\ \A k \in Tasks \ {t} : task'[k] = task[k] /\ informed'[k] = informed[k] /\ missed'[k] = missed[k]
    BY <1>1, <1>4 DEF TaskInv, TasksTypeOK, OpenTasks
<1>7. /\ next.phase \in {"written", "done"}
      /\ next.phase = "written" => /\ next.on = {t} /\ next.news = c.news
                                   /\ next.reassigned = c.reassigned
      /\ c.news # {} => next.phase = "written"
    <2>1. PICK on \in SUBSET Tasks : on = {t}
        BY <1>4
    <2>2. PICK n \in SUBSET Users : n = c.news
        BY <1>2
    <2>. HIDE DEF c
    <2>3. LET w == Written(c, on, n)
          IN  /\ w.phase \in {"written", "done"}
              /\ w.phase = "written" => w.on = on /\ w.news = n /\ w.reassigned = c.reassigned
              /\ n # {} => w.phase = "written"
        BY <1>2, WrittenTells
    <2>4. QED
        BY <2>1, <2>2, <2>3
<1>8. /\ taskCall \in [TaskRequests -> TaskCall]
      /\ taskCall'[r] = next
      /\ \A q \in TaskRequests \ {r} : taskCall'[q] = past[q]
    BY <1>1 DEF Past, TaskInv, TasksTypeOK
<1>. HIDE DEF next
<1>9. ASSUME NEW q \in TaskRequests \ {r}
      PROVE  /\ taskCall'[q].phase = taskCall[q].phase /\ taskCall'[q].sent = taskCall[q].sent
             /\ taskCall'[q].on = taskCall[q].on /\ taskCall'[q].news = taskCall[q].news
             /\ taskCall[q].reassigned => taskCall'[q].reassigned
             /\ t \in taskCall[q].on /\ taskCall[q].phase \in {"ready", "written"}
                    => taskCall'[q].reassigned
    <2>1. Follows(taskCall[q], Past(taskCall, t, FALSE, TRUE)[q], t, TRUE)
        BY <1>8, PastStays
    <2>2. QED
        BY <1>8, <2>1 DEF Follows
<1>. HIDE DEF past
<1>10. ASSUME NEW q \in TaskRequests PROVE ToldSound(taskCall[q])'
    <2>1. CASE q = r
        <3>1. next.phase = "written" =>
                  /\ \E k \in Tasks : next.on = {k}
                  /\ ~next.reassigned => \A k \in next.on : next.news \subseteq task'[k].assignees
            BY <1>4, <1>5, <1>6, <1>7
        <3>2. QED
            BY <1>7, <1>8, <2>1, <3>1 DEF ToldSound
    <2>2. CASE q # r
        <3>1. ToldSound(taskCall[q])
            BY DEF ToldInv
        <3>2. \A k \in taskCall'[q].on \cap OpenTasks' :
                  ~taskCall'[q].reassigned /\ taskCall'[q].phase \in {"ready", "written"} =>
                      k \in OpenTasks /\ task'[k] = task[k]
            BY <1>6, <1>9, <2>2 DEF OpenTasks
        <3>3. QED
            BY <1>9, <2>2, <3>1, <3>2 DEF ToldSound
    <2>3. QED
        BY <2>1, <2>2
<1>11. \A k \in OpenTasks' : informed'[k] \subseteq task'[k].assignees
    BY <1>6 DEF ToldInv, OpenTasks
<1>12. \A q \in TaskRequests, k \in Tasks : Telling(taskCall'[q], k) =>
           \/ q = r /\ k = t /\ ~c.reassigned
           \/ q # r /\ k # t /\ Telling(taskCall[q], k)
    BY <1>7, <1>8, <1>9 DEF Telling
<1>13. \A p, q \in TaskRequests, k \in Tasks :
           Telling(taskCall'[p], k) /\ Telling(taskCall'[q], k) => p = q
    BY <1>12 DEF ToldInv
<1>14. AssigneesTold'
    <2>1. ASSUME NEW k \in Tasks, task'[k] # None, NEW u \in Users, u \in task'[k].assignees
          PROVE  \/ u \in informed'[k] \cup missed'[k]
                 \/ \E q \in TaskRequests : /\ taskCall'[q].phase = "written"
                                            /\ k \in taskCall'[q].on /\ u \in taskCall'[q].news
        <3>1. ASSUME NEW v \in Users, k \in OpenTasks, v \in task[k].assignees
              PROVE  \/ v \in informed[k] \cup missed[k]
                     \/ \E q \in TaskRequests : /\ taskCall'[q].phase = "written"
                                                /\ k \in taskCall'[q].on /\ v \in taskCall'[q].news
            <4>1. \/ v \in informed[k] \cup missed[k]
                  \/ \E q \in TaskRequests : /\ taskCall[q].phase = "written"
                                             /\ k \in taskCall[q].on /\ v \in taskCall[q].news
                BY <3>1 DEF ToldInv, AssigneesTold
            <4>2. \A q \in TaskRequests : taskCall[q].phase = "written" => q # r
                BY <1>1
            <4>3. QED
                BY <1>9, <4>1, <4>2
        <3>2. CASE k # t
            BY <1>6, <2>1, <3>1, <3>2 DEF OpenTasks
        <3>3. CASE k = t /\ c.reassigned
            BY <1>6, <2>1, <3>3
        <3>4. CASE k = t /\ ~c.reassigned
            <4>1. u \in new /\ (u \in stay \/ u = me \/ u \in c.news)
                BY <1>5, <1>6, <2>1, <3>4
            <4>2. CASE u \in stay
                BY <1>1, <1>6, <3>1, <3>4, <4>2
            <4>3. CASE u = me
                BY <1>6, <3>4, <4>1, <4>3
            <4>4. CASE u \in c.news
                BY <1>7, <1>8, <3>4, <4>4
            <4>5. QED
                BY <4>1, <4>2, <4>3, <4>4
        <3>5. QED
            BY <3>2, <3>3, <3>4
    <2>2. ASSUME NEW q \in TaskRequests, NEW k \in Tasks, Telling(taskCall'[q], k)
          PROVE  taskCall'[q].news \cap informed'[k] = {}
        <3>1. CASE q = r /\ k = t /\ ~c.reassigned
            BY <1>5, <1>6, <1>7, <1>8, <2>2, <3>1 DEF Telling
        <3>2. CASE q # r /\ k # t /\ Telling(taskCall[q], k)
            BY <1>6, <1>9, <3>2 DEF ToldInv, AssigneesTold, Telling
        <3>3. QED
            BY <1>12, <2>2, <3>1, <3>2
    <2>3. QED
        BY <2>1, <2>2 DEF AssigneesTold, OpenTasks, Telling
<1>15. QED
    BY <1>10, <1>11, <1>13, <1>14 DEF ToldInv

\* A notice that is given reaches the only call that tells of the task as it is; one that
\* fails, or tells of assignees replaced since, is missed.
LEMMA TellTold ==
    ASSUME TaskInv, ToldInv, NEW r \in TaskRequests, TellAssignee(r)
    PROVE  ToldInv'
<1>. DEFINE c == taskCall[r]
            t == CHOOSE t \in c.on : TRUE
<1>1. PICK u \in c.news :
          /\ taskCall' = [taskCall EXCEPT ![r] = Written(c, c.on, c.news \ {u})]
          /\ \/ /\ ~c.reassigned
                /\ informed' = [informed EXCEPT ![t] = @ \cup {u}] /\ UNCHANGED missed
             \/ missed' = [missed EXCEPT ![t] = @ \cup {u}] /\ UNCHANGED informed
    BY DEF TellAssignee
<1>2. c.phase = "written" /\ UNCHANGED task
    BY DEF TellAssignee
<1>3. c \in TaskCall /\ ToldSound(c)
    BY TaskCallFacts DEF ToldInv
<1>4. c.on = {t} /\ t \in Tasks
    BY <1>2, <1>3 DEF ToldSound
<1>. DEFINE next == Written(c, c.on, c.news \ {u})
<1>5. /\ next.phase \in {"written", "done"}
      /\ next.phase = "written" => /\ next.on = {t} /\ next.news = c.news \ {u}
                                   /\ next.reassigned = c.reassigned
      /\ c.news \ {u} # {} => next.phase = "written"
    <2>1. c.on \in SUBSET Tasks /\ c.news \ {u} \in SUBSET Users
        BY <1>3, <1>4 DEF TaskCall
    <2>2. PICK n \in SUBSET Users : n = c.news \ {u}
        BY <2>1
    <2>. HIDE DEF c, t
    <2>3. LET w == Written(c, c.on, n)
          IN  /\ w.phase \in {"written", "done"}
              /\ w.phase = "written" => w.on = c.on /\ w.news = n /\ w.reassigned = c.reassigned
              /\ n # {} => w.phase = "written"
        BY <1>3, <2>1, WrittenTells
    <2>4. QED
        BY <1>4, <2>2, <2>3
<1>. HIDE DEF next, t
<1>6. taskCall'[r] = next /\ \A q \in TaskRequests \ {r} : taskCall'[q] = taskCall[q]
    BY <1>1 DEF TaskInv, TasksTypeOK, next
<1>7. /\ \A k \in Tasks \ {t} : informed'[k] = informed[k] /\ missed'[k] = missed[k]
      /\ \/ ~c.reassigned /\ informed'[t] = informed[t] \cup {u} /\ missed'[t] = missed[t]
         \/ informed'[t] = informed[t] /\ missed'[t] = missed[t] \cup {u}
    BY <1>1, <1>4 DEF TaskInv, TasksTypeOK
<1>8. ASSUME NEW q \in TaskRequests PROVE ToldSound(taskCall[q])'
    <2>1. CASE q = r
        <3>1. next.phase = "written" => c.news \ {u} \subseteq c.news
            OBVIOUS
        <3>2. next.phase = "written" =>
                  /\ \E k \in Tasks : next.on = {k}
                  /\ ~next.reassigned => \A k \in next.on \cap OpenTasks' :
                                              next.news \subseteq task'[k].assignees
            BY <1>2, <1>3, <1>4, <1>5 DEF ToldSound, OpenTasks
        <3>3. QED
            BY <1>5, <1>6, <2>1, <3>2 DEF ToldSound
    <2>2. CASE q # r
        <3>1. ToldSound(taskCall[q]) /\ taskCall'[q] = taskCall[q]
            BY <1>6, <2>2 DEF ToldInv
        <3>2. QED
            BY <1>2, <3>1 DEF ToldSound, OpenTasks
    <2>3. QED
        BY <2>1, <2>2
<1>9. \A k \in OpenTasks' : informed'[k] \subseteq task'[k].assignees
    <2>1. t \in OpenTasks /\ ~c.reassigned => u \in task[t].assignees
        BY <1>1, <1>2, <1>3, <1>4 DEF ToldSound
    <2>2. \A k \in OpenTasks : informed[k] \subseteq task[k].assignees
        BY DEF ToldInv
    <2>3. QED
        BY <1>2, <1>7, <2>1, <2>2 DEF OpenTasks
<1>10. \A q \in TaskRequests, k \in Tasks : Telling(taskCall'[q], k) =>
           /\ Telling(taskCall[q], k)
           /\ q = r => k = t /\ taskCall'[q].news = c.news \ {u}
           /\ q # r => taskCall'[q].news = taskCall[q].news
    BY <1>2, <1>4, <1>5, <1>6 DEF Telling
<1>11. \A p, q \in TaskRequests, k \in Tasks :
           Telling(taskCall'[p], k) /\ Telling(taskCall'[q], k) => p = q
    BY <1>10 DEF ToldInv
<1>12. AssigneesTold'
    <2>1. ASSUME NEW k \in Tasks, task'[k] # None, NEW v \in Users, v \in task'[k].assignees
          PROVE  \/ v \in informed'[k] \cup missed'[k]
                 \/ \E q \in TaskRequests : /\ taskCall'[q].phase = "written"
                                            /\ k \in taskCall'[q].on /\ v \in taskCall'[q].news
        <3>1. k \in OpenTasks /\ v \in task[k].assignees
            BY <1>2, <2>1 DEF OpenTasks
        <3>2. CASE v \in informed[k] \cup missed[k]
            BY <1>7, <3>2
        <3>3. CASE v \notin informed[k] \cup missed[k]
            <4>1. PICK q \in TaskRequests : /\ taskCall[q].phase = "written"
                                            /\ k \in taskCall[q].on /\ v \in taskCall[q].news
                BY <3>1, <3>3 DEF ToldInv, AssigneesTold
            <4>2. CASE q # r
                BY <1>6, <4>1, <4>2
            <4>3. CASE q = r /\ v = u
                BY <1>4, <1>7, <4>1, <4>3
            <4>4. CASE q = r /\ v # u
                BY <1>4, <1>5, <1>6, <4>1, <4>4
            <4>5. QED
                BY <4>2, <4>3, <4>4
        <3>4. QED
            BY <3>2, <3>3
    <2>2. ASSUME NEW q \in TaskRequests, NEW k \in Tasks, Telling(taskCall'[q], k)
          PROVE  taskCall'[q].news \cap informed'[k] = {}
        <3>1. Telling(taskCall[q], k) /\ taskCall[q].news \cap informed[k] = {}
            BY <1>10, <2>2 DEF ToldInv, AssigneesTold, Telling
        <3>2. CASE q = r
            BY <1>7, <1>10, <2>2, <3>1, <3>2
        <3>3. CASE q # r /\ k # t
            BY <1>7, <1>10, <2>2, <3>1, <3>3
        <3>4. CASE q # r /\ k = t
            <4>1. c.reassigned
                <5>1. ~c.reassigned => Telling(c, t)
                    BY <1>2, <1>4 DEF Telling
                <5>2. QED
                    BY <1>4, <3>1, <3>4, <5>1 DEF ToldInv
            <4>2. QED
                BY <1>7, <1>10, <2>2, <3>1, <3>4, <4>1
        <3>5. QED
            BY <3>2, <3>3, <3>4
    <2>3. QED
        BY <2>1, <2>2 DEF AssigneesTold, OpenTasks, Telling
<1>13. QED
    BY <1>8, <1>9, <1>11, <1>12 DEF ToldInv

LEMMA InitTold == TasksInit => ToldInv
<1>. SUFFICES ASSUME TasksInit PROVE ToldInv
    OBVIOUS
<1>1. \A q \in TaskRequests : taskCall[q].phase = "idle"
    BY DEF TasksInit, IdleTaskCall
<1>2. \A t \in OpenTasks : informed[t] = task[t].assignees
    BY DEF TasksInit, OpenTasks
<1>3. \A q \in TaskRequests : ToldSound(taskCall[q])
    BY <1>1 DEF ToldSound
<1>4. AssigneesTold
    BY <1>1, <1>2 DEF AssigneesTold
<1>5. QED
    BY <1>1, <1>2, <1>3, <1>4 DEF ToldInv, Telling

LEMMA NextTold == TaskInv /\ ToldInv /\ [TasksNext]_taskVars => ToldInv'
<1>. SUFFICES ASSUME TaskInv, ToldInv, [TasksNext]_taskVars PROVE ToldInv'
    OBVIOUS
<1>1. ASSUME NEW r \in TaskRequests,
             \/ StartTaskCall(r) \/ CheckNewProject(r) \/ LoadProject(r) \/ CheckNewTask(r)
             \/ LoadToUpdate(r) \/ LoadToSetStatus(r) \/ LoadToAssign(r) \/ LoadToReorder(r)
             \/ LoadToRemove(r) \/ TellAssignee(r) \/ StopTaskCall(r)
      PROVE  ToldInv'
    BY <1>1, StartTold, LoadsTold, AssignLoadTold, TellTold, StopTold
<1>2. ASSUME NEW r \in TaskRequests,
             \/ InsertProject(r) \/ UpdateProject(r) \/ UnlinkTasks(r) \/ DeleteProject(r)
             \/ InsertTask(r) \/ UpdateTask(r) \/ SetStatus(r) \/ ReplaceAssignees(r)
             \/ DeleteTask(r)
      PROVE  ToldInv'
    BY <1>2, DoneStepsTold, UnlinkTold, InsertTold, UpdateTold, ReplaceTold
<1>3. CASE UNCHANGED taskVars
    BY <1>3 DEF taskVars, ToldInv, ToldSound, Telling, AssigneesTold, OpenTasks
<1>4. QED
    BY <1>1, <1>2, <1>3 DEF TasksNext

\* create, assign and notifyUser, for any number of users, tasks and calls: whoever is on a
\* task has been told of it or is about to be, unless the notice failed or an assignment
\* was overtaken by another; and no call tells those who know.
THEOREM AssigneesCorrect == TasksSpec => []AssigneesTold
<1>1. ToldInv => AssigneesTold
    BY DEF ToldInv
<1>2. QED
    BY <1>1, TaskInitInv, NextInv, InitTold, NextTold, PTL DEF TasksSpec
=============================================================================
