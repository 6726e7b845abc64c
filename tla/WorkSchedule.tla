---------------------------- MODULE WorkSchedule ----------------------------
(***************************************************************************)
(* Work schedules, the companies they are attached to, and the users that  *)
(* follow them.  A schedule belongs to one company and may be attached to  *)
(* others; of the schedules attached to a company one may be its default,  *)
(* which the attendance of a user without a schedule falls back to.        *)
(*                                                                         *)
(* A call loads and checks first and writes later.  Several rows are       *)
(* written in one transaction at the database's READ COMMITTED level: an   *)
(* UPDATE ... WHERE picks its rows when it starts, changes those of them   *)
(* that still match when their locks are free, and keeps them locked until *)
(* the commit.  Nobody sees the transaction before that, so it is two      *)
(* steps here: the choice of rows, and everything else at the commit.      *)
(***************************************************************************)
EXTENDS FiniteSets

CONSTANTS
    None,       \* null, no row
    Absent,     \* a field the client left out
    Seeds,      \* schedules there are at the start
    Companies,
    Users,      \* users there are at the start
    Requests,   \* identities of the calls that are made
    Kinds,      \* the endpoints in use, a subset of AllKinds
    Apart       \* sets of endpoints never in flight together for one company or schedule

AllKinds == {"create", "attach", "detach", "setDefault", "assign", "unassign",
             "delete", "editUser", "createUser"}

\* The schedule, the attachment and the user a call creates bear its name; an
\* attachment there is at the start bears the name of its schedule.
Schedules == Seeds \cup Requests
People == Users \cup Requests

ASSUME WorkScheduleAssumption ==
    /\ (Seeds \cup Users) \cap Requests = {}
    /\ Kinds \subseteq AllKinds
    /\ Apart \subseteq SUBSET AllKinds
    /\ {None, Absent} \cap (Schedules \cup Companies \cup People) = {}
    /\ None # Absent

Link == [id : Schedules, isDefault : BOOLEAN]
User == [company : Companies \cup {None}, schedule : Schedules \cup {None}]

Phases == {"idle", "started", "loaded", "ready", "open", "done", "refused"}
InFlightPhases == {"started", "loaded", "ready", "open"}

\* schedule, company, user and isDefault are what the client sent; attached and
\* id what was loaded; seen and staff the rows a transaction's UPDATE picked.
Call == [phase : Phases, kind : AllKinds,
         schedule : Schedules \cup {None, Absent},
         company : Companies \cup {None, Absent},
         user : People \cup {None}, isDefault : BOOLEAN,
         attached : SUBSET Companies, id : Schedules \cup {None},
         seen : SUBSET (Schedules \X Schedules), staff : SUBSET People]

ASSUME NoneIsNoLink == None \notin Link

VARIABLES
    owner,  \* owner[s]: the company that owns schedule s, None if there is no s
    link,   \* link[s][c]: the attachment of s to c, None if there is none
    user,   \* user[u]: the company and the schedule of u, Nobody while there is no u
    call    \* call[r]: the state of request r

vars == <<owner, link, user, call>>

Idle == [phase |-> "idle", kind |-> "create", schedule |-> None, company |-> None,
         user |-> None, isDefault |-> FALSE, attached |-> {}, id |-> None,
         seen |-> {}, staff |-> {}]

TypeOK ==
    /\ owner \in [Schedules -> Companies \cup {None}]
    /\ link \in [Schedules -> [Companies -> Link \cup {None}]]
    /\ user \in [People -> User]
    /\ call \in [Requests -> Call]

Present == {s \in Schedules : owner[s] # None}
IsDefault(s, c) == link[s][c] # None /\ link[s][c].isDefault
Defaults(c) == {s \in Schedules : IsDefault(s, c)}
InFlight(r) == call[r].phase \in InFlightPhases

(***************************************************************************)
(* What the rows are to satisfy at every moment.                           *)
(***************************************************************************)

\* A schedule is attached to the company that owns it; attachments and users
\* refer to schedules there are, although a schedule may be deleted, and a company
\* detached, while other calls that loaded it are in flight.
Wired ==
    /\ \A s \in Present : link[s][owner[s]] # None
    /\ \A s \in Schedules, c \in Companies : link[s][c] # None => s \in Present
    /\ \A u \in People : user[u].schedule # None => user[u].schedule \in Present

\* docs/work-schedule-api.md: only one attachment of a company is its default, here
\* as long as no two calls that make a default of one company overlap.
AtMostOneDefault ==
    \A c \in Companies : \A s, t \in Defaults(c) : s = t

\* The office entered the user's company or schedule on the user's own page, on
\* which a user is created and edited.
Edited(u) ==
    \E r \in Requests :
        /\ call[r].phase = "done" /\ call[r].kind \in {"createUser", "editUser"}
        /\ call[r].user = u

\* A user's schedule is attached to the user's company, as long as no assignment
\* to a schedule overlaps a detachment from it: attachments come and go, users are
\* assigned, freed and given a schedule created for them, in any order.  A user
\* the office created or edited is the exception: the user's page takes any schedule
\* there is.
ScheduleAttached ==
    \A u \in People :
        user[u].schedule # None /\ user[u].company # None =>
            link[user[u].schedule][user[u].company] # None \/ Edited(u)

\* There is nobody of this name yet.
Nobody == [company |-> None, schedule |-> None]

\* The users there are.
Hired ==
    Users \cup {r \in Requests : call[r].phase = "done" /\ call[r].kind = "createUser"}

\* Any rows that satisfy the properties above.
Init ==
    /\ owner \in {[s \in Schedules |-> IF s \in Seeds THEN o[s] ELSE None] :
                      o \in [Seeds -> Companies \cup {None}]}
    /\ \E attachments \in SUBSET (Seeds \X Companies) :
           \E defaults \in SUBSET attachments :
               link = [s \in Schedules |-> [c \in Companies |->
                          IF <<s, c>> \in attachments
                          THEN [id |-> s, isDefault |-> <<s, c>> \in defaults] ELSE None]]
    /\ user \in {[u \in People |-> IF u \in Users THEN staff[u] ELSE Nobody] :
                     staff \in [Users -> User]}
    /\ call = [r \in Requests |-> Idle]
    /\ Wired /\ AtMostOneDefault /\ ScheduleAttached

(***************************************************************************)
(* The start of a call.                                                    *)
(***************************************************************************)
\* Two calls that are about the same company or the same schedule.
Related(c, d) == c.company = d.company \/ c.schedule = d.schedule

MayStart(r, sent) ==
    /\ call[r].phase = "idle"
    /\ sent.kind \in Kinds
    /\ \A q \in Requests :
           InFlight(q) /\ Related(sent, call[q]) => {sent.kind, call[q].kind} \notin Apart

Start(r, sent) ==
    /\ MayStart(r, sent)
    /\ call' = [call EXCEPT ![r] = [sent EXCEPT !.phase = "started"]]
    /\ UNCHANGED <<owner, link, user>>

About(kind, s, c, u, default) ==
    [Idle EXCEPT !.kind = kind, !.schedule = s, !.company = c, !.user = u,
                 !.isDefault = default]

\* A schedule created for nobody in particular becomes the company's default.
StartCreate(r) ==
    \E c \in Companies, u \in Hired \cup {None} :
        Start(r, About("create", r, c, u, u = None))

StartAttach(r) ==
    \E s \in Present, c \in Companies, default \in BOOLEAN :
        Start(r, About("attach", s, c, None, default))

StartDetach(r) ==
    \E s \in Present, c \in Companies : Start(r, About("detach", s, c, None, FALSE))

StartSetDefault(r) ==
    \E s \in Present, c \in Companies : Start(r, About("setDefault", s, c, None, TRUE))

StartAssign(r) ==
    \E s \in Present, u \in Hired, kind \in {"assign", "unassign"} :
        Start(r, About(kind, s, None, u, FALSE))

StartDelete(r) == \E s \in Present : Start(r, About("delete", s, None, None, FALSE))

StartEditUser(r) ==
    \E s \in Present \cup {None, Absent}, c \in Companies \cup {None, Absent}, u \in Hired :
        Start(r, About("editUser", s, c, u, FALSE))

StartCreateUser(r) ==
    \E s \in Present \cup {None, Absent}, c \in Companies \cup {None, Absent} :
        Start(r, About("createUser", s, c, r, FALSE))

(***************************************************************************)
(* The reads: what is loaded, and the answers 404 and 409.                 *)
(***************************************************************************)

\* A call that is over leaves its kind and its user behind.
Left(c, phase) == [Idle EXCEPT !.phase = phase, !.kind = c.kind, !.user = c.user]

\* The call goes on as next when what it read permits, and is over otherwise.
Read(r, permits, next) ==
    /\ call' = [call EXCEPT ![r] = IF permits THEN next ELSE Left(@, "refused")]
    /\ UNCHANGED <<owner, link, user>>

CheckCreate(r) ==
    LET c == call[r]
    IN  /\ c.phase = "started" /\ c.kind = "create"
        /\ Read(r, c.user = None \/ user[c.user].company \in {None, c.company},
                [c EXCEPT !.phase = "ready"])

CheckAttach(r) ==
    LET c == call[r]
    IN  /\ c.phase = "started" /\ c.kind = "attach"
        /\ Read(r, c.schedule \in Present /\ link[c.schedule][c.company] = None,
                [c EXCEPT !.phase = "ready"])

\* Slip: the owner detached like any other company.
LoadLinkOfAnyone(r) ==
    LET c == call[r]
        row == link[c.schedule][c.company]
    IN  /\ c.phase = "started" /\ c.kind \in {"detach", "setDefault"}
        /\ Read(r, row # None, [c EXCEPT !.phase = "ready", !.id = row.id])

\* The attachment to detach, which is not the owner's, or to make the default.
LoadLink(r) ==
    LET c == call[r]
        row == link[c.schedule][c.company]
    IN  /\ c.phase = "started" /\ c.kind \in {"detach", "setDefault"}
        /\ Read(r, row # None /\ (c.kind = "detach" => owner[c.schedule] # c.company),
                [c EXCEPT !.phase = "ready", !.id = row.id])

\* assign and unassign: the schedule with its attachments ...
LoadSchedule(r) ==
    LET c == call[r]
    IN  /\ c.phase = "started" /\ c.kind \in {"assign", "unassign"}
        /\ Read(r, c.schedule \in Present,
                [c EXCEPT !.phase = "loaded",
                          !.attached = {d \in Companies : link[c.schedule][d] # None}])

\* ... and then the user, whose company is held against them.
LoadUser(r) ==
    LET c == call[r]
    IN  /\ c.phase = "loaded"
        /\ Read(r, c.kind = "assign" => user[c.user].company \in c.attached,
                [c EXCEPT !.phase = "ready"])

CheckDelete(r) ==
    LET c == call[r]
    IN  /\ c.phase = "started" /\ c.kind = "delete"
        /\ Read(r, c.schedule \in Present, [c EXCEPT !.phase = "ready"])

\* The user's page: a schedule named for a user has to exist, and no more.
CheckUser(r) ==
    LET c == call[r]
    IN  /\ c.phase = "started" /\ c.kind \in {"editUser", "createUser"}
        /\ Read(r, c.schedule \in Present \cup {None, Absent}, [c EXCEPT !.phase = "ready"])

(***************************************************************************)
(* The transactions.                                                       *)
(***************************************************************************)

\* Slip: an attachment created as the default leaves the others alone.
ClearsSomeDefaults(c) == c.kind = "setDefault" \/ (c.kind = "create" /\ c.isDefault)

\* The calls that run clearDefaultForCompany first.
ClearsDefaults(c) == c.kind \in {"create", "attach", "setDefault"} /\ c.isDefault

\* The calls whose transaction starts with an UPDATE ... WHERE.
PicksRows(c) == ClearsDefaults(c) \/ c.kind = "detach"

\* The attachments of the call's company that are its default.
DefaultRows(c) ==
    {<<s, link[s][c.company].id>> : s \in Defaults(c.company)}

\* The users of the call's company that follow its schedule.
Staff(c) == {u \in People : user[u] = [company |-> c.company, schedule |-> c.schedule]}

\* Slip: the defaults cleared for good before the new one is written.
OpenCommitted(r) ==
    LET c == call[r]
    IN  /\ c.phase = "ready" /\ PicksRows(c)
        /\ call' = [call EXCEPT ![r].phase = "open",
                                ![r].staff = IF c.kind = "detach" THEN Staff(c) ELSE {}]
        /\ link' = [s \in Schedules |-> [d \in Companies |->
                        IF ClearsDefaults(c) /\ d = c.company /\ link[s][d] # None
                        THEN [link[s][d] EXCEPT !.isDefault = FALSE] ELSE link[s][d]]]
        /\ UNCHANGED <<owner, user>>

\* The first statement picks its rows: the defaults to clear, or the users to free.
Open(r) ==
    LET c == call[r]
    IN  /\ c.phase = "ready" /\ PicksRows(c)
        /\ call' = [call EXCEPT ![r].phase = "open",
                                ![r].seen = IF ClearsDefaults(c) THEN DefaultRows(c) ELSE {},
                                ![r].staff = IF c.kind = "detach" THEN Staff(c) ELSE {}]
        /\ UNCHANGED <<owner, link, user>>

\* The call has come to its last statement, and it goes through.
Commit(r, kinds) ==
    /\ call[r].kind \in kinds
    /\ call[r].phase = IF PicksRows(call[r]) THEN "open" ELSE "ready"
    /\ call' = [call EXCEPT ![r] = Left(@, "done")]

\* The attachments after the rows that were picked, as far as they are there still,
\* have been cleared.
Cleared(c) ==
    [s \in Schedules |-> [d \in Companies |->
        IF d = c.company /\ link[s][d] # None /\ <<s, link[s][d].id>> \in c.seen
        THEN [link[s][d] EXCEPT !.isDefault = FALSE] ELSE link[s][d]]]

Create(r) ==
    LET c == call[r]
    IN  /\ Commit(r, {"create"})
        /\ owner' = [owner EXCEPT ![r] = c.company]
        /\ link' = [Cleared(c) EXCEPT ![r][c.company] = [id |-> r, isDefault |-> c.isDefault]]
        /\ user' = [u \in People |-> IF u = c.user THEN [user[u] EXCEPT !.schedule = r]
                                    ELSE user[u]]

\* The foreign key wants the schedule, the unique index no other attachment.
Attach(r) ==
    LET c == call[r]
    IN  /\ Commit(r, {"attach"})
        /\ c.schedule \in Present /\ link[c.schedule][c.company] = None
        /\ link' = [Cleared(c) EXCEPT ![c.schedule][c.company] =
                                          [id |-> r, isDefault |-> c.isDefault]]
        /\ UNCHANGED <<owner, user>>

\* The attachment the call loaded is there still.
LinkStands(c) ==
    link[c.schedule][c.company] # None /\ link[c.schedule][c.company].id = c.id

SetDefault(r) ==
    LET c == call[r]
    IN  /\ Commit(r, {"setDefault"})
        /\ LinkStands(c)
        /\ link' = [Cleared(c) EXCEPT ![c.schedule][c.company] =
                                          [id |-> c.id, isDefault |-> TRUE]]
        /\ UNCHANGED <<owner, user>>

\* Slip: the users of the company keep the schedule.
DetachOnly(r) ==
    LET c == call[r]
    IN  /\ Commit(r, {"detach"})
        /\ LinkStands(c)
        /\ link' = [link EXCEPT ![c.schedule][c.company] = None]
        /\ UNCHANGED <<owner, user>>

Detach(r) ==
    LET c == call[r]
    IN  /\ Commit(r, {"detach"})
        /\ LinkStands(c)
        /\ link' = [link EXCEPT ![c.schedule][c.company] = None]
        /\ user' = [u \in People |-> IF u \in c.staff \cap Staff(c)
                                    THEN [user[u] EXCEPT !.schedule = None] ELSE user[u]]
        /\ UNCHANGED owner

(***************************************************************************)
(* The calls that write with one statement.                                *)
(***************************************************************************)

\* assignUser writes the schedule it loaded, unassignUser null whatever the
\* user's schedule is.
Assign(r) ==
    LET c == call[r]
    IN  /\ Commit(r, {"assign", "unassign"})
        /\ c.kind = "assign" => c.schedule \in Present
        /\ user' = [user EXCEPT ![c.user].schedule = IF c.kind = "assign" THEN c.schedule
                                                     ELSE None]
        /\ UNCHANGED <<owner, link>>

\* Attachments go with their schedule; users who follow it are left with none.
Delete(r) ==
    LET s == call[r].schedule
    IN  /\ Commit(r, {"delete"})
        /\ s \in Present
        /\ owner' = [owner EXCEPT ![s] = None]
        /\ link' = [link EXCEPT ![s] = [c \in Companies |-> None]]
        /\ user' = [u \in People |-> IF user[u].schedule = s
                                    THEN [user[u] EXCEPT !.schedule = None] ELSE user[u]]

\* Slip: a field left out is written all the same.
GivenAsSent(value, otherwise) == value

\* A field left out stays as it is.
Given(value, otherwise) == IF value = Absent THEN otherwise ELSE value

\* UserService.update: the fields sent, each for itself.
EditUser(r) ==
    LET c == call[r]
    IN  /\ Commit(r, {"editUser"})
        /\ c.schedule \in Present \cup {None, Absent}
        /\ user' = [user EXCEPT ![c.user] =
                        [company |-> Given(c.company, @.company),
                         schedule |-> Given(c.schedule, @.schedule)]]
        /\ UNCHANGED <<owner, link>>

\* UserService.create: the row of a new user, a field left out being null.
CreateUser(r) ==
    LET c == call[r]
    IN  /\ Commit(r, {"createUser"})
        /\ c.schedule \in Present \cup {None, Absent}
        /\ user' = [user EXCEPT ![c.user] = [company |-> Given(c.company, None),
                                             schedule |-> Given(c.schedule, None)]]
        /\ UNCHANGED <<owner, link>>

\* Access, the name, the branch, the company or the role is not as it should be,
\* the database refuses the statement, or the server stops: nothing is written.
Fail(r) ==
    /\ InFlight(r)
    /\ call' = [call EXCEPT ![r] = Left(@, "refused")]
    /\ UNCHANGED <<owner, link, user>>

Next ==
    \E r \in Requests :
        \/ StartCreate(r) \/ StartAttach(r) \/ StartDetach(r) \/ StartSetDefault(r)
        \/ StartAssign(r) \/ StartDelete(r) \/ StartEditUser(r)
        \/ StartCreateUser(r)
        \/ CheckCreate(r) \/ CheckAttach(r) \/ LoadLink(r) \/ LoadSchedule(r)
        \/ LoadUser(r) \/ CheckDelete(r) \/ CheckUser(r)
        \/ Open(r)
        \/ Create(r) \/ Attach(r) \/ SetDefault(r) \/ Detach(r)
        \/ Assign(r) \/ Delete(r) \/ EditUser(r) \/ CreateUser(r)
        \/ Fail(r)

Spec == Init /\ [][Next]_vars

\* A company that has a default keeps one until the default's attachment goes: a
\* promotion that fails half way, however many of them overlap, leaves the old one.
KeepsADefault ==
    [][\A c \in Companies :
        Defaults(c) # {} /\ Defaults(c)' = {} =>
            \E s \in Defaults(c) : link'[s][c] = None]_link

(***************************************************************************)
(* What a call in flight may rely on: the strengthenings the proofs need.  *)
(***************************************************************************)

OnSchedule == {"attach", "detach", "setDefault", "assign", "unassign", "delete"}

\* A schedule is there only after the call that creates it is done, and so is what
\* a call knows to be there; a detachment never comes to the owner's attachment; and
\* only who makes a default clears one.
SoundCall(r) ==
    LET c == call[r]
        schedule == c.schedule
    IN  /\ owner[r] # None => c.phase = "done"
        /\ c.phase \in InFlightPhases =>
               /\ c.kind = "create" =>
                      schedule = r /\ c.phase # "loaded" /\ (c.user # None => ~c.isDefault)
               /\ c.kind \in OnSchedule =>
                      /\ schedule \in Schedules
                      /\ schedule \in Requests => call[schedule].phase = "done"
               /\ c.kind \in {"create", "attach", "detach", "setDefault"} =>
                      c.company \in Companies
               /\ c.kind \in {"assign", "unassign", "editUser", "createUser"} =>
                      c.user \in People
               /\ c.kind = "setDefault" => c.isDefault
        /\ c.phase = "loaded" => c.kind \in {"assign", "unassign"}
        /\ c.phase \in {"ready", "open"} /\ c.kind \in {"detach", "setDefault"} =>
               /\ c.id \in Schedules
               /\ c.kind = "detach" => owner[schedule] # c.company
        /\ c.seen # {} => c.isDefault

CallsSound == \A r \in Requests : SoundCall(r)

\* Related calls in flight are of endpoints that may overlap.
CallsApart ==
    \A q, r \in Requests :
        q # r /\ InFlight(q) /\ InFlight(r) /\ Related(call[q], call[r]) =>
            {call[q].kind, call[r].kind} \notin Apart

\* While nobody else makes a default of the company, the rows a call picked to
\* clear are all there are.
SeenAll ==
    \A r \in Requests :
        call[r].phase = "open" /\ ClearsDefaults(call[r]) =>
            \A s \in Defaults(call[r].company) :
                <<s, link[s][call[r].company].id>> \in call[r].seen

\* While nobody detaches from its schedule, what an assignment loaded of the
\* attachments holds until the schedule is deleted, or the user edited; and so
\* does a new user's company.
AssignmentHolds(r) ==
    LET c == call[r]
    IN  /\ c.phase = "loaded" /\ c.kind = "assign" =>
               \A d \in c.attached : c.schedule \in Present => link[c.schedule][d] # None
        /\ c.phase = "ready" /\ c.kind = "assign" =>
               \/ Edited(c.user) \/ c.schedule \notin Present
               \/ user[c.user].company = None
               \/ link[c.schedule][user[c.user].company] # None
        /\ c.phase = "ready" /\ c.kind = "create" /\ c.user # None =>
               \/ Edited(c.user) \/ user[c.user].company \in {None, c.company}

AssignmentsHold == \A r \in Requests : AssignmentHolds(r)

\* While nobody assigns to its schedule, the users a detachment picked to free
\* are all there are, but for those edited since.
StaffAll ==
    \A r \in Requests :
        call[r].phase = "open" /\ call[r].kind = "detach" =>
            \A u \in Staff(call[r]) : u \in call[r].staff \/ Edited(u)

=============================================================================
