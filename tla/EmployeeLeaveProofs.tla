------------------------- MODULE EmployeeLeaveProofs -------------------------
(***************************************************************************)
(* Proofs about EmployeeLeave for any companies, employees, days, inputs   *)
(* and calls.                                                              *)
(***************************************************************************)
EXTENDS EmployeeLeave, TLAPS

(***************************************************************************)
(* The inductive invariant about rows.                                     *)
(***************************************************************************)
InsertKinds == {"grant", "grantAll", "request"}

\* A row that may stand among the leaves.
RowSound(row) == SoundRange(row) /\ (InCompany(row) \/ LeftBehind(row))

\* An employee whose branch is of another company has moved, or the branch has.
StaffSound(e) == StaffInCompany(staff[e]) \/ {e, staff[e].branch} \cap moved # {}

\* What a call is to write is sound when it writes it, though employees and branches may
\* move after the checks; an edit works on one row.
CallSound(c) ==
    /\ c.phase # "idle" => /\ c.sent \in LeaveInputs
                           /\ c.sent.kind \in OfLeaveKinds <=> c.leave # None
    /\ c.phase = "loaded" => /\ c.sent.kind = "edit" /\ c.rows # {}
                             /\ \A row \in c.rows : SoundRange(row)
    /\ c.phase = "ready" =>
           /\ c.sent.kind \in InsertKinds \cup {"edit"} => \A row \in c.rows : RowSound(row)
           /\ c.sent.kind = "edit" => c.rows # {}

RowsInv ==
    /\ LeaveTypeOK
    /\ \A r \in LeaveRequests : CallSound(leaveCall[r])
    /\ \A l \in Granted : RowSound(leave[l])
    /\ \A e \in Employees : StaffSound(e)

(***************************************************************************)
(* Lemmas about the rows that are written.                                 *)
(***************************************************************************)
LEMMA GivenDays ==
    ASSUME NEW from \in Days, NEW to \in Days, from <= to, NEW given
    PROVE  GetDays(given, from, to) \in 0 .. LastDay \cup {Given}
<1>1. to - from + 1 \in 0 .. LastDay
    BY LeaveAssumption DEF Days
<1>2. QED
    BY <1>1 DEF GetDays

LEMMA InputType ==
    ASSUME NEW sent \in LeaveInputs
    PROVE  /\ sent \in LeaveInput /\ Validated(sent)
           /\ sent.actor \in Actor /\ sent.kind \in LeaveKinds
BY LeaveAssumption DEF LeaveInput

\* getCompanyId and getScope leave no grant without a company.
LEMMA GrantPlaceType ==
    ASSUME NEW sent \in LeaveInputs,
           ~CompanyRefused(sent.actor, Supplied(sent.company, None))
    PROVE  /\ GrantPlace(sent).company \in Companies
           /\ GrantPlace(sent).branch \in Branches \cup {None}
<1>1. /\ sent.actor.company \in Companies \cup {None}
      /\ sent.actor.branch \in Branches \cup {None}
      /\ sent.company \in Companies \cup {Absent}
      /\ sent.branch \in Branches \cup {None, Absent}
    BY InputType DEF LeaveInput, Actor
<1>2. None \notin Companies /\ Absent \notin Companies /\ None # Absent
    BY ScopeAssumption
<1>3. QED
    BY <1>1, <1>2 DEF GrantPlace, GetScope, GetCompanyId, CompanyRefused, Supplied

LEMMA GrantRowSound ==
    ASSUME NEW sent \in LeaveInputs, sent.kind \in {"grant", "grantAll"},
           ~CompanyRefused(sent.actor, Supplied(sent.company, None)), sent.from <= sent.to,
           NEW e \in Employees, NEW branch \in Branches \cup {None},
           LET row == GrantRow(sent, GrantPlace(sent), e, branch)
           IN  InCompany(row) \/ LeftBehind(row)
    PROVE  LET row == GrantRow(sent, GrantPlace(sent), e, branch)
           IN  row \in LeaveRow /\ RowSound(row)
<1>. DEFINE row == GrantRow(sent, GrantPlace(sent), e, branch)
<1>1. sent.from \in Days /\ sent.to \in Days
    BY InputType DEF LeaveInput, Validated
<1>2. GetDays(sent.days, sent.from, sent.to) \in 0 .. LastDay \cup {Given}
    BY <1>1, GivenDays
<1>3. row \in LeaveRow
    BY <1>1, <1>2, GrantPlaceType DEF GrantRow, LeaveRow, Durations, Statuses
<1>4. SoundRange(row)
    BY DEF GrantRow, SoundRange, GetDays
<1>5. QED
    BY <1>3, <1>4 DEF RowSound

\* The row an employee requests.
LEMMA RequestedRowSound ==
    ASSUME RowsInv, NEW sent \in LeaveInputs, sent.kind = "request", NEW e, e = sent.actor.sub,
           staff[e].company # None, RequestedTo(sent) # Absent, sent.from <= RequestedTo(sent),
           NEW row, row = [company |-> staff[e].company, branch |-> staff[e].branch,
                           employee |-> e, from |-> sent.from, to |-> RequestedTo(sent),
                           days |-> RequestedDays(sent), duration |-> sent.duration,
                           status |-> "pending"]
    PROVE  row \in LeaveRow /\ RowSound(row)
<1>1. e \in Employees /\ sent.from \in Days /\ RequestedTo(sent) \in Days
      /\ sent.duration \in Durations
    BY InputType DEF LeaveInput, Validated, RequestedTo
<1>2. staff[e] \in StaffRow
    BY <1>1 DEF RowsInv, LeaveTypeOK
<1>3. RequestedDays(sent) \in 0 .. LastDay \cup {Given}
    <2>1. 0 \in 0 .. LastDay
        BY LeaveAssumption
    <2>2. QED
        BY <1>1, <2>1, GivenDays DEF RequestedDays
<1>4. row \in LeaveRow
    BY <1>1, <1>2, <1>3 DEF LeaveRow, StaffRow, Statuses
<1>5. SoundRange(row)
    BY DEF SoundRange, RequestedDays, RequestedTo, GetDays
<1>6. InCompany(row) \/ LeftBehind(row)
    <2>1. StaffSound(e)
        BY <1>1 DEF RowsInv
    <2>2. row.employee = e /\ row.company = staff[e].company /\ row.branch = staff[e].branch
        OBVIOUS
    <2>3. QED
        BY <2>1, <2>2 DEF InCompany, LeftBehind, StaffSound, StaffInCompany
<1>7. QED
    BY <1>4, <1>5, <1>6 DEF RowSound

\* The row an edit makes of a sound one.
LEMMA EditedRowSound ==
    ASSUME NEW row \in LeaveRow, SoundRange(row), NEW sent \in LeaveInputs,
           EditedRow(row, sent).from <= EditedRow(row, sent).to
    PROVE  EditedRow(row, sent) \in LeaveRow /\ SoundRange(EditedRow(row, sent))
<1>. DEFINE edited == EditedRow(row, sent)
            from == Supplied(sent.from, row.from)
            to == Supplied(sent.to, row.to)
            days == CASE sent.days = Given -> Given
                      [] sent.days # Given /\ {sent.from, sent.to} # {Absent} -> to - from + 1
                      [] OTHER -> row.days
            company == Supplied(sent.company, row.company)
            branch == GetScope(sent.actor, [company |-> company,
                                  branch |-> Supplied(sent.branch, row.branch)]).branch
            employee == Supplied(sent.employee, row.employee)
<1>1. /\ sent.from \in Days \cup {Absent} /\ sent.to \in Days \cup {Absent}
      /\ sent.days \in {Given, Absent} /\ sent.company \in Companies \cup {Absent}
      /\ sent.branch \in Branches \cup {None, Absent}
      /\ sent.employee \in Employees \cup {Absent}
      /\ sent.actor.branch \in Branches \cup {None}
    BY InputType DEF LeaveInput, Actor
<1>2. from \in Days /\ to \in Days /\ company \in Companies /\ employee \in Employees
    BY <1>1 DEF Supplied, LeaveRow
<1>3. branch \in Branches \cup {None}
    BY <1>1 DEF Supplied, LeaveRow, GetScope
<1>4. edited = [row EXCEPT !.company = company, !.branch = branch, !.employee = employee,
                           !.from = from, !.to = to, !.days = days]
    BY DEF EditedRow
<1>5. /\ edited.company = company /\ edited.branch = branch /\ edited.employee = employee
      /\ edited.from = from /\ edited.to = to /\ edited.days = days
      /\ edited.duration = row.duration /\ edited.status = row.status
    BY <1>4 DEF LeaveRow
<1>6. from <= to
    BY <1>5
<1>7. to - from + 1 \in 0 .. LastDay
    BY <1>2, <1>6, LeaveAssumption DEF Days
<1>8. days \in 0 .. LastDay \cup {Given}
    BY <1>7 DEF LeaveRow
<1>9. edited \in LeaveRow
    <2>. HIDE DEF company, branch, employee, from, to, days, edited
    <2>1. QED
        BY <1>2, <1>3, <1>4, <1>8 DEF LeaveRow
<1>10. days \in {Given, to - from + 1} \/ (row.duration = "hourly" /\ days = 0 /\ from = to)
    <2>1. CASE sent.days = Given
        BY <2>1
    <2>2. CASE sent.days # Given /\ {sent.from, sent.to} # {Absent}
        BY <2>2
    <2>3. CASE sent.days # Given /\ {sent.from, sent.to} = {Absent}
        <3>1. sent.from = Absent /\ sent.to = Absent
            BY <2>3
        <3>2. days = row.days /\ from = row.from /\ to = row.to
            BY <2>3, <3>1 DEF Supplied
        <3>3. QED
            BY <3>2 DEF SoundRange
    <2>4. QED
        BY <2>1, <2>2, <2>3
<1>11. QED
    BY <1>5, <1>6, <1>9, <1>10 DEF SoundRange

(***************************************************************************)
(* The steps of a call keep the rows sound.                                *)
(***************************************************************************)

\* A call moves on, and what it leaves among the leaves is sound.
LEMMA CallMoves ==
    ASSUME RowsInv, NEW r \in LeaveRequests, NEW c \in LeaveCall, CallSound(c),
           leaveCall' = [leaveCall EXCEPT ![r] = c], staff' = staff,
           companyOf' = companyOf, moved' = moved,
           told' \in [Leaves -> [Employees -> Statuses \cup {None}]],
           leave' \in [Leaves -> LeaveRow \cup {None}],
           \A l \in Leaves : leave'[l] # None => RowSound(leave'[l])
    PROVE  RowsInv'
<1>1. LeaveTypeOK'
    BY DEF RowsInv, LeaveTypeOK
<1>2. ASSUME NEW q \in LeaveRequests PROVE CallSound(leaveCall[q])'
    <2>1. leaveCall'[q] = c \/ leaveCall'[q] = leaveCall[q]
        BY DEF RowsInv, LeaveTypeOK
    <2>2. CallSound(leaveCall'[q])
        BY <2>1 DEF RowsInv
    <2>3. QED
        BY <2>2 DEF CallSound, RowSound, InCompany, LeftBehind
<1>3. ASSUME NEW l \in Granted' PROVE RowSound(leave[l])'
    BY <1>3 DEF Granted, RowSound, InCompany, LeftBehind
<1>4. \A e \in Employees : StaffSound(e)'
    BY DEF RowsInv, StaffSound, StaffInCompany
<1>5. QED
    BY <1>1, <1>2, <1>3, <1>4 DEF RowsInv

\* The same for a call that writes nothing.
LEMMA CallReads ==
    ASSUME RowsInv, NEW r \in LeaveRequests, NEW c \in LeaveCall, CallSound(c),
           leaveCall' = [leaveCall EXCEPT ![r] = c], UNCHANGED <<staff, leave, told, companyOf, moved>>
    PROVE  RowsInv'
<1>1. \A l \in Leaves : leave[l] # None => RowSound(leave[l])
    BY DEF RowsInv, Granted
<1>2. QED
    BY <1>1, CallMoves DEF RowsInv, LeaveTypeOK

LEMMA EndedSound ==
    ASSUME RowsInv, NEW r \in LeaveRequests, leaveCall[r].phase # "idle",
           NEW phase \in {"refused", "done", "lost"}
    PROVE  /\ Ended(leaveCall[r], phase) \in LeaveCall
           /\ CallSound(Ended(leaveCall[r], phase))
<1>1. leaveCall[r] \in LeaveCall /\ CallSound(leaveCall[r])
    BY DEF RowsInv, LeaveTypeOK
<1>2. QED
    BY <1>1 DEF Ended, IdleLeaveCall, LeaveCall, LeavePhases, CallSound

\* A read either refuses the call or lets it go on with what was read.
LEMMA ReadKeeps ==
    ASSUME RowsInv, NEW r \in LeaveRequests, leaveCall[r].phase # "idle",
           NEW permits \in BOOLEAN, NEW next, LeaveRead(r, permits, next),
           permits => next \in LeaveCall /\ CallSound(next)
    PROVE  RowsInv'
<1>1. CASE permits
    <2>1. leaveCall' = [leaveCall EXCEPT ![r] = next]
        BY <1>1 DEF LeaveRead
    <2>2. QED
        BY <1>1, <2>1, CallReads DEF LeaveRead
<1>2. CASE ~permits
    <2>1. leaveCall' = [leaveCall EXCEPT ![r] = Ended(leaveCall[r], "refused")]
        BY <1>2 DEF LeaveRead
    <2>2. QED
        BY <2>1, EndedSound, CallReads DEF LeaveRead
<1>3. QED
    BY <1>1, <1>2

LEMMA CallFacts ==
    ASSUME RowsInv, NEW r \in LeaveRequests
    PROVE  leaveCall[r] \in LeaveCall /\ CallSound(leaveCall[r])
BY DEF RowsInv, LeaveTypeOK

LEMMA StartRows ==
    ASSUME RowsInv, NEW r \in LeaveRequests, StartLeaveCall(r)
    PROVE  RowsInv'
<1>1. PICK sent \in LeaveInputs, l \in Granted \cup {None} :
          /\ sent.kind \in OfLeaveKinds <=> l # None
          /\ leaveCall' = [leaveCall EXCEPT ![r] =
                [IdleLeaveCall EXCEPT !.phase = "started", !.sent = sent, !.leave = l]]
    BY DEF StartLeaveCall
<1>. DEFINE c == [IdleLeaveCall EXCEPT !.phase = "started", !.sent = sent, !.leave = l]
<1>2. c \in LeaveCall
    BY InputType DEF IdleLeaveCall, LeaveCall, LeavePhases, Granted
<1>3. CallSound(c)
    BY <1>1 DEF CallSound, IdleLeaveCall
<1>4. QED
    BY <1>1, <1>2, <1>3, CallReads DEF StartLeaveCall

LEMMA GrantRows ==
    ASSUME RowsInv, NEW r \in LeaveRequests, CheckGrant(r)
    PROVE  RowsInv'
<1>. DEFINE sent == leaveCall[r].sent
            place == GrantPlace(sent)
            row == GrantRow(sent, place, sent.employee, place.branch)
            permits == /\ ~CompanyRefused(sent.actor, Supplied(sent.company, None))
                       /\ sent.from <= sent.to
                       /\ LeaveFits(place.company, place.branch, sent.employee)
            next == [leaveCall[r] EXCEPT !.phase = "ready", !.rows = {row}]
<1>1. leaveCall[r].phase = "started" /\ sent.kind = "grant" /\ LeaveRead(r, permits, next)
    BY DEF CheckGrant
<1>2. leaveCall[r] \in LeaveCall /\ CallSound(leaveCall[r])
    BY CallFacts
<1>3. sent \in LeaveInputs /\ sent.employee \in Employees
    BY <1>1, <1>2, InputType DEF CallSound, Validated, LeaveInput
<1>4. ASSUME permits PROVE row \in LeaveRow /\ RowSound(row)
    <2>1. place.branch \in Branches \cup {None}
        BY <1>3, <1>4, GrantPlaceType
    <2>2. InCompany(row)
        BY <1>4 DEF LeaveFits, InCompany, GrantRow
    <2>3. QED
        BY <1>1, <1>3, <1>4, <2>1, <2>2, GrantRowSound
<1>5. ASSUME permits PROVE next \in LeaveCall /\ CallSound(next)
    <2>. HIDE DEF row
    <2>1. /\ next.phase = "ready" /\ next.rows = {row} /\ next.sent = sent
          /\ next.leave = leaveCall[r].leave
        BY <1>2 DEF LeaveCall
    <2>2. QED
        BY <1>1, <1>2, <1>4, <1>5, <2>1 DEF LeaveCall, LeavePhases, CallSound
<1>. HIDE DEF permits, next
<1>6. permits \in BOOLEAN
    BY DEF permits, CompanyRefused, LeaveFits
<1>7. QED
    BY <1>1, <1>5, <1>6, ReadKeeps

LEMMA CrewRows ==
    ASSUME RowsInv, NEW r \in LeaveRequests, ListCrew(r)
    PROVE  RowsInv'
<1>. DEFINE sent == leaveCall[r].sent
            place == GrantPlace(sent)
            branch(e) == IF place.branch = None THEN staff[e].branch ELSE place.branch
            rows == {GrantRow(sent, place, e, branch(e)) : e \in ActiveCrew(place)}
            permits == /\ ~CompanyRefused(sent.actor, Supplied(sent.company, None))
                       /\ sent.from <= sent.to
                       /\ place.branch # None => companyOf[place.branch] = place.company
            next == [leaveCall[r] EXCEPT !.phase = "ready", !.rows = rows]
<1>1. leaveCall[r].phase = "started" /\ sent.kind = "grantAll" /\ LeaveRead(r, permits, next)
    BY DEF ListCrew
<1>2. leaveCall[r] \in LeaveCall /\ CallSound(leaveCall[r])
    BY CallFacts
<1>3. sent \in LeaveInputs
    BY <1>1, <1>2 DEF CallSound
<1>4. ASSUME permits, NEW row \in rows PROVE row \in LeaveRow /\ RowSound(row)
    <2>1. PICK e \in ActiveCrew(place) : row = GrantRow(sent, place, e, branch(e))
        BY <1>4
    <2>2. /\ e \in Employees /\ staff[e].company = place.company /\ staff[e] \in StaffRow
          /\ branch(e) = staff[e].branch
        BY DEF ActiveCrew, RowsInv, LeaveTypeOK
    <2>3. branch(e) \in Branches \cup {None}
        BY <1>3, <1>4, <2>2, GrantPlaceType DEF StaffRow
    <2>4. InCompany(row) \/ LeftBehind(row)
        <3>1. row.employee = e /\ row.company = place.company /\ row.branch = branch(e)
            BY <2>1 DEF GrantRow
        <3>2. StaffSound(e)
            BY <2>2 DEF RowsInv
        <3>3. QED
            BY <2>2, <3>1, <3>2 DEF InCompany, LeftBehind, StaffSound, StaffInCompany
    <2>5. QED
        BY <1>1, <1>3, <1>4, <2>1, <2>2, <2>3, <2>4, GrantRowSound
<1>5. ASSUME permits PROVE next \in LeaveCall /\ CallSound(next)
    <2>1. rows \in SUBSET LeaveRow /\ \A row \in rows : RowSound(row)
        BY <1>4, <1>5
    <2>. HIDE DEF rows
    <2>2. /\ next.phase = "ready" /\ next.rows = rows /\ next.sent = sent
          /\ next.leave = leaveCall[r].leave
        BY <1>2 DEF LeaveCall
    <2>3. QED
        BY <1>1, <1>2, <2>1, <2>2 DEF LeaveCall, LeavePhases, CallSound
<1>. HIDE DEF permits, next
<1>6. permits \in BOOLEAN
    BY DEF permits, CompanyRefused
<1>7. QED
    BY <1>1, <1>5, <1>6, ReadKeeps

LEMMA RequestRows ==
    ASSUME RowsInv, NEW r \in LeaveRequests, LoadRequester(r)
    PROVE  RowsInv'
<1>. DEFINE sent == leaveCall[r].sent
            e == sent.actor.sub
            row == [company |-> staff[e].company, branch |-> staff[e].branch,
                    employee |-> e, from |-> sent.from, to |-> RequestedTo(sent),
                    days |-> RequestedDays(sent), duration |-> sent.duration,
                    status |-> "pending"]
            permits == /\ staff[e].company # None
                       /\ RequestedTo(sent) # Absent
                       /\ sent.from <= RequestedTo(sent)
            next == [leaveCall[r] EXCEPT !.phase = "ready", !.rows = {row}]
<1>1. leaveCall[r].phase = "started" /\ sent.kind = "request" /\ LeaveRead(r, permits, next)
    BY DEF LoadRequester
<1>2. leaveCall[r] \in LeaveCall /\ CallSound(leaveCall[r])
    BY CallFacts
<1>3. sent \in LeaveInputs
    BY <1>1, <1>2 DEF CallSound
<1>4. ASSUME permits PROVE row \in LeaveRow /\ RowSound(row)
    BY <1>1, <1>3, <1>4, RequestedRowSound
<1>5. ASSUME permits PROVE next \in LeaveCall /\ CallSound(next)
    <2>. HIDE DEF row
    <2>1. /\ next.phase = "ready" /\ next.rows = {row} /\ next.sent = sent
          /\ next.leave = leaveCall[r].leave
        BY <1>2 DEF LeaveCall
    <2>2. QED
        BY <1>1, <1>2, <1>4, <1>5, <2>1 DEF LeaveCall, LeavePhases, CallSound
<1>. HIDE DEF permits, next
<1>6. permits \in BOOLEAN
    BY DEF permits
<1>7. QED
    BY <1>1, <1>5, <1>6, ReadKeeps

\* An answer or a deletion loads a leave that exists.
LEMMA AnswerRows ==
    ASSUME RowsInv, NEW r \in LeaveRequests, LoadToAnswer(r)
    PROVE  RowsInv'
<1>. DEFINE c == leaveCall[r]
            permits == /\ c.leave \in Granted
                       /\ MayAccess(c.sent.actor, PlaceOf(leave[c.leave]))
                       /\ leave[c.leave].status = "pending"
            next == [c EXCEPT !.phase = "ready", !.rows = {leave[c.leave]},
                              !.during = Answering(c.leave)]
<1>1. c.phase = "started" /\ c.sent.kind \in AnswerKinds /\ LeaveRead(r, permits, next)
    BY DEF LoadToAnswer
<1>2. c \in LeaveCall /\ CallSound(c)
    BY CallFacts
<1>3. ASSUME permits PROVE next \in LeaveCall /\ CallSound(next)
    <2>1. leave[c.leave] \in LeaveRow /\ Answering(c.leave) \in SUBSET LeaveRequests
        BY <1>3 DEF Granted, RowsInv, LeaveTypeOK, Answering
    <2>2. /\ next.phase = "ready" /\ next.rows = {leave[c.leave]} /\ next.sent = c.sent
          /\ next.leave = c.leave
        BY <1>2 DEF LeaveCall
    <2>3. QED
        BY <1>1, <1>2, <2>1, <2>2 DEF LeaveCall, LeavePhases, CallSound, AnswerKinds, InsertKinds
<1>. HIDE DEF permits, next
<1>4. permits \in BOOLEAN
    BY DEF permits, MayAccess
<1>5. QED
    BY <1>1, <1>3, <1>4, ReadKeeps

LEMMA DeleteLoadRows ==
    ASSUME RowsInv, NEW r \in LeaveRequests, LoadToDelete(r)
    PROVE  RowsInv'
<1>. DEFINE c == leaveCall[r]
            permits == c.leave \in Granted /\ MayAccess(c.sent.actor, PlaceOf(leave[c.leave]))
            next == [c EXCEPT !.phase = "ready"]
<1>1. c.phase = "started" /\ c.sent.kind = "delete" /\ LeaveRead(r, permits, next)
    BY DEF LoadToDelete
<1>2. c \in LeaveCall /\ CallSound(c)
    BY CallFacts
<1>3. next \in LeaveCall /\ CallSound(next)
    BY <1>1, <1>2 DEF LeaveCall, LeavePhases, CallSound, InsertKinds
<1>. HIDE DEF permits, next
<1>4. permits \in BOOLEAN
    BY DEF permits, MayAccess
<1>5. QED
    BY <1>1, <1>3, <1>4, ReadKeeps

LEMMA EditLoadRows ==
    ASSUME RowsInv, NEW r \in LeaveRequests, LoadToEdit(r)
    PROVE  RowsInv'
<1>. DEFINE c == leaveCall[r]
            permits == c.leave \in Granted /\ MayAccess(c.sent.actor, PlaceOf(leave[c.leave]))
            next == [c EXCEPT !.phase = "loaded", !.rows = {leave[c.leave]}]
<1>1. c.phase = "started" /\ c.sent.kind = "edit" /\ LeaveRead(r, permits, next)
    BY DEF LoadToEdit
<1>2. c \in LeaveCall /\ CallSound(c)
    BY CallFacts
<1>3. ASSUME permits PROVE next \in LeaveCall /\ CallSound(next)
    <2>1. leave[c.leave] \in LeaveRow /\ SoundRange(leave[c.leave])
        BY <1>3 DEF Granted, RowsInv, LeaveTypeOK, RowSound
    <2>2. /\ next.phase = "loaded" /\ next.rows = {leave[c.leave]} /\ next.sent = c.sent
          /\ next.leave = c.leave
        BY <1>2 DEF LeaveCall
    <2>3. QED
        BY <1>1, <1>2, <2>1, <2>2 DEF LeaveCall, LeavePhases, CallSound
<1>. HIDE DEF permits, next
<1>4. permits \in BOOLEAN
    BY DEF permits, MayAccess
<1>5. QED
    BY <1>1, <1>3, <1>4, ReadKeeps

LEMMA EditCheckRows ==
    ASSUME RowsInv, NEW r \in LeaveRequests, CheckEdit(r)
    PROVE  RowsInv'
<1>. DEFINE c == leaveCall[r]
            loaded == CHOOSE row \in c.rows : TRUE
            row == EditedRow(loaded, c.sent)
            permits == /\ ~CompanyRefused(c.sent.actor, Supplied(c.sent.company, row.company))
                       /\ ~ScopeRefused(c.sent.actor, PlaceOf(row))
                       /\ row.from <= row.to
                       /\ LeaveFits(row.company, row.branch, row.employee)
            next == [c EXCEPT !.phase = "ready", !.rows = {row}]
<1>1. c.phase = "loaded" /\ LeaveRead(r, permits, next)
    BY DEF CheckEdit
<1>2. c \in LeaveCall /\ CallSound(c)
    BY CallFacts
<1>3. c.sent \in LeaveInputs /\ c.sent.kind = "edit"
    BY <1>1, <1>2 DEF CallSound
<1>4. loaded \in LeaveRow /\ SoundRange(loaded)
    <2>1. c.rows # {} /\ c.rows \subseteq LeaveRow /\ \A l \in c.rows : SoundRange(l)
        BY <1>1, <1>2 DEF CallSound, LeaveCall
    <2>2. loaded \in c.rows
        BY <2>1
    <2>3. QED
        BY <2>1, <2>2
<1>. HIDE DEF loaded
<1>5. ASSUME permits PROVE row \in LeaveRow /\ RowSound(row)
    <2>. HIDE DEF row
    <2>1. row \in LeaveRow /\ SoundRange(row)
        BY <1>3, <1>4, <1>5, EditedRowSound DEF row
    <2>2. InCompany(row)
        BY <1>5 DEF LeaveFits, InCompany
    <2>3. QED
        BY <2>1, <2>2 DEF RowSound
<1>6. ASSUME permits PROVE next \in LeaveCall /\ CallSound(next)
    <2>. HIDE DEF row
    <2>1. /\ next.phase = "ready" /\ next.rows = {row} /\ next.sent = c.sent
          /\ next.leave = c.leave
        BY <1>2 DEF LeaveCall
    <2>2. QED
        BY <1>1, <1>2, <1>3, <1>5, <1>6, <2>1 DEF LeaveCall, LeavePhases, CallSound
<1>. HIDE DEF permits, next
<1>7. permits \in BOOLEAN
    BY DEF permits, CompanyRefused, ScopeRefused, LeaveFits
<1>8. QED
    BY <1>1, <1>6, <1>7, ReadKeeps

\* A call that has written.
LEMMA WrittenSound ==
    ASSUME RowsInv, NEW r \in LeaveRequests, NEW kinds, NEW phase \in {"written", "done"},
           LeaveWrite(r, kinds, phase)
    PROVE  /\ [leaveCall[r] EXCEPT !.phase = phase] \in LeaveCall
           /\ CallSound([leaveCall[r] EXCEPT !.phase = phase])
           /\ leaveCall' = [leaveCall EXCEPT ![r] = [leaveCall[r] EXCEPT !.phase = phase]]
           /\ staff' = staff /\ companyOf' = companyOf /\ moved' = moved
           /\ told' \in [Leaves -> [Employees -> Statuses \cup {None}]]
<1>1. leaveCall[r] \in LeaveCall /\ CallSound(leaveCall[r]) /\ leaveCall[r].phase = "ready"
    BY CallFacts DEF LeaveWrite
<1>2. QED
    BY <1>1 DEF LeaveWrite, LeaveCall, LeavePhases, CallSound, RowsInv, LeaveTypeOK

LEMMA InsertRows ==
    ASSUME RowsInv, NEW r \in LeaveRequests, InsertLeaves(r)
    PROVE  RowsInv'
<1>1. leaveCall[r] \in LeaveCall /\ \A row \in leaveCall[r].rows : RowSound(row)
    BY CallFacts DEF InsertLeaves, LeaveWrite, CallSound, InsertKinds
<1>2. leaveCall[r].rows \subseteq LeaveRow
    BY <1>1 DEF LeaveCall
<1>3. ASSUME NEW l \in Leaves PROVE leave'[l] = leave[l] \/ leave'[l] \in leaveCall[r].rows
    BY DEF InsertLeaves
<1>4. leave' \in [Leaves -> LeaveRow \cup {None}]
    <2>1. ASSUME NEW l \in Leaves PROVE leave'[l] \in LeaveRow \cup {None}
        BY <1>2, <1>3 DEF RowsInv, LeaveTypeOK
    <2>2. QED
        BY <2>1 DEF InsertLeaves
<1>5. \A l \in Leaves : leave'[l] # None => RowSound(leave'[l])
    BY <1>1, <1>3 DEF RowsInv, Granted
<1>6. LeaveWrite(r, {"grant", "grantAll", "request"}, "written")
    BY DEF InsertLeaves
<1>7. QED
    BY <1>4, <1>5, <1>6, WrittenSound, CallMoves

\* Writing one leave.
LEMMA OneLeave ==
    ASSUME RowsInv, NEW r \in LeaveRequests, NEW kinds, NEW phase \in {"written", "done"},
           LeaveWrite(r, kinds, phase), NEW l \in Leaves, NEW row,
           row = None \/ (row \in LeaveRow /\ RowSound(row)),
           leave' = [leave EXCEPT ![l] = row]
    PROVE  RowsInv'
<1>1. leave' \in [Leaves -> LeaveRow \cup {None}]
    BY DEF RowsInv, LeaveTypeOK
<1>2. \A k \in Leaves : leave'[k] # None => RowSound(leave'[k])
    BY DEF RowsInv, LeaveTypeOK, Granted
<1>. DEFINE c == [leaveCall[r] EXCEPT !.phase = phase]
<1>3. /\ c \in LeaveCall /\ CallSound(c)
      /\ leaveCall' = [leaveCall EXCEPT ![r] = c]
      /\ staff' = staff /\ companyOf' = companyOf /\ moved' = moved
      /\ told' \in [Leaves -> [Employees -> Statuses \cup {None}]]
    <2>1. leaveCall[r] \in LeaveCall /\ CallSound(leaveCall[r]) /\ leaveCall[r].phase = "ready"
        BY CallFacts DEF LeaveWrite
    <2>2. QED
        BY <2>1 DEF LeaveWrite, LeaveCall, LeavePhases, CallSound, RowsInv, LeaveTypeOK
<1>. HIDE DEF c
<1>4. QED
    BY <1>1, <1>2, <1>3, CallMoves

\* The status has no part in what makes a row sound.
LEMMA StatusSound ==
    ASSUME NEW row \in LeaveRow, RowSound(row), NEW status \in Statuses
    PROVE  /\ [row EXCEPT !.status = status] \in LeaveRow
           /\ RowSound([row EXCEPT !.status = status])
BY DEF LeaveRow, RowSound, SoundRange, InCompany, LeftBehind

LEMMA AnswerWriteRows ==
    ASSUME RowsInv, NEW r \in LeaveRequests, AnswerLeave(r)
    PROVE  RowsInv'
<1>. DEFINE l == leaveCall[r].leave
            status == AnswerOf(leaveCall[r].sent.kind)
<1>1. l \in Leaves /\ leave[l] \in LeaveRow /\ RowSound(leave[l]) /\ status \in Statuses
    BY DEF AnswerLeave, Granted, RowsInv, LeaveTypeOK, AnswerOf, Statuses
<1>2. leave' = [leave EXCEPT ![l] = [leave[l] EXCEPT !.status = status]]
    BY DEF AnswerLeave
<1>3. LeaveWrite(r, AnswerKinds, "written")
    BY DEF AnswerLeave
<1>. HIDE DEF l, status
<1>4. QED
    BY <1>1, <1>2, <1>3, StatusSound, OneLeave

LEMMA UpdateRows ==
    ASSUME RowsInv, NEW r \in LeaveRequests, UpdateLeave(r)
    PROVE  RowsInv'
<1>. DEFINE c == leaveCall[r]
            row == CHOOSE row \in c.rows : TRUE
<1>1. c \in LeaveCall /\ c.rows # {} /\ \A k \in c.rows : RowSound(k)
    BY CallFacts DEF UpdateLeave, LeaveWrite, CallSound
<1>2. row \in LeaveRow /\ RowSound(row)
    <2>1. row \in c.rows
        BY <1>1
    <2>2. QED
        BY <1>1, <2>1 DEF LeaveCall
<1>3. c.leave \in Leaves /\ leave[c.leave].status \in Statuses
    BY DEF UpdateLeave, Granted, RowsInv, LeaveTypeOK, LeaveRow
<1>4. leave' = [leave EXCEPT ![c.leave] = [row EXCEPT !.status = leave[c.leave].status]]
    BY DEF UpdateLeave
<1>5. LeaveWrite(r, {"edit"}, "done")
    BY DEF UpdateLeave
<1>. HIDE DEF row
<1>6. QED
    BY <1>2, <1>3, <1>4, <1>5, StatusSound, OneLeave

LEMMA DeleteRows ==
    ASSUME RowsInv, NEW r \in LeaveRequests, DeleteLeave(r)
    PROVE  RowsInv'
<1>1. leaveCall[r].leave \in Leaves
    BY DEF DeleteLeave, Granted
<1>2. QED
    BY <1>1, OneLeave DEF DeleteLeave

LEMMA TellRows ==
    ASSUME RowsInv, NEW r \in LeaveRequests, TellLeave(r)
    PROVE  RowsInv'
<1>1. told' \in [Leaves -> [Employees -> Statuses \cup {None}]]
    <2>1. NewsOf(leaveCall[r].sent.kind) \in Statuses
        BY DEF NewsOf, Statuses
    <2>2. QED
        BY <2>1 DEF TellLeave, RowsInv, LeaveTypeOK
<1>2. \A l \in Leaves : leave[l] # None => RowSound(leave[l])
    BY DEF RowsInv, Granted
<1>3. leaveCall[r].phase # "idle"
    BY DEF TellLeave
<1>4. leave' = leave /\ staff' = staff /\ companyOf' = companyOf /\ moved' = moved
      /\ leaveCall' = [leaveCall EXCEPT ![r] = Ended(leaveCall[r], "done")]
    BY DEF TellLeave
<1>5. leave' \in [Leaves -> LeaveRow \cup {None}]
    BY <1>4 DEF RowsInv, LeaveTypeOK
<1>6. QED
    BY <1>1, <1>2, <1>3, <1>4, <1>5, EndedSound, CallMoves

LEMMA StopRows ==
    ASSUME RowsInv, NEW r \in LeaveRequests, StopLeaveCall(r)
    PROVE  RowsInv'
<1>1. leaveCall[r].phase # "idle"
    BY DEF StopLeaveCall
<1>2. PICK phase \in {"refused", "lost"} :
          leaveCall' = [leaveCall EXCEPT ![r] = Ended(leaveCall[r], phase)]
    BY DEF StopLeaveCall
<1>3. QED
    BY <1>1, <1>2, EndedSound, CallReads DEF StopLeaveCall

\* Rows that stay sound when somebody moves.
LEMMA MovesKeep ==
    ASSUME RowsInv, leave' = leave, leaveCall' = leaveCall, LeaveTypeOK',
           ASSUME NEW k \in LeaveRow, RowSound(k) PROVE RowSound(k)',
           \A f \in Employees : StaffSound(f)'
    PROVE  RowsInv'
<1>1. ASSUME NEW q \in LeaveRequests PROVE CallSound(leaveCall[q])'
    <2>1. leaveCall[q] \in LeaveCall /\ CallSound(leaveCall[q])
        BY CallFacts
    <2>2. leaveCall[q].rows \subseteq LeaveRow
        BY <2>1 DEF LeaveCall
    <2>3. QED
        BY <2>1, <2>2 DEF CallSound
<1>2. ASSUME NEW l \in Granted' PROVE RowSound(leave[l])'
    <2>1. l \in Granted /\ leave[l] \in LeaveRow
        BY DEF Granted, RowsInv, LeaveTypeOK
    <2>2. RowSound(leave[l])
        BY <2>1 DEF RowsInv
    <2>3. QED
        BY <2>1, <2>2
<1>3. QED
    BY <1>1, <1>2 DEF RowsInv

\* An employee who is edited stays in the company and the branch, or is known to have moved.
LEMMA StaffEditRows ==
    ASSUME RowsInv, NEW e \in Employees, EditStaff(e)
    PROVE  RowsInv'
<1>1. PICK row \in StaffRows :
          /\ row.branch # staff[e].branch => StaffInCompany(row)
          /\ staff' = [staff EXCEPT ![e] = row]
          /\ moved' = IF [row EXCEPT !.enabled = staff[e].enabled] = staff[e]
                      THEN moved ELSE moved \cup {e}
    BY DEF EditStaff
<1>2. row \in StaffRow /\ staff[e] \in StaffRow
    BY LeaveAssumption DEF RowsInv, LeaveTypeOK
<1>3. \/ e \in moved'
      \/ row.company = staff[e].company /\ row.branch = staff[e].branch
    BY <1>1, <1>2 DEF StaffRow
<1>4. /\ moved \subseteq moved' /\ companyOf' = companyOf
      /\ leave' = leave /\ leaveCall' = leaveCall
    BY <1>1 DEF EditStaff
<1>5. \A f \in Employees : \/ f \in moved'
                            \/ /\ staff'[f].company = staff[f].company
                               /\ staff'[f].branch = staff[f].branch
    BY <1>1, <1>3 DEF RowsInv, LeaveTypeOK
<1>6. LeaveTypeOK'
    BY <1>1, <1>2 DEF EditStaff, RowsInv, LeaveTypeOK
<1>7. ASSUME NEW k \in LeaveRow, RowSound(k) PROVE RowSound(k)'
    <2>1. k.employee \in Employees
        BY DEF LeaveRow
    <2>2. QED
        BY <1>4, <1>5, <1>7, <2>1 DEF RowSound, InCompany, LeftBehind, SoundRange
<1>8. ASSUME NEW f \in Employees PROVE StaffSound(f)'
    <2>1. StaffSound(f)
        BY DEF RowsInv
    <2>2. QED
        BY <1>4, <1>5, <2>1 DEF StaffSound, StaffInCompany
<1>9. QED
    BY <1>4, <1>6, <1>7, <1>8, MovesKeep

\* A branch that moves takes only rows with it that are known to be left behind.
LEMMA BranchMoveRows ==
    ASSUME RowsInv, NEW b \in Branches, MoveBranch(b)
    PROVE  RowsInv'
<1>1. PICK company \in Companies : companyOf' = [companyOf EXCEPT ![b] = company]
    BY DEF MoveBranch
<1>2. /\ moved' = moved \cup {b} /\ staff' = staff /\ told' = told
      /\ leave' = leave /\ leaveCall' = leaveCall
    BY DEF MoveBranch
<1>3. \A a \in Branches : a \in moved' \/ companyOf'[a] = companyOf[a]
    BY <1>1, <1>2 DEF RowsInv, LeaveTypeOK
<1>4. LeaveTypeOK'
    BY <1>1, <1>2 DEF RowsInv, LeaveTypeOK
<1>5. ASSUME NEW k \in LeaveRow, RowSound(k) PROVE RowSound(k)'
    <2>1. k.branch \in Branches \cup {None}
        BY DEF LeaveRow
    <2>2. QED
        BY <1>2, <1>3, <1>5, <2>1 DEF RowSound, InCompany, LeftBehind, SoundRange
<1>6. ASSUME NEW f \in Employees PROVE StaffSound(f)'
    <2>1. StaffSound(f) /\ staff[f].branch \in Branches \cup {None}
        BY DEF RowsInv, LeaveTypeOK, StaffRow
    <2>2. QED
        BY <1>2, <1>3, <2>1 DEF StaffSound, StaffInCompany
<1>7. QED
    BY <1>2, <1>4, <1>5, <1>6, MovesKeep

LEMMA InitRows == LeaveInit => RowsInv
<1>. SUFFICES ASSUME LeaveInit PROVE RowsInv
    OBVIOUS
<1>1. /\ staff \in [Employees -> StaffRow] /\ companyOf \in [Branches -> Companies]
      /\ \A e \in Employees : StaffSound(e)
    BY LeaveAssumption DEF LeaveInit, StaffSound
<1>2. leave \in [Leaves -> LeaveRow \cup {None}]
    <2>1. PICK rows \in [SeedLeaves -> SeedRows \cup {None}] :
              leave = [l \in Leaves |-> IF l \in SeedLeaves THEN rows[l] ELSE None]
        BY DEF LeaveInit
    <2>2. QED
        BY <2>1, LeaveAssumption
<1>3. told \in [Leaves -> [Employees -> Statuses \cup {None}]]
    <2>1. ASSUME NEW l \in Answered PROVE leave[l].status \in Statuses
        BY <1>2 DEF Answered, Granted, LeaveRow
    <2>2. QED
        BY <2>1 DEF LeaveInit
<1>4. leaveCall \in [LeaveRequests -> LeaveCall] /\ moved \subseteq Employees \cup Branches
      /\ \A r \in LeaveRequests : CallSound(leaveCall[r])
    BY DEF LeaveInit, IdleLeaveCall, LeaveCall, LeavePhases, CallSound
<1>5. \A l \in Granted : RowSound(leave[l])
    BY DEF LeaveInit, RangesSound, LeavesInCompany, RowSound
<1>6. QED
    BY <1>1, <1>2, <1>3, <1>4, <1>5 DEF RowsInv, LeaveTypeOK

LEMMA NextRows == RowsInv /\ [LeaveNext]_leaveVars => RowsInv'
<1>. SUFFICES ASSUME RowsInv, [LeaveNext]_leaveVars PROVE RowsInv'
    OBVIOUS
<1>1. CASE \E r \in LeaveRequests :
               \/ StartLeaveCall(r) \/ CheckGrant(r) \/ ListCrew(r) \/ LoadRequester(r)
               \/ LoadToAnswer(r) \/ LoadToEdit(r) \/ CheckEdit(r) \/ LoadToDelete(r)
    BY <1>1, StartRows, GrantRows, CrewRows, RequestRows, AnswerRows, EditLoadRows,
       EditCheckRows, DeleteLoadRows
<1>2. CASE \E r \in LeaveRequests :
               \/ InsertLeaves(r) \/ AnswerLeave(r) \/ UpdateLeave(r) \/ DeleteLeave(r)
               \/ TellLeave(r) \/ StopLeaveCall(r)
    BY <1>2, InsertRows, AnswerWriteRows, UpdateRows, DeleteRows, TellRows, StopRows
<1>3. CASE \E e \in Employees : EditStaff(e)
    BY <1>3, StaffEditRows
<1>4. CASE \E b \in MovingBranches : MoveBranch(b)
    BY <1>4, BranchMoveRows, LeaveAssumption
<1>5. CASE UNCHANGED leaveVars
    BY <1>5 DEF leaveVars, RowsInv, LeaveTypeOK, CallSound, RowSound, SoundRange, InCompany,
                LeftBehind, Granted, StaffSound, StaffInCompany
<1>6. QED
    BY <1>1, <1>2, <1>3, <1>4, <1>5 DEF LeaveNext

(***************************************************************************)
(* The inductive invariant about answers.                                  *)
(***************************************************************************)
OverPhases == {"written", "done", "lost"}

\* Answers that have found leave l pending, whether they have been written or not.
Answerers(l) == Answers(l) \cup Answering(l)

\* A leave bears the name of a call that has written it.
NamesFresh ==
    \A r \in LeaveRequests, e \in Employees :
        leave[<<r, e>>] # None \/ (\E q \in LeaveRequests : leaveCall[q].leave = <<r, e>>) =>
            leaveCall[r].phase \in OverPhases

\* What has been answered stays so.
AnswerStays ==
    \A l \in Leaves : Answers(l) # {} /\ leave[l] # None => leave[l].status # "pending"

\* Of two calls that answer one leave, one knew of the other.
AnswerersKnown ==
    \A l \in Leaves : \A q, r \in Answerers(l) :
        q = r \/ q \in leaveCall[r].during \/ r \in leaveCall[q].during

AnswersInv == NamesFresh /\ AnswerStays /\ AnswerersKnown

LEMMA InitAnswers == LeaveInit => AnswersInv
<1>. SUFFICES ASSUME LeaveInit PROVE AnswersInv
    OBVIOUS
<1>1. \A r \in LeaveRequests : leaveCall[r].phase = "idle" /\ leaveCall[r].leave = None
    BY DEF LeaveInit, IdleLeaveCall
<1>2. \A l \in Leaves : Answers(l) = {} /\ Answering(l) = {}
    BY <1>1 DEF Answers, Answering
<1>3. NamesFresh
    <2>1. \A r \in LeaveRequests, e \in Employees :
              leave[<<r, e>>] = None /\ <<r, e>> # None
        BY LeaveAssumption DEF LeaveInit, Leaves
    <2>2. QED
        BY <1>1, <2>1 DEF NamesFresh
<1>4. QED
    BY <1>2, <1>3 DEF AnswersInv, AnswerStays, AnswerersKnown, Answerers

\* A step of a call that neither starts it, nor lets it answer, nor writes an answer or a
\* new leave.
LEMMA QuietStep ==
    ASSUME AnswersInv, NEW r \in LeaveRequests,
           \A q \in LeaveRequests \ {r} : leaveCall'[q] = leaveCall[q],
           leaveCall'[r].leave = leaveCall[r].leave, leaveCall'[r].sent = leaveCall[r].sent,
           leaveCall'[r].during = leaveCall[r].during,
           leaveCall[r].phase \in OverPhases => leaveCall'[r].phase \in OverPhases,
           leaveCall[r].sent.kind \in AnswerKinds =>
               /\ leaveCall'[r].phase \in OverPhases => leaveCall[r].phase \in OverPhases
               /\ leaveCall'[r].phase # "ready",
           \A l \in Leaves : leave'[l] # None =>
               leave[l] # None /\ leave'[l].status = leave[l].status
    PROVE  AnswersInv'
<1>. USE DEF AnswersInv
<1>1. \A q \in LeaveRequests :
          /\ leaveCall'[q].leave = leaveCall[q].leave
          /\ leaveCall'[q].during = leaveCall[q].during
          /\ leaveCall'[q].sent = leaveCall[q].sent
          /\ leaveCall[q].phase \in OverPhases => leaveCall'[q].phase \in OverPhases
    OBVIOUS
<1>2. \A l \in Leaves : Answers(l)' \subseteq Answers(l) /\ Answering(l)' \subseteq Answering(l)
    <2> SUFFICES ASSUME NEW l \in Leaves, NEW q \in LeaveRequests
                 PROVE  /\ q \in Answers(l)' => q \in Answers(l)
                        /\ q \in Answering(l)' => q \in Answering(l)
        BY DEF Answers, Answering
    <2>1. CASE q = r
        BY <2>1 DEF Answers, Answering, OverPhases
    <2>2. CASE q # r
        BY <2>2 DEF Answers, Answering
    <2>3. QED
        BY <2>1, <2>2
<1>3. NamesFresh'
    <2> SUFFICES ASSUME NEW q \in LeaveRequests, NEW e \in Employees,
                        leave'[<<q, e>>] # None
                        \/ \E p \in LeaveRequests : leaveCall'[p].leave = <<q, e>>
                 PROVE  leaveCall'[q].phase \in OverPhases
        BY DEF NamesFresh
    <2>1. leave[<<q, e>>] # None \/ \E p \in LeaveRequests : leaveCall[p].leave = <<q, e>>
        BY <1>1 DEF Leaves
    <2>2. QED
        BY <1>1, <2>1 DEF NamesFresh
<1>4. AnswerStays'
    BY <1>2 DEF AnswerStays
<1>5. AnswerersKnown'
    <2>1. \A l \in Leaves : Answerers(l)' \subseteq Answerers(l)
        BY <1>2 DEF Answerers
    <2>2. \A l \in Leaves : Answerers(l) \subseteq LeaveRequests
        BY DEF Answerers, Answers, Answering
    <2>3. QED
        BY <1>1, <2>1, <2>2 DEF AnswerersKnown
<1>6. QED
    BY <1>3, <1>4, <1>5

LEMMA EndedFields ==
    ASSUME NEW c, NEW phase
    PROVE  /\ Ended(c, phase).phase = phase /\ Ended(c, phase).leave = c.leave
           /\ Ended(c, phase).sent = c.sent /\ Ended(c, phase).during = c.during
BY DEF Ended, IdleLeaveCall

\* A call that is refused.
LEMMA RefusedAnswers ==
    ASSUME RowsInv, AnswersInv, NEW r \in LeaveRequests,
           leaveCall[r].phase \in {"started", "loaded", "ready"},
           leaveCall' = [leaveCall EXCEPT ![r] = Ended(leaveCall[r], "refused")],
           leave' = leave
    PROVE  AnswersInv'
<1>1. leaveCall'[r] = Ended(leaveCall[r], "refused")
      /\ \A q \in LeaveRequests \ {r} : leaveCall'[q] = leaveCall[q]
    BY DEF RowsInv, LeaveTypeOK
<1>2. QED
    BY <1>1, EndedFields, QuietStep DEF OverPhases

\* A read of a call that does not answer.
LEMMA ReadAnswers ==
    ASSUME RowsInv, AnswersInv, NEW r \in LeaveRequests, NEW permits \in BOOLEAN, NEW next,
           leaveCall[r].phase \in {"started", "loaded"},
           leaveCall[r].sent.kind \notin AnswerKinds,
           next.leave = leaveCall[r].leave, next.sent = leaveCall[r].sent,
           next.during = leaveCall[r].during, LeaveRead(r, permits, next)
    PROVE  AnswersInv'
<1>1. CASE permits
    <2>1. leaveCall' = [leaveCall EXCEPT ![r] = next] /\ leave' = leave
        BY <1>1 DEF LeaveRead
    <2>2. leaveCall'[r] = next /\ \A q \in LeaveRequests \ {r} : leaveCall'[q] = leaveCall[q]
        BY <2>1 DEF RowsInv, LeaveTypeOK
    <2>3. QED
        BY <2>1, <2>2, QuietStep DEF OverPhases
<1>2. CASE ~permits
    BY <1>2, RefusedAnswers DEF LeaveRead
<1>3. QED
    BY <1>1, <1>2

LEMMA StartAnswers ==
    ASSUME RowsInv, AnswersInv, NEW r \in LeaveRequests, StartLeaveCall(r)
    PROVE  AnswersInv'
<1>. USE DEF AnswersInv
<1>1. PICK sent \in LeaveInputs, k \in Granted \cup {None} :
          leaveCall' = [leaveCall EXCEPT ![r] =
                [IdleLeaveCall EXCEPT !.phase = "started", !.sent = sent, !.leave = k]]
    BY DEF StartLeaveCall
<1>2. leaveCall[r].phase = "idle" /\ leave' = leave
    BY DEF StartLeaveCall
<1>3. /\ leaveCall'[r].phase = "started" /\ leaveCall'[r].leave = k
      /\ \A q \in LeaveRequests \ {r} : leaveCall'[q] = leaveCall[q]
    BY <1>1 DEF IdleLeaveCall, RowsInv, LeaveTypeOK
<1>4. \A l \in Leaves : Answers(l)' = Answers(l) /\ Answering(l)' = Answering(l)
                        /\ r \notin Answers(l) /\ r \notin Answering(l)
    BY <1>2, <1>3 DEF Answers, Answering
<1>5. NamesFresh'
    <2> SUFFICES ASSUME NEW q \in LeaveRequests, NEW e \in Employees,
                        leave[<<q, e>>] # None
                        \/ \E p \in LeaveRequests : leaveCall'[p].leave = <<q, e>>
                 PROVE  leaveCall'[q].phase \in OverPhases
        BY <1>2 DEF NamesFresh
    <2>1. <<q, e>> # None
        BY LeaveAssumption DEF Leaves
    <2>2. leave[<<q, e>>] # None \/ \E p \in LeaveRequests : leaveCall[p].leave = <<q, e>>
        BY <1>3, <2>1 DEF Granted
    <2>3. leaveCall[q].phase \in OverPhases
        BY <2>2 DEF NamesFresh
    <2>4. q # r
        BY <1>2, <2>3 DEF OverPhases
    <2>5. QED
        BY <1>3, <2>3, <2>4
<1>6. AnswerStays'
    BY <1>2, <1>4 DEF AnswerStays
<1>7. AnswerersKnown'
    <2>1. \A l \in Leaves : Answerers(l)' = Answerers(l) /\ Answerers(l) \subseteq LeaveRequests \ {r}
        BY <1>4 DEF Answerers, Answers, Answering
    <2>2. QED
        BY <1>3, <2>1 DEF AnswerersKnown
<1>8. QED
    BY <1>5, <1>6, <1>7

\* An answer finds the leave pending, so that no answer has been written, and knows of
\* all that have found it so too.
LEMMA LoadAnswers ==
    ASSUME RowsInv, AnswersInv, NEW r \in LeaveRequests, LoadToAnswer(r)
    PROVE  AnswersInv'
<1>. USE DEF AnswersInv
<1>. DEFINE c == leaveCall[r]
            permits == /\ c.leave \in Granted
                       /\ MayAccess(c.sent.actor, PlaceOf(leave[c.leave]))
                       /\ leave[c.leave].status = "pending"
            next == [c EXCEPT !.phase = "ready", !.rows = {leave[c.leave]},
                              !.during = Answering(c.leave)]
<1>1. c.phase = "started" /\ c.sent.kind \in AnswerKinds /\ LeaveRead(r, permits, next)
    BY DEF LoadToAnswer
<1>2. c \in LeaveCall
    BY DEF RowsInv, LeaveTypeOK
<1>3. leave' = leave
    BY <1>1 DEF LeaveRead
<1>4. CASE ~permits
    <2>1. leaveCall' = [leaveCall EXCEPT ![r] = Ended(c, "refused")]
        BY <1>1, <1>4 DEF LeaveRead
    <2>2. QED
        BY <1>1, <1>3, <2>1, RefusedAnswers
<1>5. CASE permits
    <2>1. /\ leaveCall'[r].phase = "ready" /\ leaveCall'[r].leave = c.leave
          /\ leaveCall'[r].during = Answering(c.leave)
          /\ \A q \in LeaveRequests \ {r} : leaveCall'[q] = leaveCall[q]
        BY <1>1, <1>2, <1>5 DEF LeaveRead, LeaveCall, RowsInv, LeaveTypeOK
    <2>2. c.leave \in Leaves /\ Answers(c.leave) = {}
        BY <1>5 DEF Granted, AnswerStays
    <2>3. \A l \in Leaves : Answers(l)' = Answers(l) /\ r \notin Answers(l)
        BY <1>1, <2>1 DEF Answers
    <2>4. \A l \in Leaves : /\ r \notin Answering(l)
                            /\ Answering(l)' \ {r} = Answering(l)
                            /\ l # c.leave => r \notin Answering(l)'
        BY <1>1, <2>1 DEF Answering
    <2>5. NamesFresh'
        <3>1. \A q \in LeaveRequests : leaveCall'[q].leave = leaveCall[q].leave
                                       /\ (leaveCall[q].phase \in OverPhases =>
                                               leaveCall'[q].phase \in OverPhases)
            BY <1>1, <2>1 DEF OverPhases
        <3>2. QED
            BY <1>3, <3>1 DEF NamesFresh
    <2>6. AnswerStays'
        BY <1>3, <2>3 DEF AnswerStays
    <2>7. AnswerersKnown'
        <3> SUFFICES ASSUME NEW l \in Leaves, NEW p \in Answerers(l)', NEW q \in Answerers(l)'
                     PROVE  p = q \/ p \in leaveCall'[q].during \/ q \in leaveCall'[p].during
            BY DEF AnswerersKnown
        <3>1. p \in LeaveRequests /\ q \in LeaveRequests
            BY DEF Answerers, Answers, Answering
        <3>2. CASE p # r /\ q # r
            <4>1. p \in Answerers(l) /\ q \in Answerers(l)
                BY <2>3, <2>4, <3>2 DEF Answerers
            <4>2. QED
                BY <2>1, <3>1, <3>2, <4>1 DEF AnswerersKnown
        <3>3. CASE p = r /\ q # r
            <4>1. l = c.leave
                BY <2>3, <2>4, <3>3 DEF Answerers
            <4>2. q \in Answering(c.leave)
                BY <2>2, <2>3, <2>4, <3>3, <4>1 DEF Answerers
            <4>3. QED
                BY <2>1, <3>3, <4>2
        <3>4. CASE p # r /\ q = r
            <4>1. l = c.leave
                BY <2>3, <2>4, <3>4 DEF Answerers
            <4>2. p \in Answering(c.leave)
                BY <2>2, <2>3, <2>4, <3>4, <4>1 DEF Answerers
            <4>3. QED
                BY <2>1, <3>4, <4>2
        <3>5. QED
            BY <3>2, <3>3, <3>4
    <2>8. QED
        BY <2>5, <2>6, <2>7
<1>6. QED
    BY <1>4, <1>5

\* A leave that is new has been answered by nobody.
LEMMA InsertAnswers ==
    ASSUME RowsInv, AnswersInv, NEW r \in LeaveRequests, InsertLeaves(r)
    PROVE  AnswersInv'
<1>. USE DEF AnswersInv
<1>1. /\ leaveCall[r].phase = "ready" /\ leaveCall[r].sent.kind \notin AnswerKinds
      /\ leaveCall[r] \in LeaveCall
    BY DEF InsertLeaves, LeaveWrite, AnswerKinds, RowsInv, LeaveTypeOK
<1>2. /\ leaveCall'[r].phase = "written" /\ leaveCall'[r].leave = leaveCall[r].leave
      /\ leaveCall'[r].sent = leaveCall[r].sent /\ leaveCall'[r].during = leaveCall[r].during
      /\ \A q \in LeaveRequests \ {r} : leaveCall'[q] = leaveCall[q]
    BY <1>1 DEF InsertLeaves, LeaveWrite, LeaveCall, RowsInv, LeaveTypeOK
<1>3. \A l \in Leaves : leave'[l] = leave[l] \/ \E e \in Employees : l = <<r, e>>
    <2>1. \A row \in leaveCall[r].rows : row.employee \in Employees
        BY <1>1 DEF LeaveCall, LeaveRow
    <2>2. QED
        BY <2>1 DEF InsertLeaves
<1>4. \A l \in Leaves : Answers(l)' = Answers(l) /\ Answering(l)' = Answering(l)
    BY <1>1, <1>2 DEF Answers, Answering
<1>5. \A e \in Employees : Answers(<<r, e>>) = {}
    <2>1. \A e \in Employees, q \in LeaveRequests : leaveCall[q].leave # <<r, e>>
        BY <1>1 DEF NamesFresh, OverPhases
    <2>2. QED
        BY <2>1 DEF Answers
<1>6. NamesFresh'
    <2> SUFFICES ASSUME NEW q \in LeaveRequests, NEW e \in Employees,
                        leave'[<<q, e>>] # None
                        \/ \E p \in LeaveRequests : leaveCall'[p].leave = <<q, e>>
                 PROVE  leaveCall'[q].phase \in OverPhases
        BY DEF NamesFresh
    <2>1. CASE q = r
        BY <1>2, <2>1 DEF OverPhases
    <2>2. CASE q # r
        <3>1. leave'[<<q, e>>] = leave[<<q, e>>]
            BY <1>3, <2>2 DEF Leaves
        <3>2. leave[<<q, e>>] # None \/ \E p \in LeaveRequests : leaveCall[p].leave = <<q, e>>
            BY <1>2, <3>1
        <3>3. QED
            BY <1>2, <2>2, <3>2 DEF NamesFresh
    <2>3. QED
        BY <2>1, <2>2
<1>7. AnswerStays'
    BY <1>3, <1>4, <1>5 DEF AnswerStays
<1>8. AnswerersKnown'
    <2>1. \A l \in Leaves : Answerers(l)' = Answerers(l) /\ Answerers(l) \subseteq LeaveRequests
        BY <1>4 DEF Answerers, Answers, Answering
    <2>2. \A q \in LeaveRequests : leaveCall'[q].during = leaveCall[q].during
        BY <1>2
    <2>3. QED
        BY <2>1, <2>2 DEF AnswerersKnown
<1>9. QED
    BY <1>6, <1>7, <1>8

LEMMA WriteAnswers ==
    ASSUME RowsInv, AnswersInv, NEW r \in LeaveRequests, AnswerLeave(r)
    PROVE  AnswersInv'
<1>. USE DEF AnswersInv
<1>. DEFINE c == leaveCall[r]
            k == c.leave
<1>1. /\ c.phase = "ready" /\ c.sent.kind \in AnswerKinds /\ c \in LeaveCall /\ k \in Leaves
      /\ leave[k] \in LeaveRow
    BY DEF AnswerLeave, LeaveWrite, Granted, RowsInv, LeaveTypeOK
<1>2. /\ leaveCall'[r].phase = "written" /\ leaveCall'[r].leave = c.leave
      /\ leaveCall'[r].sent = c.sent /\ leaveCall'[r].during = c.during
      /\ \A q \in LeaveRequests \ {r} : leaveCall'[q] = leaveCall[q]
    BY <1>1 DEF AnswerLeave, LeaveWrite, LeaveCall, RowsInv, LeaveTypeOK
<1>3. /\ leave'[k].status # "pending" /\ leave[k] # None
      /\ \A l \in Leaves \ {k} : leave'[l] = leave[l]
    BY <1>1, LeaveAssumption DEF AnswerLeave, AnswerOf, RowsInv, LeaveTypeOK, LeaveRow, Granted
<1>4. \A l \in Leaves : l # k => Answers(l)' = Answers(l)
    BY <1>2 DEF Answers
<1>5. \A l \in Leaves : Answerers(l)' = Answerers(l)
    BY <1>1, <1>2 DEF Answerers, Answers, Answering
<1>6. NamesFresh'
    <2>1. \A q \in LeaveRequests : leaveCall'[q].leave = leaveCall[q].leave
                                   /\ (leaveCall[q].phase \in OverPhases =>
                                           leaveCall'[q].phase \in OverPhases)
        BY <1>2 DEF OverPhases
    <2>2. \A q \in LeaveRequests, e \in Employees : <<q, e>> \in Leaves
        BY DEF Leaves
    <2>3. QED
        BY <1>3, <2>1, <2>2 DEF NamesFresh
<1>7. AnswerStays'
    BY <1>3, <1>4 DEF AnswerStays
<1>8. AnswerersKnown'
    <2>1. \A l \in Leaves : Answerers(l) \subseteq LeaveRequests
        BY DEF Answerers, Answers, Answering
    <2>2. \A q \in LeaveRequests : leaveCall'[q].during = leaveCall[q].during
        BY <1>2
    <2>3. QED
        BY <1>5, <2>1, <2>2 DEF AnswerersKnown
<1>9. QED
    BY <1>6, <1>7, <1>8

\* An edit or a deletion is no answer, and keeps the status.
LEMMA UpdateAnswers ==
    ASSUME RowsInv, AnswersInv, NEW r \in LeaveRequests, UpdateLeave(r) \/ DeleteLeave(r)
    PROVE  AnswersInv'
<1>. DEFINE c == leaveCall[r]
            row == CHOOSE row \in c.rows : TRUE
<1>1. c \in LeaveCall /\ c.sent.kind \notin AnswerKinds /\ c.leave \in Granted
    BY DEF UpdateLeave, DeleteLeave, LeaveWrite, AnswerKinds, RowsInv, LeaveTypeOK
<1>2. /\ leaveCall'[r].phase = "done" /\ leaveCall'[r].leave = c.leave
      /\ leaveCall'[r].sent = c.sent /\ leaveCall'[r].during = c.during
      /\ \A q \in LeaveRequests \ {r} : leaveCall'[q] = leaveCall[q]
    BY <1>1 DEF UpdateLeave, DeleteLeave, LeaveWrite, LeaveCall, RowsInv, LeaveTypeOK
<1>3. ASSUME NEW l \in Leaves, leave'[l] # None
      PROVE  leave[l] # None /\ leave'[l].status = leave[l].status
    <2>1. CASE UpdateLeave(r)
        <3>1. row \in LeaveRow
            <4>1. c.rows # {} /\ c.rows \subseteq LeaveRow
                BY <1>1, <2>1, CallFacts DEF UpdateLeave, LeaveWrite, CallSound, LeaveCall
            <4>2. QED
                BY <4>1
        <3>2. leave' = [leave EXCEPT ![c.leave] = [row EXCEPT !.status = leave[c.leave].status]]
            BY <2>1 DEF UpdateLeave
        <3>. HIDE DEF row
        <3>3. QED
            <4>1. CASE l = c.leave
                BY <1>1, <3>1, <3>2, <4>1 DEF Granted, LeaveRow, RowsInv, LeaveTypeOK
            <4>2. CASE l # c.leave
                BY <1>1, <1>3, <3>2, <4>2 DEF Granted, RowsInv, LeaveTypeOK
            <4>3. QED
                BY <4>1, <4>2
    <2>2. CASE DeleteLeave(r)
        BY <1>1, <1>3, <2>2 DEF DeleteLeave, Granted, RowsInv, LeaveTypeOK
    <2>3. QED
        BY <2>1, <2>2
<1>4. QED
    BY <1>1, <1>2, <1>3, QuietStep DEF OverPhases

LEMMA TellAnswers ==
    ASSUME RowsInv, AnswersInv, NEW r \in LeaveRequests, TellLeave(r)
    PROVE  AnswersInv'
<1>1. leaveCall'[r] = Ended(leaveCall[r], "done") /\ leaveCall[r].phase = "written"
      /\ leave' = leave /\ \A q \in LeaveRequests \ {r} : leaveCall'[q] = leaveCall[q]
    BY DEF TellLeave, RowsInv, LeaveTypeOK
<1>2. QED
    BY <1>1, EndedFields, QuietStep DEF OverPhases

LEMMA StopAnswers ==
    ASSUME RowsInv, AnswersInv, NEW r \in LeaveRequests, StopLeaveCall(r)
    PROVE  AnswersInv'
<1>1. CASE leaveCall[r].phase = "written"
    <2>1. leaveCall'[r] = Ended(leaveCall[r], "lost") /\ leave' = leave
          /\ \A q \in LeaveRequests \ {r} : leaveCall'[q] = leaveCall[q]
        BY <1>1 DEF StopLeaveCall, RowsInv, LeaveTypeOK
    <2>2. QED
        BY <1>1, <2>1, EndedFields, QuietStep DEF OverPhases
<1>2. CASE leaveCall[r].phase # "written"
    BY <1>2, RefusedAnswers DEF StopLeaveCall
<1>3. QED
    BY <1>1, <1>2

LEMMA LoadsAnswers ==
    ASSUME RowsInv, AnswersInv, NEW r \in LeaveRequests,
           CheckGrant(r) \/ ListCrew(r) \/ LoadRequester(r) \/ LoadToEdit(r) \/ CheckEdit(r)
           \/ LoadToDelete(r)
    PROVE  AnswersInv'
<1>. DEFINE c == leaveCall[r]
<1>1. c \in LeaveCall /\ CallSound(c)
    BY CallFacts
<1>2. c.phase \in {"started", "loaded"} /\ c.sent.kind \notin AnswerKinds
    BY <1>1 DEF CheckGrant, ListCrew, LoadRequester, LoadToEdit, CheckEdit, LoadToDelete,
                CallSound, AnswerKinds
<1>3. \E permits \in BOOLEAN : \E phase, rows :
          LeaveRead(r, permits, [c EXCEPT !.phase = phase, !.rows = rows])
          \/ LeaveRead(r, permits, [c EXCEPT !.phase = phase])
    <2>1. CASE CheckGrant(r)
        BY <2>1 DEF CheckGrant, CompanyRefused, LeaveFits, LeavePhases
    <2>2. CASE ListCrew(r)
        BY <2>2 DEF ListCrew, CompanyRefused, LeavePhases
    <2>3. CASE LoadRequester(r)
        BY <2>3 DEF LoadRequester, LeavePhases
    <2>4. CASE LoadToEdit(r)
        BY <2>4 DEF LoadToEdit, MayAccess, LeavePhases
    <2>5. CASE CheckEdit(r)
        BY <2>5 DEF CheckEdit, CompanyRefused, ScopeRefused, LeaveFits, LeavePhases
    <2>6. CASE LoadToDelete(r)
        BY <2>6 DEF LoadToDelete, MayAccess, LeavePhases
    <2>7. QED
        BY <2>1, <2>2, <2>3, <2>4, <2>5, <2>6
<1>4. PICK permits \in BOOLEAN :
          \E phase, rows :
              LeaveRead(r, permits, [c EXCEPT !.phase = phase, !.rows = rows])
              \/ LeaveRead(r, permits, [c EXCEPT !.phase = phase])
    BY <1>3
<1>5. ASSUME NEW phase, NEW rows, LeaveRead(r, permits, [c EXCEPT !.phase = phase, !.rows = rows])
      PROVE  AnswersInv'
    <2>. DEFINE next == [c EXCEPT !.phase = phase, !.rows = rows]
    <2>1. next.leave = c.leave /\ next.sent = c.sent /\ next.during = c.during
        BY <1>1 DEF LeaveCall
    <2>. HIDE DEF next
    <2>2. LeaveRead(r, permits, next)
        BY <1>5 DEF next
    <2>3. QED
        BY <1>2, <2>1, <2>2, ReadAnswers
<1>6. ASSUME NEW phase, LeaveRead(r, permits, [c EXCEPT !.phase = phase])
      PROVE  AnswersInv'
    <2>. DEFINE next == [c EXCEPT !.phase = phase]
    <2>1. next.leave = c.leave /\ next.sent = c.sent /\ next.during = c.during
        BY <1>1 DEF LeaveCall
    <2>. HIDE DEF next
    <2>2. LeaveRead(r, permits, next)
        BY <1>6 DEF next
    <2>3. QED
        BY <1>2, <2>1, <2>2, ReadAnswers
<1>7. QED
    BY <1>4, <1>5, <1>6

LEMMA NextAnswers == RowsInv /\ AnswersInv /\ [LeaveNext]_leaveVars => AnswersInv'
<1>. SUFFICES ASSUME RowsInv, AnswersInv, [LeaveNext]_leaveVars PROVE AnswersInv'
    OBVIOUS
<1>1. ASSUME NEW r \in LeaveRequests,
             \/ StartLeaveCall(r) \/ CheckGrant(r) \/ ListCrew(r) \/ LoadRequester(r)
             \/ LoadToAnswer(r) \/ LoadToEdit(r) \/ CheckEdit(r) \/ LoadToDelete(r)
      PROVE  AnswersInv'
    BY <1>1, StartAnswers, LoadAnswers, LoadsAnswers
<1>2. ASSUME NEW r \in LeaveRequests,
             \/ InsertLeaves(r) \/ AnswerLeave(r) \/ UpdateLeave(r) \/ DeleteLeave(r)
             \/ TellLeave(r) \/ StopLeaveCall(r)
      PROVE  AnswersInv'
    BY <1>2, InsertAnswers, WriteAnswers, UpdateAnswers, TellAnswers, StopAnswers
<1>3. CASE leave' = leave /\ leaveCall' = leaveCall
    BY <1>3 DEF AnswersInv, NamesFresh, AnswerStays, AnswerersKnown, Answerers, Answers, Answering
<1>4. QED
    BY <1>1, <1>2, <1>3 DEF LeaveNext, EditStaff, MoveBranch, leaveVars

(***************************************************************************)
(* The inductive invariant about what employees are told.                  *)
(***************************************************************************)
GrantKinds == {"grant", "grantAll"}

\* The call has news of leave l for its employee, or has failed to tell it.
Informing(r, l) ==
    /\ leaveCall[r].phase \in {"written", "lost"}
    /\ \/ leaveCall[r].sent.kind \in AnswerKinds /\ leaveCall[r].leave = l
       \/ leaveCall[r].sent.kind \in GrantKinds /\ l \in {r} \X Employees

\* The leave, if it is still there, is of employee e, unless it was given to somebody else.
StaysWith(l, e) == leave[l] # None => leave[l].employee = e \/ Reassigned(l)

\* What a call has loaded or granted is of the employee the leave has now.
NewsSound(r) ==
    LET c == leaveCall[r]
    IN  /\ c.phase \in {"loaded", "ready"} /\ c.sent.kind = "edit" /\ c.sent.employee = Absent =>
               \A row \in c.rows : StaysWith(c.leave, row.employee)
        /\ c.phase \in {"ready", "written"} /\ c.sent.kind \in AnswerKinds =>
               c.rows # {} /\ \A row \in c.rows : StaysWith(c.leave, row.employee)
        /\ c.phase = "ready" /\ c.sent.kind \in AnswerKinds =>
               \A q \in LeaveRequests, e \in Employees :
                   c.leave = <<q, e>> => leaveCall[q].sent.kind \notin GrantKinds
        /\ c.phase = "ready" /\ c.sent.kind \in GrantKinds =>
               \A row \in c.rows : row.status = "approved"
        /\ c.phase = "ready" /\ c.sent.kind = "request" =>
               \A row \in c.rows : row.status = "pending"
        /\ c.phase = "written" /\ c.sent.kind \in GrantKinds =>
               \A e \in Employees : leave[<<r, e>>] # None =>
                   /\ \E row \in c.rows : row.employee = e
                   /\ StaysWith(<<r, e>>, e)

\* A leave the office granted stays approved.
GrantsApproved ==
    \A r \in LeaveRequests, e \in Employees :
        leave[<<r, e>>] # None /\ leaveCall[r].sent.kind \in GrantKinds =>
            leave[<<r, e>>].status = "approved"

\* A leave has the status of its answer, if there is one.
AnswersStand ==
    \A l \in Leaves : \A r \in Answers(l) :
        leave[l] # None =>
            \/ leave[l].status = AnswerOf(leaveCall[r].sent.kind)
            \/ \E q \in Answers(l) : q # r

\* The employee of an answered leave knows, or there is a reason not to.
Informed(l) ==
    \/ told[l][leave[l].employee] = leave[l].status
    \/ \E r \in LeaveRequests : Informing(r, l)
    \/ Reassigned(l)
    \/ \E q, r \in Answers(l) : q # r

NewsInv ==
    /\ \A r \in LeaveRequests : NewsSound(r)
    /\ GrantsApproved /\ AnswersStand
    /\ \A l \in Leaves : leave[l] # None /\ leave[l].status # "pending" => Informed(l)

LEMMA InitNews == LeaveInit => NewsInv
<1>. SUFFICES ASSUME LeaveInit PROVE NewsInv
    OBVIOUS
<1>1. \A r \in LeaveRequests : leaveCall[r].phase = "idle" /\ leaveCall[r].leave = None
    BY DEF LeaveInit, IdleLeaveCall
<1>2. \A r \in LeaveRequests : NewsSound(r)
    BY <1>1 DEF NewsSound
<1>3. GrantsApproved
    <2>1. \A r \in LeaveRequests, e \in Employees : leave[<<r, e>>] = None
        BY LeaveAssumption DEF LeaveInit, Leaves
    <2>2. QED
        BY <2>1 DEF GrantsApproved
<1>4. AnswersStand
    BY <1>1 DEF AnswersStand, Answers
<1>5. ASSUME NEW l \in Leaves, leave[l] # None, leave[l].status # "pending" PROVE Informed(l)
    <2>1. l \in Answered /\ leave[l].employee \in Employees
        BY <1>5, InitRows DEF Answered, Granted, RowsInv, LeaveTypeOK, LeaveRow
    <2>2. told[l][leave[l].employee] = leave[l].status
        BY <2>1 DEF LeaveInit
    <2>3. QED
        BY <2>2 DEF Informed
<1>6. QED
    BY <1>2, <1>3, <1>4, <1>5 DEF NewsInv

\* What every step does to the calls: one call moves on, and an edit that was carried out
\* is not forgotten.
Proceeds(r) ==
    /\ \A q \in LeaveRequests \ {r} : leaveCall'[q] = leaveCall[q]
    /\ leaveCall[r].phase = "done" => leaveCall'[r] = leaveCall[r]
    /\ leaveCall[r].phase # "idle" => /\ leaveCall'[r].sent = leaveCall[r].sent
                                      /\ leaveCall'[r].leave = leaveCall[r].leave

LEMMA ReassignedStays ==
    ASSUME NEW r \in LeaveRequests, Proceeds(r), NEW l, Reassigned(l)
    PROVE  Reassigned(l)'
<1>1. PICK q \in LeaveRequests :
          /\ leaveCall[q].phase = "done" /\ leaveCall[q].leave = l
          /\ leaveCall[q].sent.kind = "edit" /\ leaveCall[q].sent.employee # Absent
    BY DEF Reassigned
<1>2. leaveCall'[q] = leaveCall[q]
    BY <1>1 DEF Proceeds
<1>3. QED
    BY <1>1, <1>2 DEF Reassigned

\* A leave the other calls know of stays with its employee, or is gone, or is given to
\* somebody else.
Keeps(l) ==
    leave'[l] # None =>
        leave[l] # None /\ (leave'[l].employee = leave[l].employee \/ Reassigned(l)')

LEMMA StaysAsItWas ==
    ASSUME NEW r \in LeaveRequests, Proceeds(r), NEW l, NEW e, Keeps(l), StaysWith(l, e)
    PROVE  leave'[l] # None => leave'[l].employee = e \/ Reassigned(l)'
BY ReassignedStays DEF Keeps, StaysWith

\* The calls that do not move know what they knew.
LEMMA OthersSound ==
    ASSUME RowsInv, NamesFresh, NewsInv, NEW r \in LeaveRequests, Proceeds(r),
           NEW q \in LeaveRequests \ {r},
           \A l \in Leaves : l \in {q} \X Employees \/ leaveCall[q].leave = l => Keeps(l)
    PROVE  NewsSound(q)'
<1>1. leaveCall'[q] = leaveCall[q] /\ NewsSound(q)
    BY DEF Proceeds, NewsInv
<1>2. PICK c, k : c = leaveCall[q] /\ k = c.leave
    OBVIOUS
<1>3. c.phase # "idle" /\ c.sent.kind \in OfLeaveKinds => k \in Leaves
    BY <1>2, CallFacts DEF CallSound, LeaveCall
<1>4. /\ c.phase # "idle" /\ c.sent.kind \in OfLeaveKinds => Keeps(k)
      /\ \A e \in Employees : Keeps(<<q, e>>)
    BY <1>2, <1>3 DEF Leaves
<1>5. ASSUME NEW e, StaysWith(k, e), c.phase # "idle", c.sent.kind \in OfLeaveKinds
      PROVE  leave'[k] # None => leave'[k].employee = e \/ Reassigned(k)'
    BY <1>4, <1>5, StaysAsItWas
<1>6. ASSUME NEW e \in Employees, StaysWith(<<q, e>>, e)
      PROVE  leave'[<<q, e>>] # None =>
                 leave'[<<q, e>>].employee = e \/ Reassigned(<<q, e>>)'
    BY <1>4, <1>6, StaysAsItWas
<1>7. \A e \in Employees : leave'[<<q, e>>] # None => leave[<<q, e>>] # None
    BY <1>4 DEF Keeps
<1>8. ASSUME NEW p \in LeaveRequests, NEW e \in Employees, k = <<p, e>>
      PROVE  leaveCall'[p].sent = leaveCall[p].sent
    <2>1. leaveCall[p].phase \in OverPhases
        BY <1>2, <1>8 DEF NamesFresh
    <2>2. QED
        BY <2>1 DEF Proceeds, OverPhases
<1>9. ASSUME c.phase \in {"loaded", "ready"}, c.sent.kind = "edit", c.sent.employee = Absent,
             NEW row \in c.rows
      PROVE  leave'[k] # None => leave'[k].employee = row.employee \/ Reassigned(k)'
    <2>1. StaysWith(k, row.employee)
        BY <1>1, <1>2, <1>9 DEF NewsSound
    <2>2. QED
        BY <1>5, <1>9, <2>1 DEF OfLeaveKinds
<1>10. ASSUME c.phase \in {"ready", "written"}, c.sent.kind \in AnswerKinds, NEW row \in c.rows
       PROVE  leave'[k] # None => leave'[k].employee = row.employee \/ Reassigned(k)'
    <2>1. StaysWith(k, row.employee)
        BY <1>1, <1>2, <1>10 DEF NewsSound
    <2>2. QED
        BY <1>5, <1>10, <2>1 DEF OfLeaveKinds
<1>11. ASSUME c.phase = "written", c.sent.kind \in GrantKinds, NEW e \in Employees,
              leave'[<<q, e>>] # None
       PROVE  /\ \E row \in c.rows : row.employee = e
              /\ leave'[<<q, e>>].employee = e \/ Reassigned(<<q, e>>)'
    BY <1>1, <1>2, <1>6, <1>7, <1>11 DEF NewsSound
<1>12. QED
    BY <1>1, <1>2, <1>8, <1>9, <1>10, <1>11 DEF NewsSound, StaysWith

\* The calls that have granted leaves are over, so that what they sent is settled.
LEMMA GrantsStay ==
    ASSUME NamesFresh, GrantsApproved, NEW r \in LeaveRequests, Proceeds(r),
           NEW q \in LeaveRequests, NEW e \in Employees, leave[<<q, e>>] # None
    PROVE  /\ leaveCall'[q].sent = leaveCall[q].sent
           /\ leaveCall[q].sent.kind \in GrantKinds => leave[<<q, e>>].status = "approved"
<1>1. leaveCall[q].phase \in OverPhases
    BY DEF NamesFresh
<1>2. QED
    BY <1>1 DEF Proceeds, OverPhases, GrantsApproved

\* A step that neither answers a leave nor tells anybody, and keeps each leave as it is but
\* for its employee.
LEMMA QuietNews ==
    ASSUME RowsInv, NamesFresh, NewsInv, NEW r \in LeaveRequests, Proceeds(r), told' = told,
           \A l \in Leaves : Keeps(l) /\ (leave'[l] # None => leave'[l].status = leave[l].status),
           leaveCall[r].phase \in OverPhases \/ leaveCall'[r].phase \in OverPhases =>
               \/ leaveCall[r].phase = "written" /\ leaveCall'[r].phase = "lost"
               \/ /\ leaveCall[r].phase = "ready" /\ leaveCall'[r].phase = "done"
                  /\ leaveCall[r].sent.kind \notin AnswerKinds,
           NewsSound(r)'
    PROVE  NewsInv'
<1>1. \A q \in LeaveRequests : NewsSound(q)'
    BY OthersSound
<1>2. \A q \in LeaveRequests :
          /\ leaveCall[q].phase # "idle" => leaveCall'[q].sent = leaveCall[q].sent
                                            /\ leaveCall'[q].leave = leaveCall[q].leave
          /\ leaveCall[q].phase \in {"written", "lost"} =>
                 leaveCall'[q].phase \in {"written", "lost"}
    BY DEF Proceeds, OverPhases
<1>3. ASSUME NEW l \in Leaves PROVE Answers(l)' = Answers(l)
    <2>1. ASSUME NEW q \in LeaveRequests PROVE q \in Answers(l)' <=> q \in Answers(l)
        BY DEF Proceeds, Answers, OverPhases
    <2>2. QED
        BY <2>1 DEF Answers
<1>4. GrantsApproved'
    <2> SUFFICES ASSUME NEW q \in LeaveRequests, NEW e \in Employees, leave'[<<q, e>>] # None,
                        leaveCall'[q].sent.kind \in GrantKinds
                 PROVE  leave'[<<q, e>>].status = "approved"
        BY DEF GrantsApproved
    <2>1. <<q, e>> \in Leaves
        BY DEF Leaves
    <2>2. leave[<<q, e>>] # None /\ leave'[<<q, e>>].status = leave[<<q, e>>].status
        BY <2>1 DEF Keeps
    <2>3. QED
        BY <2>2, GrantsStay DEF NewsInv
<1>5. AnswersStand'
    <2> SUFFICES ASSUME NEW l \in Leaves, NEW q \in Answers(l)', leave'[l] # None
                 PROVE  \/ leave'[l].status = AnswerOf(leaveCall'[q].sent.kind)
                        \/ \E p \in Answers(l)' : p # q
        BY DEF AnswersStand
    <2>1. q \in Answers(l) /\ leave[l] # None /\ leave'[l].status = leave[l].status
        BY <1>3 DEF Keeps
    <2>2. leaveCall'[q].sent = leaveCall[q].sent
        BY <1>2, <2>1 DEF Answers
    <2>3. QED
        BY <1>3, <2>1, <2>2 DEF NewsInv, AnswersStand
<1>6. ASSUME NEW l \in Leaves, leave'[l] # None, leave'[l].status # "pending"
      PROVE  Informed(l)'
    <2>1. leave[l] # None /\ leave[l].status # "pending" /\ leave'[l].status = leave[l].status
          /\ (leave'[l].employee = leave[l].employee \/ Reassigned(l)')
        BY <1>6 DEF Keeps
    <2>2. Informed(l)
        BY <2>1 DEF NewsInv
    <2>3. Reassigned(l) => Reassigned(l)'
        BY ReassignedStays
    <2>4. ASSUME NEW q \in LeaveRequests, Informing(q, l) PROVE Informing(q, l)'
        BY <1>2, <2>4 DEF Informing
    <2>5. QED
        BY <1>3, <2>1, <2>2, <2>3, <2>4 DEF Informed
<1>7. QED
    BY <1>1, <1>4, <1>5, <1>6 DEF NewsInv

LEMMA StartNews ==
    ASSUME RowsInv, NamesFresh, NewsInv, NEW r \in LeaveRequests, StartLeaveCall(r)
    PROVE  NewsInv'
<1>1. /\ leaveCall[r].phase = "idle" /\ leaveCall'[r].phase = "started"
      /\ \A q \in LeaveRequests \ {r} : leaveCall'[q] = leaveCall[q]
      /\ leave' = leave /\ told' = told
    BY DEF StartLeaveCall, IdleLeaveCall, RowsInv, LeaveTypeOK
<1>2. NewsSound(r)' /\ Proceeds(r) /\ \A l \in Leaves : Keeps(l)
    BY <1>1 DEF NewsSound, Proceeds, Keeps
<1>3. QED
    BY <1>1, <1>2, QuietNews DEF OverPhases

LEMMA EndedNews ==
    ASSUME RowsInv, NamesFresh, NewsInv, NEW r \in LeaveRequests,
           NEW phase \in {"refused", "lost"},
           leaveCall[r].phase \in {"started", "loaded", "ready", "written"},
           leaveCall[r].phase = "written" <=> phase = "lost",
           leaveCall' = [leaveCall EXCEPT ![r] = Ended(leaveCall[r], phase)],
           leave' = leave, told' = told
    PROVE  NewsInv'
<1>1. leaveCall'[r] = Ended(leaveCall[r], phase)
      /\ \A q \in LeaveRequests \ {r} : leaveCall'[q] = leaveCall[q]
    BY DEF RowsInv, LeaveTypeOK
<1>2. leaveCall'[r].phase = phase /\ Proceeds(r)
    BY <1>1, EndedFields DEF Proceeds
<1>3. NewsSound(r)' /\ \A l \in Leaves : Keeps(l)
    BY <1>2 DEF NewsSound, Keeps
<1>4. QED
    BY <1>2, <1>3, QuietNews DEF OverPhases

LEMMA StopNews ==
    ASSUME RowsInv, NamesFresh, NewsInv, NEW r \in LeaveRequests, StopLeaveCall(r)
    PROVE  NewsInv'
BY EndedNews DEF StopLeaveCall

\* A call that reads, and knows what it has read.
LEMMA ReadNews ==
    ASSUME RowsInv, NamesFresh, NewsInv, NEW r \in LeaveRequests, NEW permits \in BOOLEAN,
           NEW next, leaveCall[r].phase \in {"started", "loaded"},
           LeaveRead(r, permits, next), next.phase \in {"loaded", "ready"},
           next.sent = leaveCall[r].sent, next.leave = leaveCall[r].leave,
           permits /\ leaveCall'[r] = next => NewsSound(r)'
    PROVE  NewsInv'
<1>1. leave' = leave /\ told' = told
    BY DEF LeaveRead
<1>2. CASE permits
    <2>1. leaveCall' = [leaveCall EXCEPT ![r] = next]
        BY <1>2 DEF LeaveRead
    <2>2. leaveCall'[r] = next /\ \A q \in LeaveRequests \ {r} : leaveCall'[q] = leaveCall[q]
        BY <2>1 DEF RowsInv, LeaveTypeOK
    <2>3. Proceeds(r) /\ \A l \in Leaves : Keeps(l)
        BY <1>1, <2>2 DEF Proceeds, Keeps
    <2>4. NewsSound(r)'
        BY <1>2, <2>2
    <2>5. QED
        BY <1>1, <2>2, <2>3, <2>4, QuietNews DEF OverPhases
<1>3. CASE ~permits
    <2>1. leaveCall' = [leaveCall EXCEPT ![r] = Ended(leaveCall[r], "refused")]
        BY <1>3 DEF LeaveRead
    <2>2. QED
        BY <1>1, <2>1, EndedNews
<1>4. QED
    BY <1>2, <1>3

LEMMA GrantNews ==
    ASSUME RowsInv, NamesFresh, NewsInv, NEW r \in LeaveRequests, CheckGrant(r)
    PROVE  NewsInv'
<1>. DEFINE c == leaveCall[r]
            row == GrantRow(c.sent, GrantPlace(c.sent), c.sent.employee, GrantPlace(c.sent).branch)
            next == [c EXCEPT !.phase = "ready", !.rows = {row}]
<1>1. c \in LeaveCall
    BY CallFacts
<1>2. c.phase = "started" /\ c.sent.kind = "grant"
    BY DEF CheckGrant
<1>3. PICK permits \in BOOLEAN : LeaveRead(r, permits, next)
    BY DEF CheckGrant, CompanyRefused, LeaveFits
<1>4. row.status = "approved"
    BY DEF GrantRow
<1>. HIDE DEF row
<1>5. next.phase = "ready" /\ next.sent = c.sent /\ next.leave = c.leave /\ next.rows = {row}
    BY <1>1 DEF LeaveCall
<1>. HIDE DEF next
<1>6. ASSUME leaveCall'[r] = next PROVE NewsSound(r)'
    BY <1>2, <1>4, <1>5, <1>6 DEF NewsSound, AnswerKinds, GrantKinds
<1>7. QED
    BY <1>2, <1>3, <1>5, <1>6, ReadNews

LEMMA CrewNews ==
    ASSUME RowsInv, NamesFresh, NewsInv, NEW r \in LeaveRequests, ListCrew(r)
    PROVE  NewsInv'
<1>. DEFINE c == leaveCall[r]
            place == GrantPlace(c.sent)
            rows == {GrantRow(c.sent, place, e,
                         IF place.branch = None THEN staff[e].branch ELSE place.branch) :
                     e \in ActiveCrew(place)}
            next == [c EXCEPT !.phase = "ready", !.rows = rows]
<1>1. c \in LeaveCall
    BY CallFacts
<1>2. c.phase = "started" /\ c.sent.kind = "grantAll"
    BY DEF ListCrew
<1>3. PICK permits \in BOOLEAN : LeaveRead(r, permits, next)
    BY DEF ListCrew, CompanyRefused
<1>4. \A row \in rows : row.status = "approved"
    BY DEF GrantRow
<1>. HIDE DEF rows
<1>5. next.phase = "ready" /\ next.sent = c.sent /\ next.leave = c.leave /\ next.rows = rows
    BY <1>1 DEF LeaveCall
<1>. HIDE DEF next
<1>6. ASSUME leaveCall'[r] = next PROVE NewsSound(r)'
    BY <1>2, <1>4, <1>5, <1>6 DEF NewsSound, AnswerKinds, GrantKinds
<1>7. QED
    BY <1>2, <1>3, <1>5, <1>6, ReadNews

LEMMA RequestNews ==
    ASSUME RowsInv, NamesFresh, NewsInv, NEW r \in LeaveRequests, LoadRequester(r)
    PROVE  NewsInv'
<1>. DEFINE c == leaveCall[r]
            e == c.sent.actor.sub
            row == [company |-> staff[e].company, branch |-> staff[e].branch,
                    employee |-> e, from |-> c.sent.from, to |-> RequestedTo(c.sent),
                    days |-> RequestedDays(c.sent), duration |-> c.sent.duration,
                    status |-> "pending"]
            next == [c EXCEPT !.phase = "ready", !.rows = {row}]
<1>1. c \in LeaveCall
    BY CallFacts
<1>2. c.phase = "started" /\ c.sent.kind = "request"
    BY DEF LoadRequester
<1>3. PICK permits \in BOOLEAN : LeaveRead(r, permits, next)
    BY DEF LoadRequester
<1>4. row.status = "pending"
    OBVIOUS
<1>. HIDE DEF row
<1>5. next.phase = "ready" /\ next.sent = c.sent /\ next.leave = c.leave /\ next.rows = {row}
    BY <1>1 DEF LeaveCall
<1>. HIDE DEF next
<1>6. ASSUME leaveCall'[r] = next PROVE NewsSound(r)'
    BY <1>2, <1>4, <1>5, <1>6 DEF NewsSound, AnswerKinds, GrantKinds
<1>7. QED
    BY <1>2, <1>3, <1>5, <1>6, ReadNews

\* An answer is for the employee the leave has when it is loaded, and for no leave the
\* office granted.
LEMMA LoadNews ==
    ASSUME RowsInv, NamesFresh, NewsInv, NEW r \in LeaveRequests, LoadToAnswer(r)
    PROVE  NewsInv'
<1>1. PICK c, k : c = leaveCall[r] /\ k = c.leave /\ c \in LeaveCall
    BY CallFacts
<1>. DEFINE permits == /\ k \in Granted
                       /\ MayAccess(c.sent.actor, PlaceOf(leave[k]))
                       /\ leave[k].status = "pending"
            next == [c EXCEPT !.phase = "ready", !.rows = {leave[k]}, !.during = Answering(k)]
<1>2. /\ c.phase = "started" /\ c.sent.kind \in AnswerKinds
      /\ LeaveRead(r, permits, next)
    BY <1>1 DEF LoadToAnswer
<1>3. leave' = leave
    BY <1>2 DEF LeaveRead
<1>4. next.phase = "ready" /\ next.sent = c.sent /\ next.leave = k /\ next.rows = {leave[k]}
    BY <1>1 DEF LeaveCall
<1>5. ASSUME permits, leaveCall'[r] = next PROVE NewsSound(r)'
    <2>. HIDE DEF next
    <2>1. ASSUME NEW q \in LeaveRequests, NEW e \in Employees, k = <<q, e>>
          PROVE  leaveCall'[q].sent.kind \notin GrantKinds
        <3>1. leave[<<q, e>>] # None /\ leave[<<q, e>>].status = "pending"
            BY <1>5, <2>1 DEF Granted
        <3>2. leaveCall[q].sent.kind \notin GrantKinds /\ leaveCall[q].phase \in OverPhases
            BY <3>1 DEF NewsInv, GrantsApproved, NamesFresh
        <3>3. q # r
            BY <1>1, <1>2, <3>2 DEF OverPhases
        <3>4. leaveCall'[q] = leaveCall[q]
            BY <1>2, <3>3 DEF LeaveRead, RowsInv, LeaveTypeOK
        <3>5. QED
            BY <3>2, <3>4
    <2>2. leave'[k] # None => leave'[k].employee = leave[k].employee \/ Reassigned(k)'
        BY <1>3
    <2>3. leaveCall'[r].phase = "ready" /\ leaveCall'[r].sent = c.sent
          /\ leaveCall'[r].leave = k /\ leaveCall'[r].rows = {leave[k]}
        BY <1>4, <1>5
    <2>4. QED
        BY <1>2, <2>1, <2>2, <2>3 DEF NewsSound, StaysWith, AnswerKinds, GrantKinds
<1>. HIDE DEF permits, next
<1>6. permits \in BOOLEAN
    BY DEF permits, MayAccess
<1>7. QED
    BY <1>1, <1>2, <1>4, <1>5, <1>6, ReadNews

LEMMA EditLoadNews ==
    ASSUME RowsInv, NamesFresh, NewsInv, NEW r \in LeaveRequests, LoadToEdit(r)
    PROVE  NewsInv'
<1>1. PICK c, k : c = leaveCall[r] /\ k = c.leave /\ c \in LeaveCall
    BY CallFacts
<1>. DEFINE next == [c EXCEPT !.phase = "loaded", !.rows = {leave[k]}]
<1>2. c.phase = "started" /\ c.sent.kind = "edit"
    BY <1>1 DEF LoadToEdit
<1>3. PICK permits \in BOOLEAN : LeaveRead(r, permits, next)
    BY <1>1 DEF LoadToEdit, MayAccess
<1>4. leave' = leave
    BY <1>3 DEF LeaveRead
<1>5. next.phase = "loaded" /\ next.sent = c.sent /\ next.leave = k /\ next.rows = {leave[k]}
    BY <1>1 DEF LeaveCall
<1>. HIDE DEF next
<1>6. ASSUME leaveCall'[r] = next PROVE NewsSound(r)'
    <2>1. leave'[k] # None => leave'[k].employee = leave[k].employee \/ Reassigned(k)'
        BY <1>4
    <2>2. leaveCall'[r].phase = "loaded" /\ leaveCall'[r].sent = c.sent
          /\ leaveCall'[r].leave = k /\ leaveCall'[r].rows = {leave[k]}
        BY <1>5, <1>6
    <2>3. QED
        BY <1>2, <2>1, <2>2 DEF NewsSound, StaysWith, AnswerKinds, GrantKinds
<1>7. QED
    BY <1>1, <1>2, <1>3, <1>5, <1>6, ReadNews

\* An edit that names no employee keeps the one it has loaded.
LEMMA EditCheckNews ==
    ASSUME RowsInv, NamesFresh, NewsInv, NEW r \in LeaveRequests, CheckEdit(r)
    PROVE  NewsInv'
<1>1. PICK c, k, loaded : c = leaveCall[r] /\ k = c.leave /\ c \in LeaveCall
                          /\ loaded = CHOOSE row \in c.rows : TRUE
    BY CallFacts
<1>. DEFINE row == EditedRow(loaded, c.sent)
            next == [c EXCEPT !.phase = "ready", !.rows = {row}]
<1>2. c.phase = "loaded" /\ c.sent.kind = "edit" /\ loaded \in c.rows /\ loaded \in LeaveRow
    <2>1. c.phase = "loaded" /\ c.sent.kind = "edit" /\ c.rows # {}
        BY <1>1, CallFacts DEF CheckEdit, CallSound
    <2>2. QED
        BY <1>1, <2>1 DEF LeaveCall
<1>3. PICK permits \in BOOLEAN : LeaveRead(r, permits, next)
    BY <1>1 DEF CheckEdit, CompanyRefused, ScopeRefused, LeaveFits
<1>4. leave' = leave
    BY <1>3 DEF LeaveRead
<1>5. c.sent.employee = Absent => row.employee = loaded.employee
    BY <1>2 DEF EditedRow, Supplied, LeaveRow
<1>. HIDE DEF row
<1>6. next.phase = "ready" /\ next.sent = c.sent /\ next.leave = k /\ next.rows = {row}
    BY <1>1 DEF LeaveCall
<1>. HIDE DEF next
<1>7. ASSUME leaveCall'[r] = next PROVE NewsSound(r)'
    <2>1. Proceeds(r)
        BY <1>1, <1>2, <1>3, <1>6, <1>7 DEF LeaveRead, Proceeds, RowsInv, LeaveTypeOK
    <2>2. ASSUME c.sent.employee = Absent
          PROVE  leave'[k] # None => leave'[k].employee = row.employee \/ Reassigned(k)'
        <3>1. StaysWith(k, row.employee)
            BY <1>1, <1>2, <1>5, <2>2 DEF NewsInv, NewsSound
        <3>2. Keeps(k)
            BY <1>4 DEF Keeps
        <3>3. QED
            BY <2>1, <3>1, <3>2, StaysAsItWas
    <2>3. leaveCall'[r].phase = "ready" /\ leaveCall'[r].sent = c.sent
          /\ leaveCall'[r].leave = k /\ leaveCall'[r].rows = {row}
        BY <1>6, <1>7
    <2>4. QED
        BY <1>2, <2>2, <2>3 DEF NewsSound, StaysWith, AnswerKinds, GrantKinds
<1>8. QED
    BY <1>1, <1>2, <1>3, <1>6, <1>7, ReadNews

LEMMA DeleteLoadNews ==
    ASSUME RowsInv, NamesFresh, NewsInv, NEW r \in LeaveRequests, LoadToDelete(r)
    PROVE  NewsInv'
<1>. DEFINE c == leaveCall[r]
            next == [c EXCEPT !.phase = "ready"]
<1>1. c.phase = "started" /\ c.sent.kind = "delete" /\ c \in LeaveCall
    BY CallFacts DEF LoadToDelete
<1>2. PICK permits \in BOOLEAN : LeaveRead(r, permits, next)
    BY DEF LoadToDelete, MayAccess
<1>3. next.phase = "ready" /\ next.sent = c.sent /\ next.leave = c.leave
    BY <1>1 DEF LeaveCall
<1>. HIDE DEF next
<1>4. ASSUME leaveCall'[r] = next PROVE NewsSound(r)'
    BY <1>1, <1>3, <1>4 DEF NewsSound, AnswerKinds, GrantKinds
<1>5. QED
    BY <1>1, <1>2, <1>3, <1>4, ReadNews

\* An edit leaves a leave to its employee, or is one that gave it to somebody.
LEMMA UpdateNews ==
    ASSUME RowsInv, NamesFresh, NewsInv, NEW r \in LeaveRequests, UpdateLeave(r)
    PROVE  NewsInv'
<1>1. PICK c, k, row : c = leaveCall[r] /\ k = c.leave /\ c \in LeaveCall
                       /\ row = CHOOSE any \in c.rows : TRUE
    BY CallFacts
<1>2. c.phase = "ready" /\ c.sent.kind = "edit" /\ row \in c.rows /\ row \in LeaveRow
      /\ k \in Leaves /\ leave[k] # None
    <2>1. c.phase = "ready" /\ c.sent.kind = "edit" /\ c.rows # {} /\ k \in Granted
        BY <1>1, CallFacts DEF UpdateLeave, LeaveWrite, CallSound
    <2>2. QED
        BY <1>1, <2>1 DEF LeaveCall, Granted
<1>3. leave' = [leave EXCEPT ![k] = [row EXCEPT !.status = leave[k].status]]
    BY <1>1 DEF UpdateLeave
<1>4. /\ leaveCall'[r].phase = "done" /\ leaveCall'[r].sent = c.sent
      /\ leaveCall'[r].leave = k /\ told' = told
      /\ \A q \in LeaveRequests \ {r} : leaveCall'[q] = leaveCall[q]
    BY <1>1 DEF UpdateLeave, LeaveWrite, LeaveCall, RowsInv, LeaveTypeOK
<1>5. Proceeds(r) /\ NewsSound(r)'
    BY <1>1, <1>2, <1>4 DEF Proceeds, NewsSound
<1>6. leave'[k].employee = leave[k].employee \/ Reassigned(k)'
    <2>1. CASE c.sent.employee = Absent
        <3>1. leave[k].employee = row.employee \/ Reassigned(k)
            BY <1>1, <1>2, <2>1 DEF NewsInv, NewsSound, StaysWith
        <3>2. leave'[k].employee = row.employee
            BY <1>2, <1>3 DEF LeaveRow, RowsInv, LeaveTypeOK
        <3>3. QED
            BY <1>5, <3>1, <3>2, ReassignedStays
    <2>2. CASE c.sent.employee # Absent
        BY <1>2, <1>4, <2>2 DEF Reassigned
    <2>3. QED
        BY <2>1, <2>2
<1>7. ASSUME NEW l \in Leaves
      PROVE  Keeps(l) /\ (leave'[l] # None => leave'[l].status = leave[l].status)
    <2>1. CASE l = k
        <3>1. leave'[k].status = leave[k].status
            BY <1>2, <1>3 DEF LeaveRow, RowsInv, LeaveTypeOK
        <3>2. QED
            BY <1>2, <1>6, <2>1, <3>1 DEF Keeps
    <2>2. CASE l # k
        BY <1>3, <2>2 DEF Keeps, RowsInv, LeaveTypeOK
    <2>3. QED
        BY <2>1, <2>2
<1>8. QED
    BY <1>1, <1>2, <1>4, <1>5, <1>7, QuietNews DEF OverPhases, AnswerKinds

LEMMA DeleteNews ==
    ASSUME RowsInv, NamesFresh, NewsInv, NEW r \in LeaveRequests, DeleteLeave(r)
    PROVE  NewsInv'
<1>1. leaveCall[r] \in LeaveCall /\ leaveCall[r].phase = "ready"
      /\ leaveCall[r].sent.kind = "delete"
    BY CallFacts DEF DeleteLeave, LeaveWrite
<1>2. /\ leaveCall'[r].phase = "done" /\ leaveCall'[r].sent = leaveCall[r].sent
      /\ leaveCall'[r].leave = leaveCall[r].leave /\ told' = told
      /\ \A q \in LeaveRequests \ {r} : leaveCall'[q] = leaveCall[q]
    BY <1>1 DEF DeleteLeave, LeaveWrite, LeaveCall, RowsInv, LeaveTypeOK
<1>3. Proceeds(r) /\ NewsSound(r)'
    BY <1>1, <1>2 DEF Proceeds, NewsSound
<1>4. \A l \in Leaves : Keeps(l) /\ (leave'[l] # None => leave'[l].status = leave[l].status)
    BY DEF DeleteLeave, Keeps, RowsInv, LeaveTypeOK
<1>5. QED
    BY <1>1, <1>2, <1>3, <1>4, QuietNews DEF OverPhases, AnswerKinds

\* Whoever answers a leave has news of it, and a leave that others have answered too is
\* known to have been.
LEMMA AnswerNews ==
    ASSUME RowsInv, NamesFresh, NewsInv, NEW r \in LeaveRequests, AnswerLeave(r)
    PROVE  NewsInv'
<1>1. PICK c, k : c = leaveCall[r] /\ k = c.leave /\ c \in LeaveCall
    BY CallFacts
<1>2. c.phase = "ready" /\ c.sent.kind \in AnswerKinds /\ k \in Leaves /\ leave[k] # None
      /\ leave[k] \in LeaveRow
    BY <1>1 DEF AnswerLeave, LeaveWrite, Granted, RowsInv, LeaveTypeOK
<1>3. leave' = [leave EXCEPT ![k] = [leave[k] EXCEPT !.status = AnswerOf(c.sent.kind)]]
    BY <1>1 DEF AnswerLeave
<1>4. /\ leaveCall'[r].phase = "written" /\ leaveCall'[r].sent = c.sent
      /\ leaveCall'[r].leave = k /\ leaveCall'[r].rows = c.rows /\ told' = told
      /\ \A q \in LeaveRequests \ {r} : leaveCall'[q] = leaveCall[q]
    BY <1>1 DEF AnswerLeave, LeaveWrite, LeaveCall, RowsInv, LeaveTypeOK
<1>5. Proceeds(r)
    BY <1>1, <1>2, <1>4 DEF Proceeds
<1>6. /\ leave'[k] # None /\ leave'[k].employee = leave[k].employee
      /\ leave'[k].status = AnswerOf(c.sent.kind)
      /\ \A l \in Leaves \ {k} : leave'[l] = leave[l]
    <2>1. leave'[k] \in LeaveRow
        BY <1>2, <1>3 DEF RowsInv, LeaveTypeOK, LeaveRow, AnswerOf, Statuses
    <2>2. QED
        BY <1>2, <1>3, <2>1, LeaveAssumption DEF RowsInv, LeaveTypeOK, LeaveRow
<1>7. \A l \in Leaves : Keeps(l)
    BY <1>2, <1>6 DEF Keeps
<1>8. NewsSound(r)'
    <2>1. ASSUME NEW row \in c.rows
          PROVE  leave'[k] # None => leave'[k].employee = row.employee \/ Reassigned(k)'
        <3>1. StaysWith(k, row.employee)
            BY <1>1, <1>2 DEF NewsInv, NewsSound
        <3>2. Keeps(k)
            BY <1>2, <1>7
        <3>3. QED
            BY <1>5, <3>1, <3>2, StaysAsItWas
    <2>2. c.rows # {}
        BY <1>1, <1>2 DEF NewsInv, NewsSound
    <2>3. QED
        BY <1>2, <1>4, <2>1, <2>2 DEF NewsSound, StaysWith, AnswerKinds, GrantKinds
<1>9. \A q \in LeaveRequests : NewsSound(q)'
    BY <1>5, <1>7, <1>8, OthersSound
<1>10. /\ \A l \in Leaves \ {k} : Answers(l)' = Answers(l)
       /\ Answers(k)' = Answers(k) \cup {r}
    BY <1>1, <1>2, <1>4 DEF Answers
<1>11. GrantsApproved'
    <2> SUFFICES ASSUME NEW q \in LeaveRequests, NEW e \in Employees, leave'[<<q, e>>] # None,
                        leaveCall'[q].sent.kind \in GrantKinds
                 PROVE  leave'[<<q, e>>].status = "approved"
        BY DEF GrantsApproved
    <2>1. <<q, e>> \in Leaves
        BY DEF Leaves
    <2>2. leave[<<q, e>>] # None
        BY <1>7, <2>1 DEF Keeps
    <2>3. leaveCall[q].sent.kind \in GrantKinds /\ leave[<<q, e>>].status = "approved"
        BY <1>5, <2>2, GrantsStay DEF NewsInv
    <2>4. k # <<q, e>>
        BY <1>1, <1>2, <2>3 DEF NewsInv, NewsSound
    <2>5. QED
        BY <1>6, <2>1, <2>3, <2>4
<1>12. AnswersStand'
    <2> SUFFICES ASSUME NEW l \in Leaves, NEW q \in Answers(l)', leave'[l] # None
                 PROVE  \/ leave'[l].status = AnswerOf(leaveCall'[q].sent.kind)
                        \/ \E p \in Answers(l)' : p # q
        BY DEF AnswersStand
    <2>1. CASE l = k
        BY <1>4, <1>6, <1>10, <2>1
    <2>2. CASE l # k
        <3>1. q \in Answers(l) /\ leave'[l] = leave[l]
            BY <1>6, <1>10, <2>2
        <3>2. leaveCall'[q].sent = leaveCall[q].sent
            BY <1>5, <3>1 DEF Answers, Proceeds
        <3>3. QED
            BY <1>10, <2>2, <3>1, <3>2 DEF NewsInv, AnswersStand
    <2>3. QED
        BY <2>1, <2>2
<1>13. ASSUME NEW l \in Leaves, leave'[l] # None, leave'[l].status # "pending"
       PROVE  Informed(l)'
    <2>1. CASE l = k
        <3>1. Informing(r, k)'
            BY <1>2, <1>4 DEF Informing
        <3>2. QED
            BY <2>1, <3>1 DEF Informed
    <2>2. CASE l # k
        <3>1. leave'[l] = leave[l] /\ Answers(l)' = Answers(l)
            BY <1>6, <1>10, <2>2
        <3>2. Informed(l)
            BY <1>13, <3>1 DEF NewsInv
        <3>3. Reassigned(l) => Reassigned(l)'
            BY <1>5, ReassignedStays
        <3>4. ASSUME NEW q \in LeaveRequests, Informing(q, l) PROVE Informing(q, l)'
            <4>1. q # r
                BY <1>1, <1>2, <3>4 DEF Informing
            <4>2. QED
                BY <1>4, <3>4, <4>1 DEF Informing
        <3>5. QED
            BY <1>4, <3>1, <3>2, <3>3, <3>4 DEF Informed
    <2>3. QED
        BY <2>1, <2>2
<1>14. QED
    BY <1>9, <1>11, <1>12, <1>13 DEF NewsInv

\* A leave that is new is pending, or its call has news of it; nobody has answered it.
LEMMA InsertNews ==
    ASSUME RowsInv, NamesFresh, NewsInv, NEW r \in LeaveRequests, InsertLeaves(r)
    PROVE  NewsInv'
<1>1. PICK c : c = leaveCall[r] /\ c \in LeaveCall
    BY CallFacts
<1>2. c.phase = "ready" /\ c.sent.kind \in GrantKinds \cup {"request"}
    BY <1>1 DEF InsertLeaves, LeaveWrite, GrantKinds
<1>3. /\ leaveCall'[r].phase = "written" /\ leaveCall'[r].sent = c.sent
      /\ leaveCall'[r].leave = c.leave /\ leaveCall'[r].rows = c.rows /\ told' = told
      /\ \A q \in LeaveRequests \ {r} : leaveCall'[q] = leaveCall[q]
    BY <1>1 DEF InsertLeaves, LeaveWrite, LeaveCall, RowsInv, LeaveTypeOK
<1>4. Proceeds(r)
    BY <1>1, <1>2, <1>3 DEF Proceeds
<1>5. \A l \in Leaves :
          \/ leave'[l] = leave[l]
          \/ \E row \in c.rows : l = <<r, row.employee>> /\ leave'[l] = row
    BY <1>1 DEF InsertLeaves
<1>6. \A e \in Employees : /\ leave[<<r, e>>] = None /\ <<r, e>> \in Leaves
                           /\ \A q \in LeaveRequests : leaveCall[q].leave # <<r, e>>
    BY <1>1, <1>2 DEF NamesFresh, OverPhases, Leaves
<1>7. \A row \in c.rows : row.employee \in Employees
    BY <1>1 DEF LeaveCall, LeaveRow
<1>8. ASSUME NEW q \in LeaveRequests \ {r}
      PROVE  NewsSound(q)'
    <2>1. ASSUME NEW l \in Leaves, l \in {q} \X Employees \/ leaveCall[q].leave = l
          PROVE  Keeps(l)
        <3>1. \A row \in c.rows : l # <<r, row.employee>>
            BY <1>6, <1>7, <2>1
        <3>2. QED
            BY <1>5, <3>1 DEF Keeps
    <2>2. QED
        BY <1>4, <2>1, OthersSound
<1>9. NewsSound(r)'
    <2>1. ASSUME NEW e \in Employees, leave'[<<r, e>>] # None
          PROVE  /\ \E row \in c.rows : row.employee = e
                 /\ leave'[<<r, e>>].employee = e
        BY <1>5, <1>6, <2>1
    <2>2. QED
        BY <1>2, <1>3, <2>1 DEF NewsSound, StaysWith, AnswerKinds, GrantKinds
<1>10. \A l \in Leaves : Answers(l)' = Answers(l)
    BY <1>1, <1>2, <1>3 DEF Answers, AnswerKinds, GrantKinds
<1>11. GrantsApproved'
    <2> SUFFICES ASSUME NEW q \in LeaveRequests, NEW e \in Employees, leave'[<<q, e>>] # None,
                        leaveCall'[q].sent.kind \in GrantKinds
                 PROVE  leave'[<<q, e>>].status = "approved"
        BY DEF GrantsApproved
    <2>1. CASE q = r
        <3>1. \A row \in c.rows : row.status = "approved"
            BY <1>1, <1>2, <1>3, <2>1 DEF NewsInv, NewsSound
        <3>2. QED
            BY <1>5, <1>6, <2>1, <3>1
    <2>2. CASE q # r
        <3>1. leave'[<<q, e>>] = leave[<<q, e>>]
            BY <1>5, <2>2 DEF Leaves
        <3>2. QED
            BY <1>3, <2>2, <3>1 DEF NewsInv, GrantsApproved
    <2>3. QED
        BY <2>1, <2>2
<1>12. AnswersStand'
    <2> SUFFICES ASSUME NEW l \in Leaves, NEW q \in Answers(l)', leave'[l] # None
                 PROVE  \/ leave'[l].status = AnswerOf(leaveCall'[q].sent.kind)
                        \/ \E p \in Answers(l)' : p # q
        BY DEF AnswersStand
    <2>1. q \in LeaveRequests /\ leaveCall[q].leave = l /\ q \in Answers(l)
          /\ leaveCall'[q].sent = leaveCall[q].sent
        BY <1>4, <1>10 DEF Answers, Proceeds
    <2>2. leave'[l] = leave[l]
        BY <1>5, <1>6, <1>7, <2>1
    <2>3. QED
        BY <1>10, <2>1, <2>2 DEF NewsInv, AnswersStand
<1>13. ASSUME NEW l \in Leaves, leave'[l] # None, leave'[l].status # "pending"
       PROVE  Informed(l)'
    <2>1. CASE \E row \in c.rows : l = <<r, row.employee>> /\ leave'[l] = row
        <3>1. PICK row \in c.rows : l = <<r, row.employee>> /\ leave'[l] = row
            BY <2>1
        <3>2. c.sent.kind \in GrantKinds
            BY <1>1, <1>2, <1>13, <3>1 DEF NewsInv, NewsSound
        <3>3. Informing(r, l)'
            BY <1>3, <1>7, <3>1, <3>2 DEF Informing
        <3>4. QED
            BY <3>3 DEF Informed
    <2>2. CASE leave'[l] = leave[l]
        <3>1. Informed(l)
            BY <1>13, <2>2 DEF NewsInv
        <3>2. Reassigned(l) => Reassigned(l)'
            BY <1>4, ReassignedStays
        <3>3. ASSUME NEW q \in LeaveRequests, Informing(q, l) PROVE Informing(q, l)'
            <4>1. q # r
                BY <1>1, <1>2, <3>3 DEF Informing
            <4>2. QED
                BY <1>3, <3>3, <4>1 DEF Informing
        <3>4. QED
            BY <1>3, <1>10, <2>2, <3>1, <3>2, <3>3 DEF Informed
    <2>3. QED
        BY <1>5, <2>1, <2>2
<1>14. QED
    BY <1>8, <1>9, <1>11, <1>12, <1>13 DEF NewsInv

\* Whoever has news of a leave tells its employee how it stands, unless the leave was
\* answered by another call too or given to somebody else.
LEMMA TellsHowItStands ==
    ASSUME RowsInv, NewsInv, NEW r \in LeaveRequests, TellLeave(r),
           NEW l \in Leaves, leave[l] # None, Informing(r, l)
    PROVE  \/ told'[l][leave[l].employee] = leave[l].status
           \/ Reassigned(l)
           \/ \E p, q \in Answers(l) : p # q
<1>1. PICK c, e : c = leaveCall[r] /\ c \in LeaveCall /\ e = leave[l].employee
    BY CallFacts
<1>2. c.phase = "written" /\ e \in Employees
    BY <1>1 DEF TellLeave, RowsInv, LeaveTypeOK, LeaveRow
<1>3. told'[l][e] =
          IF \E row \in c.rows : /\ row.employee = e
                                 /\ \/ c.sent.kind \in AnswerKinds /\ l = c.leave
                                    \/ c.sent.kind \in {"grant", "grantAll"} /\ l = <<r, e>>
          THEN NewsOf(c.sent.kind) ELSE told[l][e]
    BY <1>1, <1>2 DEF TellLeave
<1>4. CASE c.sent.kind \in AnswerKinds /\ c.leave = l
    <2>1. r \in Answers(l)
        BY <1>1, <1>2, <1>4 DEF Answers
    <2>2. leave[l].status = AnswerOf(c.sent.kind) \/ \E q \in Answers(l) : q # r
        BY <1>1, <2>1 DEF NewsInv, AnswersStand
    <2>3. c.rows # {} /\ \A row \in c.rows : StaysWith(l, row.employee)
        BY <1>1, <1>2, <1>4 DEF NewsInv, NewsSound
    <2>4. (\E row \in c.rows : row.employee = e) \/ Reassigned(l)
        BY <1>1, <2>3 DEF StaysWith
    <2>5. AnswerOf(c.sent.kind) = NewsOf(c.sent.kind)
        BY <1>4 DEF AnswerOf, NewsOf, AnswerKinds
    <2>6. QED
        BY <1>1, <1>3, <1>4, <2>1, <2>2, <2>4, <2>5
<1>5. CASE c.sent.kind \in GrantKinds /\ l \in {r} \X Employees
    <2>1. PICK f \in Employees : l = <<r, f>>
        BY <1>5
    <2>2. (\E row \in c.rows : row.employee = f) /\ StaysWith(l, f)
        BY <1>1, <1>2, <1>5, <2>1 DEF NewsInv, NewsSound
    <2>3. leave[l].status = "approved"
        BY <1>1, <1>5, <2>1 DEF NewsInv, GrantsApproved
    <2>4. NewsOf(c.sent.kind) = "approved"
        BY <1>5 DEF NewsOf, GrantKinds
    <2>5. CASE e = f
        BY <1>1, <1>3, <1>5, <2>1, <2>2, <2>3, <2>4, <2>5 DEF GrantKinds
    <2>6. CASE e # f
        BY <1>1, <2>2, <2>6 DEF StaysWith
    <2>7. QED
        BY <2>5, <2>6
<1>6. QED
    BY <1>1, <1>4, <1>5 DEF Informing

LEMMA TellNews ==
    ASSUME RowsInv, NamesFresh, NewsInv, NEW r \in LeaveRequests, TellLeave(r)
    PROVE  NewsInv'
<1>1. PICK c : c = leaveCall[r] /\ c \in LeaveCall
    BY CallFacts
<1>2. /\ c.phase = "written" /\ leave' = leave
      /\ leaveCall'[r] = Ended(c, "done")
      /\ \A q \in LeaveRequests \ {r} : leaveCall'[q] = leaveCall[q]
    BY <1>1 DEF TellLeave, RowsInv, LeaveTypeOK
<1>3. /\ leaveCall'[r].phase = "done" /\ leaveCall'[r].sent = c.sent
      /\ leaveCall'[r].leave = c.leave
    BY <1>2, EndedFields
<1>4. Proceeds(r) /\ \A l \in Leaves : Keeps(l)
    BY <1>1, <1>2, <1>3 DEF Proceeds, Keeps
<1>5. NewsSound(r)'
    BY <1>3 DEF NewsSound
<1>6. \A q \in LeaveRequests : NewsSound(q)'
    BY <1>4, <1>5, OthersSound
<1>7. \A l \in Leaves : Answers(l)' = Answers(l)
    BY <1>1, <1>2, <1>3 DEF Answers
<1>8. GrantsApproved'
    BY <1>2, <1>4, GrantsStay DEF NewsInv, GrantsApproved
<1>9. AnswersStand'
    <2> SUFFICES ASSUME NEW l \in Leaves, NEW q \in Answers(l)', leave'[l] # None
                 PROVE  \/ leave'[l].status = AnswerOf(leaveCall'[q].sent.kind)
                        \/ \E p \in Answers(l)' : p # q
        BY DEF AnswersStand
    <2>1. q \in Answers(l) /\ leaveCall'[q].sent = leaveCall[q].sent
        BY <1>4, <1>7 DEF Answers, Proceeds
    <2>2. QED
        BY <1>2, <1>7, <2>1 DEF NewsInv, AnswersStand
<1>10. ASSUME NEW l \in Leaves, leave'[l] # None, leave'[l].status # "pending"
       PROVE  Informed(l)'
    <2>1. Informed(l) /\ (Reassigned(l) => Reassigned(l)')
        BY <1>2, <1>4, <1>10, ReassignedStays DEF NewsInv
    <2>2. CASE Informing(r, l)
        BY <1>2, <1>7, <1>10, <2>1, <2>2, TellsHowItStands DEF Informed
    <2>3. CASE ~Informing(r, l)
        <3>1. ASSUME NEW q \in LeaveRequests, Informing(q, l) PROVE Informing(q, l)'
            <4>1. q # r
                BY <2>3, <3>1
            <4>2. QED
                BY <1>2, <3>1, <4>1 DEF Informing
        <3>2. leave[l].employee \in Employees
            BY <1>2, <1>10 DEF RowsInv, LeaveTypeOK, LeaveRow
        <3>3. told'[l][leave[l].employee] = told[l][leave[l].employee]
            BY <1>1, <1>2, <2>3, <3>2 DEF TellLeave, Informing, GrantKinds
        <3>4. QED
            BY <1>2, <1>7, <2>1, <3>1, <3>3 DEF Informed
    <2>4. QED
        BY <2>2, <2>3
<1>11. QED
    BY <1>6, <1>8, <1>9, <1>10 DEF NewsInv

LEMMA NextNews == RowsInv /\ AnswersInv /\ NewsInv /\ [LeaveNext]_leaveVars => NewsInv'
<1>. SUFFICES ASSUME RowsInv, NamesFresh, NewsInv, [LeaveNext]_leaveVars PROVE NewsInv'
    BY DEF AnswersInv
<1>1. ASSUME NEW r \in LeaveRequests,
             \/ StartLeaveCall(r) \/ CheckGrant(r) \/ ListCrew(r) \/ LoadRequester(r)
             \/ LoadToAnswer(r) \/ LoadToEdit(r) \/ CheckEdit(r) \/ LoadToDelete(r)
      PROVE  NewsInv'
    BY <1>1, StartNews, GrantNews, CrewNews, RequestNews, LoadNews, EditLoadNews,
       EditCheckNews, DeleteLoadNews
<1>2. ASSUME NEW r \in LeaveRequests,
             \/ InsertLeaves(r) \/ AnswerLeave(r) \/ UpdateLeave(r) \/ DeleteLeave(r)
             \/ TellLeave(r) \/ StopLeaveCall(r)
      PROVE  NewsInv'
    BY <1>2, InsertNews, AnswerNews, UpdateNews, DeleteNews, TellNews, StopNews
<1>3. CASE leave' = leave /\ told' = told /\ leaveCall' = leaveCall
    <2>1. \A r \in LeaveRequests : NewsSound(r)'
        BY <1>3 DEF NewsInv, NewsSound, StaysWith, Reassigned
    <2>2. GrantsApproved' /\ AnswersStand'
        BY <1>3 DEF NewsInv, GrantsApproved, AnswersStand, Answers
    <2>3. \A l \in Leaves : Informed(l) => Informed(l)'
        BY <1>3 DEF Informed, Informing, Reassigned, Answers
    <2>4. QED
        BY <1>3, <2>1, <2>2, <2>3 DEF NewsInv
<1>4. QED
    BY <1>1, <1>2, <1>3 DEF LeaveNext, EditStaff, MoveBranch, leaveVars

(***************************************************************************)
(* The theorems.                                                           *)
(***************************************************************************)
LEMMA LeaveInvariant == LeaveSpec => [](RowsInv /\ AnswersInv /\ NewsInv)
<1>1. LeaveInit => RowsInv /\ AnswersInv /\ NewsInv
    BY InitRows, InitAnswers, InitNews
<1>2. (RowsInv /\ AnswersInv /\ NewsInv) /\ [LeaveNext]_leaveVars
          => (RowsInv /\ AnswersInv /\ NewsInv)'
    BY NextRows, NextAnswers, NextNews
<1>3. QED
    BY <1>1, <1>2, PTL DEF LeaveSpec

\* What the office and the employees send, once validated, and what the calls make of it,
\* is always a leave of a company, an employee, days and a status.
THEOREM LeaveTypeCorrect == LeaveSpec => []LeaveTypeOK
<1>1. RowsInv => LeaveTypeOK
    BY DEF RowsInv
<1>2. QED
    BY <1>1, LeaveInvariant, PTL

\* However many edits overlap, create, request and update leave no leave that ends before
\* it starts or whose days are neither those of its dates nor given by the office.
THEOREM RangesCorrect == LeaveSpec => []RangesSound
<1>1. RowsInv => RangesSound
    BY DEF RowsInv, RowSound, RangesSound
<1>2. QED
    BY <1>1, LeaveInvariant, PTL

\* However calls, edits of employees and moves of branches overlap, a leave is of its
\* employee's company, and of a branch of it that is the employee's if there is one, until
\* the employee moves to another company or branch, or the branch to another company.
THEOREM InCompanyCorrect == LeaveSpec => []LeavesInCompany
<1>1. RowsInv => LeavesInCompany
    BY DEF RowsInv, RowSound, LeavesInCompany
<1>2. QED
    BY <1>1, LeaveInvariant, PTL

\* Approve and reject answer a leave once, unless they found it pending together; a leave
\* that was deleted is not answered later by the name of a new one.
THEOREM AnsweredOnceCorrect == LeaveSpec => []AnsweredOnce
<1>1. AnswersInv => AnsweredOnce
    BY DEF AnswersInv, AnswerersKnown, Answerers, AnsweredOnce
<1>2. QED
    BY <1>1, LeaveInvariant, PTL

\* Whatever calls of create, approve, reject, update and delete overlap, or stop on their
\* way, what an employee was told last of an answered leave is how it was answered: unless
\* somebody is still to tell it or has failed to, two answers overlapped, or the leave was
\* given to somebody else.
THEOREM ReachesEmployeeCorrect == LeaveSpec => []AnswerReachesEmployee
<1>1. ASSUME NewsInv, NEW l \in Answered
      PROVE  \/ told[l][leave[l].employee] = leave[l].status
             \/ ~AtRest(l) \/ Reassigned(l) \/ \E q, r \in Answers(l) : q # r
    <2>1. Informed(l)
        BY <1>1 DEF Answered, Granted, NewsInv
    <2>2. \A r \in LeaveRequests : Informing(r, l) => ~AtRest(l)
        BY DEF Informing, AtRest
    <2>3. QED
        BY <2>1, <2>2 DEF Informed
<1>2. NewsInv => AnswerReachesEmployee
    BY <1>1 DEF AnswerReachesEmployee
<1>3. QED
    BY <1>2, LeaveInvariant, PTL
=============================================================================
