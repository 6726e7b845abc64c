------------------------------ MODULE Payroll ------------------------------
(***************************************************************************)
(* The payroll ledger: one row for an employee and a month, whose figures  *)
(* the office types in and against which payments are recorded.            *)
(*                                                                         *)
(* Every endpoint first loads and checks and later writes with a single    *)
(* statement, with no lock and no version column in between: a call is a   *)
(* request that keeps the row it loaded until it writes.                   *)
(***************************************************************************)
EXTENDS Integers, FiniteSets, FiniteSetsExt

CONSTANTS
    None,       \* null, or a field the client left out
    Employees,  \* employees of the company
    Months,     \* calendar months
    Requests,   \* identities of the calls that are made
    Kinds,      \* the endpoints in use, a subset of AllKinds
    Apart,      \* sets of endpoints that are never in flight together for one payroll
    Nets,       \* net salaries the office may type in
    Amounts,    \* payments that may be made, in the smallest unit
    Sent        \* statuses the office may set

AllKinds == {"create", "update", "pay", "delete"}
PayrollStatuses == {"draft", "confirmed", "partially_paid", "paid", "cancelled"}

ASSUME PayrollAssumption ==
    /\ Kinds \subseteq AllKinds
    /\ Apart \subseteq SUBSET AllKinds
    /\ Nets \subseteq Int
    /\ Amounts \subseteq Nat \ {0}
    /\ Sent \subseteq PayrollStatuses
    /\ None \notin Employees \cup Months \cup Int \cup Requests \cup PayrollStatuses

Row == [employee : Employees, month : Months, net : Int, paid : Nat,
        status : PayrollStatuses]

\* What the client sends.  company says whether the update names the company.
Dto == [employee : Employees \cup {None}, month : Months \cup {None},
        net : Nets \cup {None}, status : Sent \cup {None},
        company : BOOLEAN, amount : Amounts \cup {0}]

\* What an update may carry.
UpdateDto == [employee : Employees \cup {None}, month : Months \cup {None},
              net : Nets \cup {None}, status : Sent \cup {None},
              company : BOOLEAN, amount : {0}]

Phases == {"idle", "started", "checked", "ready", "done", "refused"}
InFlightPhases == {"started", "checked", "ready"}

\* target is the row the call is about, row what it loaded of it.
Call == [phase : Phases, kind : AllKinds, target : Requests \cup {None},
         dto : Dto, row : Row \cup {None}]

ASSUME NoneIsNoRow == None \notin Row

VARIABLES
    payroll,  \* payroll[p]: the row that request p created, None if there is none
    call      \* call[r]: the state of request r

vars == <<payroll, call>>

Empty == [employee |-> None, month |-> None, net |-> None, status |-> None,
          company |-> FALSE, amount |-> 0]

NewCall(kind, target, dto, phase) ==
    [phase |-> phase, kind |-> kind, target |-> target, dto |-> dto, row |-> None]

Init ==
    /\ payroll = [p \in Requests |-> None]
    /\ call = [r \in Requests |-> NewCall("create", None, Empty, "idle")]

TypeOK ==
    /\ payroll \in [Requests -> Row \cup {None}]
    /\ call \in [Requests -> Call]

InFlight(r) == call[r].phase \in InFlightPhases

Rows == {p \in Requests : payroll[p] # None}

(***************************************************************************)
(* The start of a call.                                                    *)
(***************************************************************************)
MayStart(r, kind, target) ==
    /\ call[r].phase = "idle"
    /\ kind \in Kinds
    /\ \A q \in Requests :
           InFlight(q) /\ call[q].target = target => {kind, call[q].kind} \notin Apart

Start(r, kind, target, dto, phase) ==
    /\ MayStart(r, kind, target)
    /\ call' = [call EXCEPT ![r] = NewCall(kind, target, dto, phase)]
    /\ UNCHANGED payroll

\* create has no row to load: its next step is the check of uniqueness.
StartCreate(r) ==
    \E e \in Employees, m \in Months, n \in Nets \cup {None}, s \in Sent \cup {None} :
        Start(r, "create", r,
              [Empty EXCEPT !.employee = e, !.month = m, !.net = n, !.status = s], "checked")

StartUpdate(r) ==
    \E p \in Rows, dto \in UpdateDto :
        Start(r, "update", p, dto, "started")

StartPay(r) ==
    \E p \in Rows, a \in Amounts :
        Start(r, "pay", p, [Empty EXCEPT !.amount = a], "started")

StartDelete(r) == \E p \in Rows : Start(r, "delete", p, Empty, "started")

(***************************************************************************)
(* The checks.                                                             *)
(***************************************************************************)
Become(r, phase) == call' = [call EXCEPT ![r] = [@ EXCEPT !.phase = phase]]

\* A call that is over keeps what it was about and the amount it paid; the rest
\* of what was sent, and what was loaded, is gone.
Left(c, phase) ==
    NewCall(c.kind, c.target, [Empty EXCEPT !.amount = c.dto.amount], phase)

\* Slip: the payment alone, not the total, held against the net salary.
RefusesLargePayment(row, amount) ==
    row.status = "cancelled" \/ row.net <= 0 \/ amount > row.net

\* Slip: a cancelled payroll is paid like any other.
RefusesOverpayment(row, amount) == row.net <= 0 \/ row.paid + amount > row.net

\* The answers 409 and 400 of recordPayment.
RefusesPayment(row, amount) ==
    row.status = "cancelled" \/ row.net <= 0 \/ row.paid + amount > row.net

\* An update is checked for uniqueness only when it names the employee or the
\* month.
NamesKey(dto) == dto.employee # None \/ dto.month # None

\* getPayrollById and, for a payment, what it is checked against.
Load(r) ==
    LET row == payroll[call[r].target]
        refused == \/ row = None
                   \/ call[r].kind = "pay" /\ RefusesPayment(row, call[r].dto.amount)
        next == IF call[r].kind = "update" /\ NamesKey(call[r].dto) THEN "checked" ELSE "ready"
    IN  /\ call[r].phase = "started"
        /\ call' = [call EXCEPT ![r] = IF refused THEN Left(@, "refused")
                                       ELSE [@ EXCEPT !.phase = next, !.row = row]]
        /\ UNCHANGED payroll

\* Slip: a figure left out written as null.
GivenAsSent(value, otherwise) == value

\* The value sent, or what stands when the client left it out.
Given(value, otherwise) == IF value = None THEN otherwise ELSE value

\* The employee and month the call would give its row, as far as it has read.
IntendedEmployee(r) ==
    IF call[r].kind = "create" THEN call[r].dto.employee
    ELSE Given(call[r].dto.employee, call[r].row.employee)
IntendedMonth(r) ==
    IF call[r].kind = "create" THEN call[r].dto.month
    ELSE Given(call[r].dto.month, call[r].row.month)

\* A row other than p has this employee and month.
Taken(p, employee, month) ==
    \E q \in Rows \ {p} : payroll[q].employee = employee /\ payroll[q].month = month

\* checkPayrollUnique, some time before the write.
CheckUnique(r) ==
    /\ call[r].phase = "checked"
    /\ Become(r, IF Taken(call[r].target, IntendedEmployee(r), IntendedMonth(r))
                 THEN "refused" ELSE "ready")
    /\ UNCHANGED payroll

(***************************************************************************)
(* The writes: one statement each, which fails when the row is gone or the *)
(* unique index on (employee, month) objects.                              *)
(***************************************************************************)

\* Slip: no unique index, only the earlier check.
WriteUnindexed(r, row) ==
    /\ payroll' = [payroll EXCEPT ![call[r].target] = row]
    /\ call' = [call EXCEPT ![r] = Left(@, "done")]

Write(r, row) ==
    /\ ~Taken(call[r].target, row.employee, row.month)
    /\ payroll' = [payroll EXCEPT ![call[r].target] = row]
    /\ call' = [call EXCEPT ![r] = Left(@, "done")]

\* Figures the client left out take the column's default; nothing is paid yet.
Create(r) ==
    LET d == call[r].dto
    IN  /\ call[r].phase = "ready" /\ call[r].kind = "create"
        /\ Write(r, [employee |-> d.employee, month |-> d.month, net |-> Given(d.net, 0),
                     paid |-> 0, status |-> Given(d.status, "draft")])

\* Slip: the whole row written back as it was loaded.
UpdatedLoaded(current, loaded, d) ==
    [employee |-> Given(d.employee, loaded.employee), month |-> Given(d.month, loaded.month),
     net |-> Given(d.net, loaded.net), paid |-> loaded.paid,
     status |-> Given(d.status, loaded.status)]

\* Only the columns the client sent, except that naming the company writes the
\* employee as it was loaded.
Updated(current, loaded, d) ==
    [employee |-> Given(d.employee, IF d.company THEN loaded.employee ELSE current.employee),
     month |-> Given(d.month, current.month),
     net |-> Given(d.net, current.net),
     paid |-> current.paid,
     status |-> Given(d.status, current.status)]

Update(r) ==
    LET current == payroll[call[r].target]
    IN  /\ call[r].phase = "ready" /\ call[r].kind = "update"
        /\ current # None
        /\ Write(r, Updated(current, call[r].row, call[r].dto))

\* A row with this much paid in all, and the status that follows.
PaidUp(current, paid, net) ==
    [current EXCEPT !.paid = paid,
                    !.status = IF paid >= net THEN "paid" ELSE "partially_paid"]

\* Slip: the whole row written back as it was loaded.
PayAsLoaded(r) ==
    LET loaded == call[r].row
    IN  /\ call[r].phase = "ready" /\ call[r].kind = "pay"
        /\ payroll[call[r].target] # None
        /\ Write(r, PaidUp(loaded, loaded.paid + call[r].dto.amount, loaded.net))

\* recordPayment adds to the paid amount it loaded and derives the status from
\* the net salary it loaded.
Pay(r) ==
    LET current == payroll[call[r].target]
        loaded == call[r].row
    IN  /\ call[r].phase = "ready" /\ call[r].kind = "pay"
        /\ current # None
        /\ Write(r, PaidUp(current, loaded.paid + call[r].dto.amount, loaded.net))

Delete(r) ==
    /\ call[r].phase = "ready" /\ call[r].kind = "delete"
    /\ payroll[call[r].target] # None
    /\ payroll' = [payroll EXCEPT ![call[r].target] = None]
    /\ call' = [call EXCEPT ![r] = Left(@, "done")]

\* A check of company, employee, payer or access fails, the database refuses
\* the statement, or the server stops: nothing has been written.
Fail(r) ==
    /\ InFlight(r)
    /\ call' = [call EXCEPT ![r] = Left(@, "refused")]
    /\ UNCHANGED payroll

Next ==
    \E r \in Requests :
        \/ StartCreate(r) \/ StartUpdate(r) \/ StartPay(r) \/ StartDelete(r)
        \/ Load(r) \/ CheckUnique(r)
        \/ Create(r) \/ Update(r) \/ Pay(r) \/ Delete(r)
        \/ Fail(r)

Spec == Init /\ [][Next]_vars

(***************************************************************************)
(* Properties.                                                             *)
(***************************************************************************)

\* An employee has at most one payroll a month, although the check for one runs
\* before the write and naming the company in an update writes an employee that
\* was never checked: the unique index stands behind both.
OnePerMonth ==
    \A p, q \in Rows :
        payroll[p].employee = payroll[q].employee /\ payroll[p].month = payroll[q].month =>
            p = q

Payments(p) ==
    {r \in Requests : call[r].phase = "done" /\ call[r].kind = "pay" /\ call[r].target = p}

AcceptedTotal(p) == SumFunctionOnSet([r \in Requests |-> call[r].dto.amount], Payments(p))

\* The paid amount of a payroll is the sum of the payments the office was told
\* were recorded, as long as payments of one payroll do not overlap each other:
\* none lost, none counted twice, and none undone by an edit of the row, however
\* edits, creations and deletions overlap, and payments of different payrolls.
PaidIsSumOfPayments == \A p \in Rows : payroll[p].paid = AcceptedTotal(p)

\* An update of p was accepted.
Edited(p) ==
    \E r \in Requests :
        call[r].phase = "done" /\ call[r].kind = "update" /\ call[r].target = p

\* Payments alone never take a payroll above its net salary, as long as those of
\* one payroll do not overlap each other: where more is paid than is due, an edit of that
\* payroll was accepted.
OverpaidOnlyByEdit ==
    \A p \in Rows :
        payroll[p].paid > 0 /\ payroll[p].paid > payroll[p].net =>
            Edited(p)

(***************************************************************************)
(* What the checks of a call in flight guarantee to its write: the         *)
(* strengthening the proofs need.                                          *)
(***************************************************************************)

\* A row exists only after the call that created it was accepted; a call about an
\* existing row is about one whose creator is done; an accepted load is kept.
SoundCall(r) ==
    LET c == call[r]
    IN  /\ payroll[r] # None => c.phase = "done"
        /\ c.phase \in InFlightPhases /\ c.kind = "create" =>
               /\ c.target = r /\ c.phase # "started"
               /\ c.dto.employee # None /\ c.dto.month # None
        /\ c.phase \in InFlightPhases /\ c.kind # "create" =>
               c.target \in Requests /\ call[c.target].phase = "done"
        /\ c.phase \in {"checked", "ready"} /\ c.kind \in {"update", "pay"} => c.row # None
        /\ c.phase = "checked" => c.kind \in {"create", "update"}

CallsSound == \A r \in Requests : SoundCall(r)

\* A cancelled payroll is void: no payment is recorded against it, again as long
\* as the edit that cancels it does not run beside the payment.
CancelledIsNotPaid ==
    [][\A p \in Requests :
        payroll[p] # None /\ payroll'[p] # None /\ payroll[p].status = "cancelled" =>
            payroll'[p].paid = payroll[p].paid]_payroll

\* Together the calls keep what PayrollLedger promises, as long as payments of one
\* payroll do not overlap each other: a payment lands on the row it was checked
\* against or, if edits may run beside it, on one that was edited, and adds its
\* amount to what was paid.
Ledger ==
    INSTANCE PayrollLedger WITH row <- payroll,
                                edited <- {p \in Requests : Edited(p)},
                                Payrolls <- Requests,
                                EditsBeside <- {"pay", "update"} \notin Apart

KeepsLedger == Ledger!Spec

\* docs/payroll-api.md: any number of payments may be recorded, their total not
\* exceeding the net salary.
TotalWithinNet == \A p \in Rows : AcceptedTotal(p) <= payroll[p].net

=============================================================================
