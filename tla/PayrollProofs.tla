--------------------------- MODULE PayrollProofs ---------------------------
(***************************************************************************)
(* Proofs about Payroll for every number of employees, months and calls    *)
(* and every amount.  What may overlap is a parameter (Apart): a theorem   *)
(* that needs two endpoints kept apart says so in its assumptions.         *)
(***************************************************************************)
EXTENDS Payroll, FiniteSetTheorems, WellFoundedInduction, TLAPS

(***************************************************************************)
(* Lemmas about the operators.                                             *)
(***************************************************************************)
LEMMA EmptyType == Empty \in Dto
BY DEF Empty, Dto

LEMMA NewCallType ==
    ASSUME NEW kind \in AllKinds, NEW target \in Requests \cup {None},
           NEW dto \in Dto, NEW phase \in Phases
    PROVE  LET c == NewCall(kind, target, dto, phase)
           IN  /\ c \in Call
               /\ c.kind = kind /\ c.target = target /\ c.dto = dto
               /\ c.phase = phase /\ c.row = None
BY DEF NewCall, Call

\* A call that is over is still about the same row and amount.
LEMMA LeftFacts ==
    ASSUME NEW c \in Call, NEW phase \in Phases
    PROVE  /\ Left(c, phase) \in Call
           /\ Left(c, phase).phase = phase
           /\ Left(c, phase).kind = c.kind
           /\ Left(c, phase).target = c.target
           /\ Left(c, phase).row = None
<1> DEFINE dto == [Empty EXCEPT !.amount = c.dto.amount]
<1>1. c.kind \in AllKinds /\ c.target \in Requests \cup {None} /\ c.dto \in Dto
    BY DEF Call
<1>2. dto \in Dto
    BY <1>1 DEF Empty, Dto
<1> HIDE DEF dto
<1>3. QED
    BY <1>1, <1>2, NewCallType DEF Left, dto

\* Figures left out take their defaults, and an amount is a number.
LEMMA DtoFacts ==
    ASSUME NEW d \in Dto
    PROVE  /\ Given(d.net, 0) \in Int
           /\ Given(d.status, "draft") \in PayrollStatuses
           /\ d.amount \in Nat
<1>1. d.net \in Nets \cup {None} /\ d.status \in Sent \cup {None} /\ d.amount \in Amounts \cup {0}
    BY DEF Dto
<1>2. \A n \in Nets \cup {None} : Given(n, 0) \in Int
    BY PayrollAssumption DEF Given
<1>3. \A s \in Sent \cup {None} : Given(s, "draft") \in PayrollStatuses
    BY PayrollAssumption DEF Given, PayrollStatuses
<1>4. \A a \in Amounts \cup {0} : a \in Nat
    BY PayrollAssumption
<1>5. QED
    BY <1>1, <1>2, <1>3, <1>4

\* What an update writes is a row.
LEMMA UpdatedType ==
    ASSUME NEW current \in Row, NEW loaded \in Row, NEW d \in Dto
    PROVE  Updated(current, loaded, d) \in Row
BY PayrollAssumption DEF Updated, Given, Row, Dto

\* A payment keeps everything but the paid amount and the status.
LEMMA PaidUpType ==
    ASSUME NEW current \in Row, NEW paid \in Nat, NEW net
    PROVE  /\ PaidUp(current, paid, net) \in Row
           /\ PaidUp(current, paid, net).paid = paid
           /\ PaidUp(current, paid, net).net = current.net
<1> DEFINE status == IF paid >= net THEN "paid" ELSE "partially_paid"
<1>1. status \in PayrollStatuses
    BY DEF PayrollStatuses
<1>2. PaidUp(current, paid, net) = [current EXCEPT !.paid = paid, !.status = status]
    BY DEF PaidUp
<1> HIDE DEF status
<1>3. QED
    BY <1>1, <1>2 DEF Row

(***************************************************************************)
(* Type correctness and soundness of the calls.                            *)
(***************************************************************************)
TypeInv == TypeOK /\ CallsSound

LEMMA TypeInvInit == Init => TypeInv
<1> SUFFICES ASSUME Init PROVE TypeInv
    OBVIOUS
<1> DEFINE c == NewCall("create", None, Empty, "idle")
<1>1. c \in Call /\ c.phase = "idle"
    BY EmptyType, NewCallType DEF AllKinds, Phases
<1>2. call = [r \in Requests |-> c] /\ payroll = [p \in Requests |-> None]
    BY DEF Init
<1> HIDE DEF c
<1>3. QED
    BY <1>1, <1>2 DEF TypeInv, TypeOK, CallsSound, SoundCall, InFlightPhases

\* A step of one call that writes no row.
LEMMA TypeInvRead ==
    ASSUME TypeInv, NEW r \in Requests, call[r].phase # "done", NEW c \in Call,
           call' = [call EXCEPT ![r] = c], payroll' = payroll,
           SoundCall(r)'
    PROVE  TypeInv'
<1>1. TypeOK'
    BY DEF TypeInv, TypeOK
<1>2. ASSUME NEW q \in Requests, q # r PROVE SoundCall(q)'
    <2>1. SoundCall(q) /\ call'[q] = call[q]
        BY <1>2 DEF TypeInv, TypeOK, CallsSound
    <2>2. \A t \in Requests : call[t].phase = "done" => call'[t] = call[t]
        BY DEF TypeInv, TypeOK
    <2>3. QED
        BY <2>1, <2>2 DEF SoundCall
<1>3. QED
    BY <1>1, <1>2 DEF TypeInv, CallsSound

\* A call that ends without writing.
LEMMA TypeInvLeave ==
    ASSUME TypeInv, NEW r \in Requests, InFlight(r),
           call' = [call EXCEPT ![r] = Left(call[r], "refused")], payroll' = payroll
    PROVE  TypeInv'
<1>1. call[r] \in Call /\ call[r].phase # "done" /\ SoundCall(r)
    BY DEF TypeInv, TypeOK, CallsSound, InFlight, InFlightPhases
<1>2. Left(call[r], "refused") \in Call /\ Left(call[r], "refused").phase = "refused"
    BY <1>1, LeftFacts DEF Phases
<1>3. call'[r] = Left(call[r], "refused")
    BY DEF TypeInv, TypeOK
<1>4. SoundCall(r)'
    BY <1>1, <1>2, <1>3 DEF SoundCall, InFlightPhases
<1>5. QED
    BY <1>1, <1>2, <1>4, TypeInvRead

\* A write: the call is done and its row is set or removed.
LEMMA TypeInvWrite ==
    ASSUME TypeInv, NEW r \in Requests, call[r].phase = "ready",
           NEW row \in Row \cup {None},
           payroll' = [payroll EXCEPT ![call[r].target] = row],
           call' = [call EXCEPT ![r] = Left(call[r], "done")]
    PROVE  TypeInv'
<1> DEFINE t == call[r].target
<1>1. /\ call[r] \in Call /\ SoundCall(r)
      /\ t \in Requests /\ (t = r \/ call[t].phase = "done")
    BY DEF TypeInv, TypeOK, CallsSound, SoundCall, InFlightPhases
<1>2. Left(call[r], "done") \in Call /\ Left(call[r], "done").phase = "done"
    BY <1>1, LeftFacts DEF Phases
<1>3. TypeOK'
    BY <1>1, <1>2 DEF TypeInv, TypeOK
<1>4. call'[r].phase = "done"
    BY <1>2 DEF TypeInv, TypeOK
<1>5. ASSUME NEW q \in Requests PROVE SoundCall(q)'
    <2>1. CASE q = r
        BY <1>4, <2>1 DEF SoundCall, InFlightPhases
    <2>2. CASE q # r
        <3>1. SoundCall(q) /\ call'[q] = call[q]
            BY <2>2 DEF TypeInv, TypeOK, CallsSound
        <3>2. payroll'[q] # None => call[q].phase = "done"
            BY <1>1, <2>2, <3>1 DEF TypeInv, TypeOK, SoundCall
        <3>3. \A u \in Requests : call[u].phase = "done" => call'[u].phase = "done"
            BY <1>4 DEF TypeInv, TypeOK
        <3>4. QED
            BY <3>1, <3>2, <3>3 DEF SoundCall
    <2>3. QED
        BY <2>1, <2>2
<1>6. QED
    BY <1>3, <1>5 DEF TypeInv, CallsSound

\* The four ways a call begins.
LEMMA TypeInvStart ==
    ASSUME TypeInv, NEW r \in Requests, NEW kind \in AllKinds, NEW target \in Requests,
           NEW dto \in Dto, NEW phase \in {"started", "checked"},
           Start(r, kind, target, dto, phase),
           \/ /\ kind = "create" /\ target = r /\ phase = "checked"
              /\ dto.employee # None /\ dto.month # None
           \/ kind # "create" /\ phase = "started" /\ target \in Rows
    PROVE  TypeInv'
<1> DEFINE c == NewCall(kind, target, dto, phase)
<1>1. c \in Call /\ c.kind = kind /\ c.target = target /\ c.dto = dto /\ c.phase = phase
    BY NewCallType DEF Phases
<1>2. call' = [call EXCEPT ![r] = c] /\ payroll' = payroll /\ call[r].phase = "idle"
    BY DEF Start, MayStart
<1>3. call'[r] = c
    BY <1>2 DEF TypeInv, TypeOK
<1>4. payroll[r] = None
    BY <1>2 DEF TypeInv, CallsSound, SoundCall
<1>5. target \in Rows => call[target].phase = "done" /\ target # r
    BY <1>2 DEF TypeInv, CallsSound, SoundCall, Rows
<1> HIDE DEF c
<1>6. SoundCall(r)'
    BY <1>1, <1>2, <1>3, <1>4, <1>5 DEF SoundCall, InFlightPhases, TypeInv, TypeOK
<1>7. QED
    BY <1>1, <1>2, <1>6, TypeInvRead

LEMMA TypeInvStarts ==
    ASSUME TypeInv, NEW r \in Requests,
           StartCreate(r) \/ StartUpdate(r) \/ StartPay(r) \/ StartDelete(r)
    PROVE  TypeInv'
<1>1. CASE StartCreate(r)
    <2>1. PICK e \in Employees, m \in Months, n \in Nets \cup {None}, s \in Sent \cup {None} :
             Start(r, "create", r,
                   [Empty EXCEPT !.employee = e, !.month = m, !.net = n, !.status = s],
                   "checked")
        BY <1>1 DEF StartCreate
    <2> DEFINE dto == [Empty EXCEPT !.employee = e, !.month = m, !.net = n, !.status = s]
    <2>2. dto \in Dto /\ dto.employee # None /\ dto.month # None
        BY PayrollAssumption DEF Empty, Dto
    <2> HIDE DEF dto
    <2>3. Start(r, "create", r, dto, "checked")
        BY <2>1 DEF dto
    <2>4. QED
        BY <2>2, <2>3, TypeInvStart DEF AllKinds
<1>2. CASE StartUpdate(r)
    <2>1. PICK p \in Rows, dto \in UpdateDto : Start(r, "update", p, dto, "started")
        BY <1>2 DEF StartUpdate
    <2>2. dto \in Dto /\ p \in Requests
        BY DEF UpdateDto, Dto, Rows
    <2>3. QED
        BY <2>1, <2>2, TypeInvStart DEF AllKinds
<1>3. CASE StartPay(r)
    <2>1. PICK p \in Rows, a \in Amounts :
             Start(r, "pay", p, [Empty EXCEPT !.amount = a], "started")
        BY <1>3 DEF StartPay
    <2>2. [Empty EXCEPT !.amount = a] \in Dto /\ p \in Requests
        BY DEF Empty, Dto, Rows
    <2>3. QED
        BY <2>1, <2>2, TypeInvStart DEF AllKinds
<1>4. CASE StartDelete(r)
    <2>1. PICK p \in Rows : Start(r, "delete", p, Empty, "started")
        BY <1>4 DEF StartDelete
    <2>2. Empty \in Dto /\ p \in Requests
        BY EmptyType DEF Rows
    <2>3. QED
        BY <2>1, <2>2, TypeInvStart DEF AllKinds
<1>5. QED
    BY <1>1, <1>2, <1>3, <1>4

LEMMA TypeInvLoad ==
    ASSUME TypeInv, NEW r \in Requests, Load(r) PROVE TypeInv'
<1> DEFINE row == payroll[call[r].target]
           refused == row = None \/ (call[r].kind = "pay"
                                     /\ RefusesPayment(row, call[r].dto.amount))
           next == IF call[r].kind = "update" /\ NamesKey(call[r].dto)
                   THEN "checked" ELSE "ready"
           c == [call[r] EXCEPT !.phase = next, !.row = row]
<1>1. /\ call[r] \in Call /\ SoundCall(r) /\ call[r].phase = "started"
      /\ InFlight(r) /\ payroll' = payroll
    BY DEF TypeInv, TypeOK, CallsSound, Load, InFlight, InFlightPhases
<1>2. call' = [call EXCEPT ![r] = IF refused THEN Left(call[r], "refused") ELSE c]
    BY DEF Load
<1>3. CASE refused
    BY <1>1, <1>2, <1>3, TypeInvLeave
<1>4. CASE ~refused
    <2>1. call[r].kind # "create" /\ call[r].target \in Requests
          /\ call[call[r].target].phase = "done"
        BY <1>1 DEF SoundCall, InFlightPhases
    <2>2. row \in Row /\ row # None
        BY <1>4, <2>1 DEF TypeInv, TypeOK
    <2>3. c \in Call /\ c.phase \in {"checked", "ready"} /\ c.kind = call[r].kind
          /\ c.target = call[r].target /\ c.row = row
          /\ (c.phase = "checked" => c.kind = "update")
        <3>1. next \in {"checked", "ready"} /\ next \in Phases
              /\ (next = "checked" => call[r].kind = "update")
            BY DEF Phases
        <3> HIDE DEF next, row
        <3>2. QED
            BY <1>1, <2>2, <3>1 DEF Call
    <2>4. call' = [call EXCEPT ![r] = c]
        BY <1>2, <1>4
    <2> HIDE DEF c, row
    <2>5. call'[r] = c /\ call'[call[r].target].phase = "done"
        BY <1>1, <2>1, <2>4 DEF TypeInv, TypeOK
    <2>6. SoundCall(r)'
        BY <1>1, <2>1, <2>2, <2>3, <2>5 DEF SoundCall, InFlightPhases
    <2>7. QED
        BY <1>1, <2>3, <2>4, <2>6, TypeInvRead
<1>5. QED
    BY <1>3, <1>4

LEMMA TypeInvCheckUnique ==
    ASSUME TypeInv, NEW r \in Requests, CheckUnique(r) PROVE TypeInv'
<1> DEFINE phase == IF Taken(call[r].target, IntendedEmployee(r), IntendedMonth(r))
                    THEN "refused" ELSE "ready"
           c == [call[r] EXCEPT !.phase = phase]
<1>1. /\ call[r] \in Call /\ SoundCall(r) /\ call[r].phase = "checked"
      /\ payroll' = payroll /\ call' = [call EXCEPT ![r] = c]
    BY DEF TypeInv, TypeOK, CallsSound, CheckUnique, Become
<1>2. phase \in {"refused", "ready"}
    OBVIOUS
<1> HIDE DEF phase
<1>3. /\ c \in Call /\ c.phase = phase /\ c.kind = call[r].kind
      /\ c.target = call[r].target /\ c.row = call[r].row /\ c.dto = call[r].dto
    BY <1>1, <1>2 DEF Call, Phases
<1> HIDE DEF c
<1>4. /\ call'[r] = c
      /\ \A t \in Requests : call[t].phase = "done" => call'[t].phase = "done"
    BY <1>1 DEF TypeInv, TypeOK
<1>5. SoundCall(r)'
    BY <1>1, <1>2, <1>3, <1>4 DEF SoundCall, InFlightPhases
<1>6. QED
    BY <1>1, <1>3, <1>5, TypeInvRead

\* The row each write writes.
CreatedRow(r) ==
    [employee |-> call[r].dto.employee, month |-> call[r].dto.month,
     net |-> Given(call[r].dto.net, 0), paid |-> 0,
     status |-> Given(call[r].dto.status, "draft")]

LEMMA CreateFacts ==
    ASSUME TypeInv, NEW r \in Requests, Create(r)
    PROVE  /\ call[r].phase = "ready" /\ call[r].kind = "create" /\ call[r].target = r
           /\ CreatedRow(r) \in Row /\ CreatedRow(r).paid = 0
           /\ Write(r, CreatedRow(r))
<1>1. /\ call[r] \in Call /\ SoundCall(r)
      /\ call[r].phase = "ready" /\ call[r].kind = "create" /\ Write(r, CreatedRow(r))
    BY DEF TypeInv, TypeOK, CallsSound, Create, CreatedRow
<1>2. /\ call[r].target = r /\ call[r].dto \in Dto
      /\ call[r].dto.employee # None /\ call[r].dto.month # None
    BY <1>1 DEF SoundCall, InFlightPhases, Call
<1>3. /\ Given(call[r].dto.net, 0) \in Int
      /\ Given(call[r].dto.status, "draft") \in PayrollStatuses
    BY <1>2, DtoFacts
<1>4. CreatedRow(r) \in Row /\ CreatedRow(r).paid = 0
    BY <1>2, <1>3 DEF CreatedRow, Row, Dto
<1>5. QED
    BY <1>1, <1>2, <1>4

UpdatedRow(r) == Updated(payroll[call[r].target], call[r].row, call[r].dto)

LEMMA UpdateFacts ==
    ASSUME TypeInv, NEW r \in Requests, Update(r)
    PROVE  /\ call[r].phase = "ready" /\ call[r].kind = "update"
           /\ payroll[call[r].target] # None
           /\ UpdatedRow(r) \in Row
           /\ UpdatedRow(r).paid = payroll[call[r].target].paid
           /\ Write(r, UpdatedRow(r))
<1>1. /\ call[r] \in Call /\ SoundCall(r)
      /\ call[r].phase = "ready" /\ call[r].kind = "update"
      /\ payroll[call[r].target] # None /\ Write(r, UpdatedRow(r))
    BY DEF TypeInv, TypeOK, CallsSound, Update, UpdatedRow
<1>2. /\ call[r].target \in Requests /\ call[r].dto \in Dto
      /\ call[r].row \in Row /\ payroll[call[r].target] \in Row
    BY <1>1 DEF SoundCall, InFlightPhases, Call, TypeInv, TypeOK
<1>3. UpdatedRow(r) \in Row
    BY <1>2, UpdatedType DEF UpdatedRow
<1>4. UpdatedRow(r).paid = payroll[call[r].target].paid
    BY DEF UpdatedRow, Updated
<1>5. QED
    BY <1>1, <1>3, <1>4

PaidTotal(r) == call[r].row.paid + call[r].dto.amount

PaidRow(r) == PaidUp(payroll[call[r].target], PaidTotal(r), call[r].row.net)

LEMMA PayFacts ==
    ASSUME TypeInv, NEW r \in Requests, Pay(r)
    PROVE  /\ call[r].phase = "ready" /\ call[r].kind = "pay"
           /\ payroll[call[r].target] \in Row /\ payroll[call[r].target] # None
           /\ PaidRow(r) \in Row
           /\ PaidRow(r).paid = PaidTotal(r)
           /\ PaidRow(r).net = payroll[call[r].target].net
           /\ Write(r, PaidRow(r))
<1>1. /\ call[r] \in Call /\ SoundCall(r)
      /\ call[r].phase = "ready" /\ call[r].kind = "pay"
      /\ payroll[call[r].target] # None /\ Write(r, PaidRow(r))
    BY DEF TypeInv, TypeOK, CallsSound, Pay, PaidRow, PaidTotal
<1>2. /\ call[r].target \in Requests /\ call[r].dto \in Dto
      /\ call[r].row \in Row /\ payroll[call[r].target] \in Row
    BY <1>1 DEF SoundCall, InFlightPhases, Call, TypeInv, TypeOK
<1>3. PaidTotal(r) \in Nat
    <2>1. call[r].dto.amount \in Nat /\ call[r].row.paid \in Nat
        BY <1>2, DtoFacts DEF Row
    <2>2. QED
        BY <2>1 DEF PaidTotal
<1>4. /\ PaidRow(r) \in Row /\ PaidRow(r).paid = PaidTotal(r)
      /\ PaidRow(r).net = payroll[call[r].target].net
    BY <1>2, <1>3, PaidUpType DEF PaidRow
<1>5. QED
    BY <1>1, <1>2, <1>4

\* What a step can do to the rows.
LEMMA StepEffect ==
    ASSUME TypeInv, [Next]_vars
    PROVE  \/ payroll' = payroll
           \/ \E r \in Requests : Create(r) \/ Update(r) \/ Pay(r) \/ Delete(r)
BY DEF Next, vars, StartCreate, StartUpdate, StartPay, StartDelete, Start, Load,
       CheckUnique, Fail

LEMMA TypeInvNext == TypeInv /\ [Next]_vars => TypeInv'
<1> SUFFICES ASSUME TypeInv, [Next]_vars PROVE TypeInv'
    OBVIOUS
<1>1. CASE UNCHANGED vars
    BY <1>1 DEF vars, TypeInv, TypeOK, CallsSound, SoundCall
<1>2. ASSUME NEW r \in Requests,
             StartCreate(r) \/ StartUpdate(r) \/ StartPay(r) \/ StartDelete(r)
      PROVE  TypeInv'
    BY <1>2, TypeInvStarts
<1>3. ASSUME NEW r \in Requests, Load(r) \/ CheckUnique(r) \/ Fail(r)
      PROVE  TypeInv'
    BY <1>3, TypeInvLoad, TypeInvCheckUnique, TypeInvLeave DEF Fail
<1>4. ASSUME NEW r \in Requests, NEW row \in Row, Write(r, row), call[r].phase = "ready"
      PROVE  TypeInv'
    BY <1>4, TypeInvWrite DEF Write
<1>5. ASSUME NEW r \in Requests, Create(r) \/ Update(r) \/ Pay(r)
      PROVE  TypeInv'
    BY <1>4, <1>5, CreateFacts, UpdateFacts, PayFacts
<1>6. ASSUME NEW r \in Requests, Delete(r) PROVE TypeInv'
    BY <1>6, TypeInvWrite DEF Delete
<1>7. QED
    BY <1>1, <1>2, <1>3, <1>5, <1>6 DEF Next

\* The ledger and the calls are well typed, and a call about to write has loaded
\* what it writes from, in every reachable state.
THEOREM TypeCorrect == Spec => [](TypeOK /\ CallsSound)
<1>1. Spec => []TypeInv
    BY TypeInvInit, TypeInvNext, PTL DEF Spec
<1>2. TypeInv => TypeOK /\ CallsSound
    BY DEF TypeInv
<1>3. QED
    BY <1>1, <1>2, PTL

(***************************************************************************)
(* One payroll a month, whatever overlaps.                                 *)
(***************************************************************************)
LEMMA OnePerMonthStep == TypeInv /\ OnePerMonth /\ [Next]_vars => OnePerMonth'
<1> SUFFICES ASSUME TypeInv, OnePerMonth, [Next]_vars PROVE OnePerMonth'
    OBVIOUS
<1>1. CASE payroll' = payroll
    BY <1>1 DEF OnePerMonth, Rows
<1>2. ASSUME NEW r \in Requests, NEW row \in Row, Write(r, row)
      PROVE  OnePerMonth'
    <2>1. /\ payroll' = [payroll EXCEPT ![call[r].target] = row]
          /\ ~Taken(call[r].target, row.employee, row.month)
        BY <1>2 DEF Write
    <2>2. \A q \in Rows : q # call[r].target =>
              ~(payroll[q].employee = row.employee /\ payroll[q].month = row.month)
        BY <2>1 DEF Taken
    <2>3. \A q \in Requests : payroll'[q] = IF q = call[r].target THEN row ELSE payroll[q]
        BY <2>1 DEF TypeInv, TypeOK
    <2>4. QED
        BY <2>2, <2>3 DEF OnePerMonth, Rows
<1>3. ASSUME NEW r \in Requests, Delete(r) PROVE OnePerMonth'
    <2>1. \A q \in Requests : payroll'[q] # None => payroll'[q] = payroll[q]
        BY <1>3 DEF Delete, TypeInv, TypeOK
    <2>2. QED
        BY <2>1 DEF OnePerMonth, Rows
<1>4. QED
    BY <1>1, <1>2, <1>3, StepEffect, CreateFacts, UpdateFacts, PayFacts

\* No interleaving of creations, edits, payments and deletions leaves an employee
\* with two payrolls for a month.
THEOREM OnePerMonthCorrect == Spec => []OnePerMonth
<1>1. Init => OnePerMonth
    BY DEF Init, OnePerMonth, Rows
<1>2. QED
    BY <1>1, TypeInvInit, TypeInvNext, OnePerMonthStep, PTL DEF Spec

(***************************************************************************)
(* Payments of one payroll that do not overlap never overpay by themselves.*)
(***************************************************************************)

\* A call that was accepted is history.
LEMMA DoneStays ==
    ASSUME TypeInv, [Next]_vars, NEW r \in Requests, call[r].phase = "done"
    PROVE  call'[r] = call[r]
<1>1. CASE UNCHANGED vars
    BY <1>1 DEF vars
<1>2. ASSUME NEW q \in Requests, call[q].phase # "done",
             \E c : call' = [call EXCEPT ![q] = c]
      PROVE  call'[r] = call[r]
    BY <1>2 DEF TypeInv, TypeOK
<1>3. ASSUME NEW q \in Requests,
             \/ StartCreate(q) \/ StartUpdate(q) \/ StartPay(q) \/ StartDelete(q)
             \/ Load(q) \/ CheckUnique(q) \/ Fail(q)
      PROVE  /\ call[q].phase # "done"
             /\ \E c : call' = [call EXCEPT ![q] = c]
    BY <1>3 DEF StartCreate, StartUpdate, StartPay, StartDelete, Start, MayStart, Load,
                CheckUnique, Become, Fail, InFlight, InFlightPhases
<1>4. ASSUME NEW q \in Requests, Create(q) \/ Update(q) \/ Pay(q) \/ Delete(q)
      PROVE  /\ call[q].phase # "done"
             /\ \E c : call' = [call EXCEPT ![q] = c]
    BY <1>4 DEF Create, Update, Pay, Delete, Write
<1>5. QED
    BY <1>1, <1>2, <1>3, <1>4 DEF Next

LEMMA EditedStays ==
    ASSUME TypeInv, [Next]_vars, NEW p, Edited(p) PROVE Edited(p)'
BY DoneStays DEF Edited

\* Calls in flight together for one payroll are of endpoints that may overlap.
Exclusive ==
    \A q, r \in Requests :
        q # r /\ InFlight(q) /\ InFlight(r) /\ call[q].target = call[r].target =>
            {call[q].kind, call[r].kind} \notin Apart

LEMMA ExclusiveStep == TypeInv /\ Exclusive /\ [Next]_vars => Exclusive'
<1> SUFFICES ASSUME TypeInv, Exclusive, [Next]_vars PROVE Exclusive'
    OBVIOUS
<1>1. CASE UNCHANGED vars
    BY <1>1 DEF vars, Exclusive, InFlight
<1>2. ASSUME NEW r \in Requests, NEW kind \in AllKinds, NEW target \in Requests \cup {None},
             NEW dto \in Dto, NEW phase \in Phases, Start(r, kind, target, dto, phase)
      PROVE  Exclusive'
    <2> DEFINE c == NewCall(kind, target, dto, phase)
    <2>1. /\ call'[r].kind = kind /\ call'[r].target = target
          /\ \A q \in Requests : q # r => call'[q] = call[q]
          /\ \A q \in Requests :
                InFlight(q) /\ call[q].target = target => {kind, call[q].kind} \notin Apart
        <3>1. c.kind = kind /\ c.target = target
            BY NewCallType
        <3>2. call' = [call EXCEPT ![r] = c]
            BY <1>2 DEF Start
        <3>3. \A q \in Requests :
                 InFlight(q) /\ call[q].target = target => {kind, call[q].kind} \notin Apart
            BY <1>2 DEF Start, MayStart
        <3> HIDE DEF c
        <3>4. QED
            BY <3>1, <3>2, <3>3 DEF TypeInv, TypeOK
    <2>2. \A q \in Requests : {kind, call[q].kind} = {call[q].kind, kind}
        OBVIOUS
    <2>3. QED
        BY <2>1, <2>2 DEF Exclusive, InFlight
<1>3. ASSUME NEW r \in Requests,
             StartCreate(r) \/ StartUpdate(r) \/ StartPay(r) \/ StartDelete(r)
      PROVE  \E kind \in AllKinds, target \in Requests \cup {None}, dto \in Dto, phase \in Phases :
                Start(r, kind, target, dto, phase)
    <2>1. CASE StartCreate(r)
        <3>1. PICK e \in Employees, m \in Months, n \in Nets \cup {None}, s \in Sent \cup {None} :
                 Start(r, "create", r,
                       [Empty EXCEPT !.employee = e, !.month = m, !.net = n, !.status = s],
                       "checked")
            BY <2>1 DEF StartCreate
        <3> DEFINE dto == [Empty EXCEPT !.employee = e, !.month = m, !.net = n, !.status = s]
        <3>2. dto \in Dto
            BY DEF Empty, Dto
        <3> HIDE DEF dto
        <3>3. Start(r, "create", r, dto, "checked")
            BY <3>1 DEF dto
        <3>4. QED
            BY <3>2, <3>3 DEF AllKinds, Phases
    <2>2. CASE StartUpdate(r)
        BY <2>2 DEF StartUpdate, UpdateDto, Dto, Rows, AllKinds, Phases
    <2>3. CASE StartPay(r)
        <3>1. PICK p \in Rows, a \in Amounts :
                 Start(r, "pay", p, [Empty EXCEPT !.amount = a], "started")
            BY <2>3 DEF StartPay
        <3>2. [Empty EXCEPT !.amount = a] \in Dto /\ p \in Requests
            BY DEF Empty, Dto, Rows
        <3>3. QED
            BY <3>1, <3>2 DEF AllKinds, Phases
    <2>4. CASE StartDelete(r)
        BY <2>4, EmptyType DEF StartDelete, Rows, AllKinds, Phases
    <2>5. QED
        BY <1>3, <2>1, <2>2, <2>3, <2>4
<1>4. ASSUME NEW r \in Requests, InFlight(r), NEW c,
             call' = [call EXCEPT ![r] = c],
             c.kind = call[r].kind, c.target = call[r].target
      PROVE  Exclusive'
    BY <1>4 DEF Exclusive, InFlight, TypeInv, TypeOK
<1>5. ASSUME NEW r \in Requests, Load(r) PROVE Exclusive'
    <2> DEFINE row == payroll[call[r].target]
               refused == row = None \/ (call[r].kind = "pay"
                                         /\ RefusesPayment(row, call[r].dto.amount))
               next == IF call[r].kind = "update" /\ NamesKey(call[r].dto)
                       THEN "checked" ELSE "ready"
               c == IF refused THEN Left(call[r], "refused")
                    ELSE [call[r] EXCEPT !.phase = next, !.row = row]
    <2>1. call[r] \in Call /\ InFlight(r) /\ call' = [call EXCEPT ![r] = c]
        BY <1>5 DEF TypeInv, TypeOK, Load, InFlight, InFlightPhases
    <2> HIDE DEF refused, next, row
    <2>2. c.kind = call[r].kind /\ c.target = call[r].target
        BY <2>1, LeftFacts DEF Call, Phases
    <2>3. QED
        BY <1>4, <2>1, <2>2
<1>6. ASSUME NEW r \in Requests, CheckUnique(r) PROVE Exclusive'
    <2> DEFINE phase == IF Taken(call[r].target, IntendedEmployee(r), IntendedMonth(r))
                        THEN "refused" ELSE "ready"
               c == [call[r] EXCEPT !.phase = phase]
    <2>1. call[r] \in Call /\ InFlight(r) /\ call' = [call EXCEPT ![r] = c]
        BY <1>6 DEF TypeInv, TypeOK, CheckUnique, Become, InFlight, InFlightPhases
    <2> HIDE DEF phase
    <2>2. c.kind = call[r].kind /\ c.target = call[r].target
        BY <2>1 DEF Call
    <2>3. QED
        BY <1>4, <2>1, <2>2
<1>7. ASSUME NEW r \in Requests,
             Create(r) \/ Update(r) \/ Pay(r) \/ Delete(r) \/ Fail(r)
      PROVE  Exclusive'
    <2>1. /\ InFlight(r) /\ call[r] \in Call
          /\ \E phase \in {"done", "refused"} : call' = [call EXCEPT ![r] = Left(call[r], phase)]
        BY <1>7 DEF Create, Update, Pay, Delete, Write, Fail, InFlight, InFlightPhases,
                    TypeInv, TypeOK
    <2>2. PICK phase \in {"done", "refused"} :
             call' = [call EXCEPT ![r] = Left(call[r], phase)]
        BY <2>1
    <2>3. /\ Left(call[r], phase).kind = call[r].kind
          /\ Left(call[r], phase).target = call[r].target
        BY <2>1, LeftFacts DEF Phases
    <2>4. QED
        BY <1>4, <2>1, <2>2, <2>3
<1>8. QED
    BY <1>1, <1>2, <1>3, <1>5, <1>6, <1>7 DEF Next

\* A payment about to be written fits the row it loaded, and that row's paid
\* amount - and, without an edit, its net salary - still stands.
PayFits(r) ==
    call[r].phase = "ready" /\ call[r].kind = "pay" =>
        LET current == payroll[call[r].target]
        IN  /\ PaidTotal(r) <= call[r].row.net
            /\ current # None =>
                   /\ current.paid = call[r].row.paid
                   /\ current.net = call[r].row.net \/ Edited(call[r].target)

OverpaidHere(p) ==
    payroll[p] # None => payroll[p].paid <= 0 \/ payroll[p].paid <= payroll[p].net \/ Edited(p)

LedgerInv ==
    /\ TypeInv
    /\ Exclusive
    /\ \A r \in Requests : PayFits(r)
    /\ \A p \in Requests : OverpaidHere(p)

\* A step that writes no row and leaves r's call as it was.
LEMMA PayFitsKept ==
    ASSUME LedgerInv, [Next]_vars, NEW r \in Requests, call'[r] = call[r],
           \/ payroll'[call[r].target] = payroll[call[r].target]
           \/ payroll'[call[r].target] = None
           \/ /\ payroll[call[r].target] # None
              /\ payroll'[call[r].target].paid = payroll[call[r].target].paid
              /\ Edited(call[r].target)'
    PROVE  PayFits(r)'
<1>1. PayFits(r)
    BY DEF LedgerInv
<1>2. Edited(call[r].target) => Edited(call[r].target)'
    BY EditedStays DEF LedgerInv
<1>3. QED
    BY <1>1, <1>2 DEF PayFits, PaidTotal

LEMMA PayFitsReads ==
    ASSUME LedgerInv, [Next]_vars, payroll' = payroll, NEW r \in Requests
    PROVE  PayFits(r)'
<1>1. CASE call'[r] = call[r]
    BY <1>1, PayFitsKept
<1>2. CASE Load(r)
    <2> DEFINE row == payroll[call[r].target]
               refused == row = None \/ (call[r].kind = "pay"
                                         /\ RefusesPayment(row, call[r].dto.amount))
               next == IF call[r].kind = "update" /\ NamesKey(call[r].dto)
                       THEN "checked" ELSE "ready"
               c == [call[r] EXCEPT !.phase = next, !.row = row]
    <2>1. /\ call[r] \in Call
          /\ call'[r] = IF refused THEN Left(call[r], "refused") ELSE c
        BY <1>2 DEF LedgerInv, TypeInv, TypeOK, Load
    <2>2. CASE refused
        <3>1. call'[r].phase = "refused"
            BY <2>1, <2>2, LeftFacts DEF Phases
        <3>2. QED
            BY <3>1 DEF PayFits
    <2>3. CASE ~refused
        <3>1. /\ c.kind = call[r].kind /\ c.target = call[r].target /\ c.dto = call[r].dto
              /\ c.row = row
            <4> HIDE DEF row, next
            <4>1. QED
                BY <2>1 DEF Call
        <3>2. /\ row # None
              /\ call[r].kind = "pay" => row.paid + call[r].dto.amount <= row.net
            <4>1. /\ row # None
                  /\ call[r].kind = "pay" => ~(row.paid + call[r].dto.amount > row.net)
                BY <2>3 DEF RefusesPayment
            <4>2. row \in Row
                <5>1. call[r].target \in Requests
                    BY <1>2 DEF Load, LedgerInv, TypeInv, CallsSound, SoundCall, InFlightPhases
                <5>2. QED
                    BY <4>1, <5>1 DEF LedgerInv, TypeInv, TypeOK
            <4>3. row.paid \in Int /\ row.net \in Int /\ call[r].dto.amount \in Int
                BY <2>1, <4>2, DtoFacts DEF Row, Call
            <4> HIDE DEF row
            <4>4. QED
                BY <4>1, <4>3
        <3>3. call'[r] = c /\ payroll'[c.target] = row
            BY <2>1, <2>3, <3>1
        <3> HIDE DEF c, row
        <3>4. QED
            BY <3>1, <3>2, <3>3 DEF PayFits, PaidTotal
    <2>4. QED
        BY <2>2, <2>3
<1>3. CASE CheckUnique(r)
    <2> DEFINE phase == IF Taken(call[r].target, IntendedEmployee(r), IntendedMonth(r))
                        THEN "refused" ELSE "ready"
               c == [call[r] EXCEPT !.phase = phase]
    <2>1. call[r] \in Call /\ call'[r] = c /\ call[r].kind \in {"create", "update"}
        BY <1>3 DEF LedgerInv, TypeInv, TypeOK, CallsSound, SoundCall, CheckUnique, Become
    <2> HIDE DEF phase
    <2>2. c.kind = call[r].kind
        BY <2>1 DEF Call
    <2> HIDE DEF c
    <2>3. QED
        BY <2>1, <2>2 DEF PayFits
<1>4. CASE call'[r].phase \in {"started", "checked", "done", "refused"}
    BY <1>4 DEF PayFits
<1>5. ASSUME NEW q \in Requests,
             \/ StartCreate(q) \/ StartUpdate(q) \/ StartPay(q) \/ StartDelete(q)
             \/ Load(q) \/ CheckUnique(q) \/ Fail(q)
             \/ Create(q) \/ Update(q) \/ Pay(q) \/ Delete(q)
      PROVE  q # r => call'[r] = call[r]
    BY <1>5 DEF LedgerInv, TypeInv, TypeOK, StartCreate, StartUpdate, StartPay, StartDelete,
                Start, Load, CheckUnique, Become, Fail, Create, Update, Pay, Delete, Write
<1>6. CASE StartCreate(r) \/ StartUpdate(r) \/ StartPay(r) \/ StartDelete(r)
    <2>1. \E kind, target, dto : \E phase \in {"started", "checked"} :
             call' = [call EXCEPT ![r] = NewCall(kind, target, dto, phase)]
        BY <1>6 DEF StartCreate, StartUpdate, StartPay, StartDelete, Start
    <2>2. call'[r].phase \in {"started", "checked"}
        BY <2>1 DEF NewCall, LedgerInv, TypeInv, TypeOK
    <2>3. QED
        BY <1>4, <2>2
<1>7. CASE Fail(r) \/ Create(r) \/ Update(r) \/ Pay(r) \/ Delete(r)
    <2>1. call[r] \in Call
          /\ \E phase \in {"done", "refused"} : call' = [call EXCEPT ![r] = Left(call[r], phase)]
        BY <1>7 DEF Create, Update, Pay, Delete, Write, Fail, LedgerInv, TypeInv, TypeOK
    <2>2. PICK phase \in {"done", "refused"} :
             call' = [call EXCEPT ![r] = Left(call[r], phase)]
        BY <2>1
    <2>3. Left(call[r], phase).phase = phase
        BY <2>1, LeftFacts DEF Phases
    <2>4. call'[r].phase = phase
        BY <2>2, <2>3 DEF LedgerInv, TypeInv, TypeOK
    <2>5. QED
        BY <1>4, <2>4
<1>8. QED
    BY <1>1, <1>2, <1>3, <1>5, <1>6, <1>7 DEF Next, vars

\* The four writes, and what each leaves of the other calls and of the rows.
LEMMA CallAfterWrite ==
    ASSUME TypeInv, NEW w \in Requests,
           call' = [call EXCEPT ![w] = Left(call[w], "done")]
    PROVE  /\ call'[w].phase = "done" /\ call'[w].kind = call[w].kind
           /\ call'[w].target = call[w].target
           /\ \A r \in Requests : r # w => call'[r] = call[r]
<1>1. call[w] \in Call /\ call'[w] = Left(call[w], "done")
    BY DEF TypeInv, TypeOK
<1>2. \A r \in Requests : r # w => call'[r] = call[r]
    BY DEF TypeInv, TypeOK
<1>3. QED
    BY <1>1, <1>2, LeftFacts DEF Phases

LEMMA LedgerCreate ==
    ASSUME LedgerInv, [Next]_vars, NEW w \in Requests, Create(w)
    PROVE  (\A r \in Requests : PayFits(r)') /\ (\A p \in Requests : OverpaidHere(p)')
<1>1. /\ TypeInv /\ call[w].phase = "ready" /\ call[w].target = w
      /\ CreatedRow(w).paid = 0 /\ Write(w, CreatedRow(w))
    BY CreateFacts DEF LedgerInv
<1>2. /\ call'[w].phase = "done"
      /\ \A r \in Requests : r # w => call'[r] = call[r]
      /\ payroll'[w] = CreatedRow(w)
      /\ \A p \in Requests : p # w => payroll'[p] = payroll[p]
    BY <1>1, CallAfterWrite DEF Write, TypeInv, TypeOK
<1>3. ASSUME NEW r \in Requests PROVE PayFits(r)'
    <2>1. CASE r = w
        BY <1>2, <2>1 DEF PayFits
    <2>2. CASE ~(call[r].phase = "ready" /\ call[r].kind = "pay") /\ r # w
        BY <1>2, <2>2 DEF PayFits
    <2>3. CASE call[r].phase = "ready" /\ call[r].kind = "pay" /\ r # w
        <3>1. call[r].target \in Requests /\ call[r].target # w
            BY <1>1, <2>3 DEF TypeInv, CallsSound, SoundCall, InFlightPhases
        <3>2. QED
            BY <1>2, <2>3, <3>1, PayFitsKept
    <2>4. QED
        BY <2>1, <2>2, <2>3
<1>4. ASSUME NEW p \in Requests PROVE OverpaidHere(p)'
    <2>1. CASE p = w
        BY <1>1, <1>2, <2>1 DEF OverpaidHere
    <2>2. CASE p # w
        BY <1>1, <1>2, <2>2, EditedStays DEF OverpaidHere, LedgerInv
    <2>3. QED
        BY <2>1, <2>2
<1>5. QED
    BY <1>3, <1>4

LEMMA LedgerUpdate ==
    ASSUME LedgerInv, [Next]_vars, NEW w \in Requests, Update(w)
    PROVE  (\A r \in Requests : PayFits(r)') /\ (\A p \in Requests : OverpaidHere(p)')
<1>0. PICK t \in Requests : t = call[w].target
    BY UpdateFacts DEF LedgerInv, TypeInv, CallsSound, SoundCall, InFlightPhases
<1>1. /\ TypeInv /\ call[w].phase = "ready" /\ call[w].kind = "update"
      /\ payroll[t] # None
      /\ UpdatedRow(w).paid = payroll[t].paid /\ Write(w, UpdatedRow(w))
    BY <1>0, UpdateFacts DEF LedgerInv
<1>2. /\ call'[w].phase = "done" /\ call'[w].kind = "update" /\ call'[w].target = t
      /\ \A r \in Requests : r # w => call'[r] = call[r]
      /\ payroll'[t] = UpdatedRow(w)
      /\ \A p \in Requests : p # t => payroll'[p] = payroll[p]
    BY <1>0, <1>1, CallAfterWrite DEF Write, TypeInv, TypeOK
<1>3. Edited(t)'
    BY <1>2 DEF Edited
<1>4. ASSUME NEW r \in Requests PROVE PayFits(r)'
    <2>1. CASE r = w
        BY <1>2, <2>1 DEF PayFits
    <2>2. CASE ~(call[r].phase = "ready" /\ call[r].kind = "pay") /\ r # w
        BY <1>2, <2>2 DEF PayFits
    <2>3. CASE call[r].phase = "ready" /\ call[r].kind = "pay" /\ r # w
        <3>1. call[r].target \in Requests
            BY <1>1, <2>3 DEF TypeInv, CallsSound, SoundCall, InFlightPhases
        <3>2. CASE call[r].target = t
            BY <1>1, <1>2, <1>3, <2>3, <3>2, PayFitsKept
        <3>3. CASE call[r].target # t
            BY <1>2, <2>3, <3>1, <3>3, PayFitsKept
        <3>4. QED
            BY <3>2, <3>3
    <2>4. QED
        BY <2>1, <2>2, <2>3
<1>5. ASSUME NEW p \in Requests PROVE OverpaidHere(p)'
    <2>1. CASE p = t
        BY <1>3, <2>1 DEF OverpaidHere
    <2>2. CASE p # t
        BY <1>1, <1>2, <2>2, EditedStays DEF OverpaidHere, LedgerInv
    <2>3. QED
        BY <2>1, <2>2
<1>6. QED
    BY <1>4, <1>5

\* The only step that needs payments of one payroll kept apart from each other.
LEMMA LedgerPay ==
    ASSUME {"pay"} \in Apart, LedgerInv, [Next]_vars, NEW w \in Requests, Pay(w)
    PROVE  (\A r \in Requests : PayFits(r)') /\ (\A p \in Requests : OverpaidHere(p)')
<1> DEFINE t == call[w].target
<1>1. /\ TypeInv /\ call[w].phase = "ready" /\ call[w].kind = "pay"
      /\ t \in Requests /\ payroll[t] # None
      /\ PaidRow(w).paid = PaidTotal(w) /\ PaidRow(w).net = payroll[t].net
      /\ Write(w, PaidRow(w))
    BY PayFacts DEF LedgerInv, TypeInv, CallsSound, SoundCall, InFlightPhases
<1>2. /\ call'[w].phase = "done"
      /\ \A r \in Requests : r # w => call'[r] = call[r]
      /\ payroll'[t] = PaidRow(w)
      /\ \A p \in Requests : p # t => payroll'[p] = payroll[p]
    BY <1>1, CallAfterWrite DEF Write, TypeInv, TypeOK
<1>3. PaidTotal(w) <= call[w].row.net /\ (payroll[t].net = call[w].row.net \/ Edited(t))
    BY <1>1 DEF LedgerInv, PayFits
<1> HIDE DEF t
<1>4. ASSUME NEW r \in Requests PROVE PayFits(r)'
    <2>1. CASE r = w
        BY <1>2, <2>1 DEF PayFits
    <2>2. CASE r # w
        <3>1. CASE ~(call[r].phase = "ready" /\ call[r].kind = "pay")
            BY <1>2, <2>2, <3>1 DEF PayFits
        <3>2. CASE call[r].phase = "ready" /\ call[r].kind = "pay"
            <4>1. InFlight(w) /\ InFlight(r) /\ {"pay", "pay"} = {"pay"}
                BY <1>1, <3>2 DEF InFlight, InFlightPhases
            <4>2. call[r].target \in Requests /\ call[r].target # t
                BY <1>1, <2>2, <3>2, <4>1 DEF LedgerInv, TypeInv, CallsSound, SoundCall,
                                             InFlightPhases, Exclusive, t
            <4>3. QED
                BY <1>2, <2>2, <4>2, PayFitsKept
        <3>3. QED
            BY <3>1, <3>2
    <2>3. QED
        BY <2>1, <2>2
<1>5. ASSUME NEW p \in Requests PROVE OverpaidHere(p)'
    <2>1. CASE p = t
        <3>1. CASE payroll[t].net = call[w].row.net
            BY <1>1, <1>2, <1>3, <2>1, <3>1 DEF OverpaidHere
        <3>2. CASE Edited(t)
            BY <1>1, <2>1, <3>2, EditedStays DEF OverpaidHere
        <3>3. QED
            BY <1>3, <3>1, <3>2
    <2>2. CASE p # t
        BY <1>1, <1>2, <2>2, EditedStays DEF OverpaidHere, LedgerInv
    <2>3. QED
        BY <2>1, <2>2
<1>6. QED
    BY <1>4, <1>5

LEMMA LedgerDelete ==
    ASSUME LedgerInv, [Next]_vars, NEW w \in Requests, Delete(w)
    PROVE  (\A r \in Requests : PayFits(r)') /\ (\A p \in Requests : OverpaidHere(p)')
<1>1. /\ TypeInv /\ call[w].phase = "ready"
      /\ payroll' = [payroll EXCEPT ![call[w].target] = None]
      /\ call' = [call EXCEPT ![w] = Left(call[w], "done")]
    BY DEF Delete, LedgerInv
<1>2. /\ call'[w].phase = "done"
      /\ \A r \in Requests : r # w => call'[r] = call[r]
      /\ \A p \in Requests : payroll'[p] = None \/ payroll'[p] = payroll[p]
    BY <1>1, CallAfterWrite DEF TypeInv, TypeOK
<1>3. ASSUME NEW r \in Requests PROVE PayFits(r)'
    <2>1. CASE r = w
        BY <1>2, <2>1 DEF PayFits
    <2>2. CASE ~(call[r].phase = "ready" /\ call[r].kind = "pay") /\ r # w
        BY <1>2, <2>2 DEF PayFits
    <2>3. CASE call[r].phase = "ready" /\ call[r].kind = "pay" /\ r # w
        <3>1. call[r].target \in Requests
            BY <1>1, <2>3 DEF TypeInv, CallsSound, SoundCall, InFlightPhases
        <3>2. QED
            BY <1>2, <2>3, <3>1, PayFitsKept
    <2>4. QED
        BY <2>1, <2>2, <2>3
<1>4. ASSUME NEW p \in Requests PROVE OverpaidHere(p)'
    BY <1>1, <1>2, EditedStays DEF OverpaidHere, LedgerInv
<1>5. QED
    BY <1>3, <1>4

LEMMA LedgerNext ==
    ASSUME {"pay"} \in Apart, LedgerInv, [Next]_vars PROVE LedgerInv'
<1>1. TypeInv' /\ Exclusive'
    BY TypeInvNext, ExclusiveStep DEF LedgerInv
<1>2. CASE payroll' = payroll
    <2>1. \A r \in Requests : PayFits(r)'
        BY <1>2, PayFitsReads
    <2>2. ASSUME NEW p \in Requests PROVE OverpaidHere(p)'
        BY <1>2, EditedStays DEF OverpaidHere, LedgerInv
    <2>3. QED
        BY <1>1, <2>1, <2>2 DEF LedgerInv
<1>3. CASE \E w \in Requests : Create(w) \/ Update(w) \/ Pay(w) \/ Delete(w)
    BY <1>1, <1>3, LedgerCreate, LedgerUpdate, LedgerPay, LedgerDelete DEF LedgerInv
<1>4. QED
    BY <1>2, <1>3, StepEffect DEF LedgerInv

LEMMA LedgerInit == Init => LedgerInv
<1> SUFFICES ASSUME Init PROVE LedgerInv
    OBVIOUS
<1>1. /\ TypeInv
      /\ \A r \in Requests : call[r].phase = "idle" /\ payroll[r] = None
    BY TypeInvInit DEF Init, NewCall
<1>2. QED
    BY <1>1 DEF LedgerInv, Exclusive, InFlight, InFlightPhases, PayFits, OverpaidHere

LEMMA LedgerOverpaid == LedgerInv => OverpaidOnlyByEdit
<1> SUFFICES ASSUME LedgerInv, NEW p \in Rows,
                    payroll[p].paid > 0, payroll[p].paid > payroll[p].net
             PROVE  Edited(p)
    BY DEF OverpaidOnlyByEdit
<1>1. payroll[p] \in Row /\ payroll[p] # None /\ OverpaidHere(p)
    BY DEF Rows, LedgerInv, TypeInv, TypeOK
<1>2. payroll[p].paid \in Int /\ payroll[p].net \in Int
    BY <1>1 DEF Row
<1>3. QED
    BY <1>1, <1>2 DEF OverpaidHere

\* Where payments of one payroll do not overlap each other, whatever edits and
\* deletions overlap them and whatever payments of others, a payroll paid above
\* its net salary was edited.
THEOREM OverpaidCorrect ==
    ASSUME {"pay"} \in Apart
    PROVE  Spec => []OverpaidOnlyByEdit
<1>1. LedgerInv /\ [Next]_vars => LedgerInv'
    BY LedgerNext
<1>2. QED
    BY <1>1, LedgerInit, LedgerOverpaid, PTL DEF Spec

(***************************************************************************)
(* The paid amount is the sum of the accepted payments.                    *)
(*                                                                         *)
(* A fact about sums is shown by its smallest counterexample.              *)
(***************************************************************************)

\* A set of numbers has a least one: induction is by the least counterexample.
LEMMA LeastNumber ==
    ASSUME NEW T \in SUBSET Nat, T # {}
    PROVE  \E n \in T : \A m \in T : n <= m
<1>1. PICK n \in T : \A m \in T : ~(<<m, n>> \in OpToRel(<, Nat))
    BY NatLessThanWellFounded, WFMin
<1>2. \A m \in T : ~(m < n)
    BY <1>1 DEF OpToRel
<1>3. QED
    BY <1>2

\* Of finite sets one is such that without any of its elements it is not among them.
LEMMA SmallestSet ==
    ASSUME NEW B, B # {}, \A s \in B : IsFiniteSet(s)
    PROVE  \E s \in B : \A x \in s : s \ {x} \notin B
<1>. DEFINE sizes == {Cardinality(s) : s \in B}
<1>1. sizes \in SUBSET Nat /\ sizes # {}
    BY FS_CardinalityType
<1>2. PICK n \in sizes : \A m \in sizes : n <= m
    BY <1>1, LeastNumber
<1>3. PICK s \in B : Cardinality(s) = n
    BY <1>2
<1>4. ASSUME NEW x \in s, s \ {x} \in B
      PROVE  FALSE
    <2>1. Cardinality(s \ {x}) = n - 1 /\ n \in Nat
        BY <1>1, <1>3, FS_RemoveElement
    <2>2. Cardinality(s \ {x}) \in sizes
        BY <1>4
    <2>. HIDE DEF sizes
    <2>3. QED
        BY <1>2, <2>1, <2>2
<1>5. QED
    BY <1>3, <1>4

AnyOf(s) == CHOOSE x \in s : TRUE

\* i gives the sum of w over every subset of S, one element after the other.
IsSum(i, w, S) ==
    i = [s \in SUBSET S |-> IF s = {} THEN 0 ELSE w[AnyOf(s)] + i[s \ {AnyOf(s)}]]

LEMMA SumIs ==
    ASSUME NEW w, NEW S
    PROVE  SumFunctionOnSet(w, S) = (CHOOSE i : IsSum(i, w, S))[S]
BY Zenon DEF SumFunctionOnSet, FoldFunctionOnSet, MapThenFoldSet, IsSum, AnyOf

LEMMA SumFacts ==
    ASSUME NEW i, NEW w, NEW S, IsSum(i, w, S), NEW s \in SUBSET S
    PROVE  /\ s = {} => i[s] = 0
           /\ s # {} => /\ AnyOf(s) \in s
                        /\ i[s] = w[AnyOf(s)] + i[s \ {AnyOf(s)}]
<1>1. i[s] = IF s = {} THEN 0 ELSE w[AnyOf(s)] + i[s \ {AnyOf(s)}]
    BY DEF IsSum
<1>2. s # {} => AnyOf(s) \in s
    BY DEF AnyOf
<1>3. QED
    BY <1>1, <1>2

LEMMA SumsAgree ==
    ASSUME NEW i, NEW j, NEW w, NEW S, NEW T, IsSum(i, w, S), IsSum(j, w, T),
           NEW r \in SUBSET (S \cap T), IsFiniteSet(r)
    PROVE  i[r] = j[r]
<1>. DEFINE B == {s \in SUBSET (S \cap T) : IsFiniteSet(s) /\ i[s] # j[s]}
<1>1. SUFFICES ASSUME B # {} PROVE FALSE
    OBVIOUS
<1>2. PICK s \in B : \A x \in s : s \ {x} \notin B
    BY <1>1, SmallestSet
<1>3. s \in SUBSET S /\ s \in SUBSET T /\ i[s] # j[s] /\ IsFiniteSet(s)
    BY <1>2
<1>. HIDE DEF B
<1>4. s # {}
    BY <1>3, SumFacts
<1>5. /\ AnyOf(s) \in s /\ i[s] = w[AnyOf(s)] + i[s \ {AnyOf(s)}]
      /\ j[s] = w[AnyOf(s)] + j[s \ {AnyOf(s)}]
    BY <1>3, <1>4, SumFacts
<1>6. i[s \ {AnyOf(s)}] = j[s \ {AnyOf(s)}]
    BY <1>2, <1>3, <1>5, FS_RemoveElement DEF B
<1>7. QED
    BY <1>3, <1>5, <1>6

LEMMA SumExists ==
    ASSUME NEW w, NEW S, IsFiniteSet(S)
    PROVE  \E i : IsSum(i, w, S)
<1>. DEFINE B == {s \in SUBSET S : ~\E i : IsSum(i, w, s)}
<1>1. SUFFICES ASSUME B # {} PROVE FALSE
    OBVIOUS
<1>2. \A s \in SUBSET S : IsFiniteSet(s)
    BY FS_Subset
<1>3. PICK T \in B : \A x \in T : T \ {x} \notin B
    BY <1>1, <1>2, SmallestSet
<1>4. \A x \in T : \E i : IsSum(i, w, T \ {x})
    BY <1>3
<1>. DEFINE I(x) == CHOOSE i : IsSum(i, w, T \ {x})
            i == [s \in SUBSET T |-> IF s = {} THEN 0
                                     ELSE w[AnyOf(s)] + I(AnyOf(s))[s \ {AnyOf(s)}]]
<1>5. \A x \in T : IsSum(I(x), w, T \ {x})
    BY <1>4
<1>6. \A s \in SUBSET T : s # {} => AnyOf(s) \in s
    BY DEF AnyOf
<1>7. /\ i[{}] = 0
      /\ \A s \in SUBSET T : s # {} => i[s] = w[AnyOf(s)] + I(AnyOf(s))[s \ {AnyOf(s)}]
    OBVIOUS
<1>. HIDE DEF I
<1>8. ASSUME NEW x \in T, NEW u \in SUBSET (T \ {x})
      PROVE  I(x)[u] = i[u]
    <2>. HIDE DEF i
    <2>1. CASE u = {}
        BY <1>5, <1>7, <2>1, SumFacts
    <2>2. CASE u # {}
        <3>1. PICK y \in u : y = AnyOf(u)
            BY <1>6, <2>2
        <3>2. I(x)[u] = w[y] + I(x)[u \ {y}]
            BY <1>5, <2>2, <3>1, SumFacts
        <3>3. i[u] = w[y] + I(y)[u \ {y}]
            BY <1>7, <2>2, <3>1
        <3>4. I(x)[u \ {y}] = I(y)[u \ {y}]
            <4>1. IsSum(I(x), w, T \ {x}) /\ IsSum(I(y), w, T \ {y})
                BY <1>5
            <4>2. u \ {y} \in SUBSET ((T \ {x}) \cap (T \ {y})) /\ IsFiniteSet(u \ {y})
                BY <1>2
            <4>3. QED
                BY <4>1, <4>2, SumsAgree
        <3>5. QED
            BY <3>2, <3>3, <3>4
    <2>3. QED
        BY <2>1, <2>2
<1>9. \A s \in SUBSET T : s # {} => I(AnyOf(s))[s \ {AnyOf(s)}] = i[s \ {AnyOf(s)}]
    <2>. HIDE DEF i
    <2>1. QED
        BY <1>6, <1>8
<1>10. IsSum(i, w, T)
    BY <1>9 DEF IsSum
<1>11. QED
    BY <1>3, <1>10

LEMMA SumUnfold ==
    ASSUME NEW w, NEW S, IsFiniteSet(S)
    PROVE  \E i : IsSum(i, w, S) /\ SumFunctionOnSet(w, S) = i[S]
<1>1. IsSum(CHOOSE i : IsSum(i, w, S), w, S)
    BY SumExists
<1>2. QED
    BY <1>1, SumIs

LEMMA SumIsNumber ==
    ASSUME NEW i, NEW w, NEW S, IsFiniteSet(S), IsSum(i, w, S), \A x \in S : w[x] \in Int,
           NEW r \in SUBSET S
    PROVE  i[r] \in Int
<1>. DEFINE B == {s \in SUBSET S : i[s] \notin Int}
<1>1. SUFFICES ASSUME B # {} PROVE FALSE
    OBVIOUS
<1>2. \A s \in B : IsFiniteSet(s)
    BY FS_Subset
<1>3. PICK s \in B : \A x \in s : s \ {x} \notin B
    BY <1>1, <1>2, SmallestSet
<1>4. s \in SUBSET S /\ i[s] \notin Int /\ \A x \in s : i[s \ {x}] \in Int
    BY <1>3
<1>. HIDE DEF B
<1>5. s # {}
    <2>1. s = {} => i[s] = 0
        BY <1>4, SumFacts
    <2>2. QED
        BY <1>4, <2>1
<1>6. AnyOf(s) \in s /\ i[s] = w[AnyOf(s)] + i[s \ {AnyOf(s)}]
    BY <1>4, <1>5, SumFacts
<1>7. w[AnyOf(s)] \in Int
    BY <1>4, <1>6
<1>8. QED
    BY <1>4, <1>6, <1>7

\* The order in which the elements are taken does not matter.
LEMMA SumTakes ==
    ASSUME NEW i, NEW w, NEW S, IsFiniteSet(S), IsSum(i, w, S), \A x \in S : w[x] \in Int,
           NEW r \in SUBSET S, NEW a \in r
    PROVE  i[r] = w[a] + i[r \ {a}]
<1>. DEFINE B == {s \in SUBSET S : \E p \in s : i[s] # w[p] + i[s \ {p}]}
<1>1. SUFFICES ASSUME B # {} PROVE FALSE
    OBVIOUS
<1>2. \A s \in B : IsFiniteSet(s)
    BY FS_Subset
<1>3. PICK s \in B : \A x \in s : s \ {x} \notin B
    BY <1>1, <1>2, SmallestSet
<1>4. s \in SUBSET S /\ \A x \in s, p \in s : p # x => i[s \ {x}] = w[p] + i[(s \ {x}) \ {p}]
    BY <1>3
<1>5. PICK p \in s : i[s] # w[p] + i[s \ {p}]
    BY <1>3
<1>. HIDE DEF B
<1>6. PICK x \in s : i[s] = w[x] + i[s \ {x}]
    BY <1>4, <1>5, SumFacts
<1>7. p # x /\ (s \ {x}) \ {p} = (s \ {p}) \ {x}
    BY <1>5, <1>6
<1>8. /\ i[s \ {x}] = w[p] + i[(s \ {x}) \ {p}]
      /\ i[s \ {p}] = w[x] + i[(s \ {x}) \ {p}]
    BY <1>4, <1>7
<1>9. w[x] \in Int /\ w[p] \in Int /\ i[(s \ {x}) \ {p}] \in Int
    BY <1>4, SumIsNumber
<1>10. i[s] = w[p] + i[s \ {p}]
    BY <1>6, <1>8, <1>9
<1>11. QED
    BY <1>5, <1>10

LEMMA SumEmpty ==
    ASSUME NEW w
    PROVE  SumFunctionOnSet(w, {}) = 0
BY SumUnfold, SumFacts, FS_EmptySet

LEMMA SumAdds ==
    ASSUME NEW w, NEW S, IsFiniteSet(S), NEW a, a \notin S, \A x \in S \cup {a} : w[x] \in Int
    PROVE  SumFunctionOnSet(w, S \cup {a}) = SumFunctionOnSet(w, S) + w[a]
<1>. DEFINE T == S \cup {a}
<1>1. IsFiniteSet(T) /\ T \ {a} = S
    BY FS_AddElement
<1>2. PICK i : IsSum(i, w, T) /\ SumFunctionOnSet(w, T) = i[T]
    BY <1>1, SumUnfold
<1>3. PICK j : IsSum(j, w, S) /\ SumFunctionOnSet(w, S) = j[S]
    BY SumUnfold
<1>4. i[S] = j[S]
    BY <1>2, <1>3, SumsAgree
<1>5. i[T] = w[a] + i[T \ {a}]
    BY <1>1, <1>2, SumTakes
<1>6. i[S] \in Int /\ w[a] \in Int
    BY <1>1, <1>2, SumIsNumber
<1>. HIDE DEF T
<1>7. w[a] + i[S] = i[S] + w[a]
    BY <1>6
<1>8. SumFunctionOnSet(w, T) = SumFunctionOnSet(w, S) + w[a]
    BY <1>1, <1>2, <1>3, <1>4, <1>5, <1>7
<1>9. QED
    BY <1>8 DEF T

LEMMA SumSame ==
    ASSUME NEW w, NEW v, NEW S, IsFiniteSet(S), \A x \in S : w[x] = v[x]
    PROVE  SumFunctionOnSet(w, S) = SumFunctionOnSet(v, S)
<1>1. PICK i : IsSum(i, w, S) /\ SumFunctionOnSet(w, S) = i[S]
    BY SumUnfold
<1>2. PICK j : IsSum(j, v, S) /\ SumFunctionOnSet(v, S) = j[S]
    BY SumUnfold
<1>3. \A s \in SUBSET S : s # {} => w[AnyOf(s)] = v[AnyOf(s)]
    BY DEF AnyOf
<1>4. IsSum(i, v, S)
    <2>1. i = [s \in SUBSET S |-> IF s = {} THEN 0 ELSE w[AnyOf(s)] + i[s \ {AnyOf(s)}]]
        BY <1>1 DEF IsSum
    <2>2. QED
        BY <1>3, <2>1 DEF IsSum
<1>5. QED
    BY <1>1, <1>2, <1>4, SumsAgree

LEMMA LeftAmount ==
    ASSUME NEW c \in Call, NEW phase \in Phases
    PROVE  Left(c, phase).dto.amount = c.dto.amount
BY DEF Left, NewCall, Empty

Paying == [r \in Requests |-> call[r].dto.amount]

\* Only the call that writes becomes an accepted one.
LEMMA NewlyDone ==
    ASSUME TypeInv, [Next]_vars, NEW r \in Requests, call[r].phase # "done",
           call'[r].phase = "done"
    PROVE  Create(r) \/ Update(r) \/ Pay(r) \/ Delete(r)
<1>1. call[r] \in Call /\ \A c : call' = [call EXCEPT ![r] = c] => call'[r] = c
    BY DEF TypeInv, TypeOK
<1>2. CASE Load(r)
    <2> DEFINE row == payroll[call[r].target]
               refused == row = None \/ (call[r].kind = "pay"
                                         /\ RefusesPayment(row, call[r].dto.amount))
               next == IF call[r].kind = "update" /\ NamesKey(call[r].dto)
                       THEN "checked" ELSE "ready"
               c == [call[r] EXCEPT !.phase = next, !.row = row]
    <2>1. call'[r] = IF refused THEN Left(call[r], "refused") ELSE c
        BY <1>1, <1>2 DEF Load
    <2>2. next # "done" /\ Left(call[r], "refused").phase = "refused"
        BY <1>1, LeftFacts DEF Phases
    <2> HIDE DEF next, row, refused
    <2>3. c.phase = next
        BY <1>1 DEF Call
    <2>4. QED
        BY <2>1, <2>2, <2>3
<1>3. CASE CheckUnique(r)
    <2> DEFINE phase == IF Taken(call[r].target, IntendedEmployee(r), IntendedMonth(r))
                        THEN "refused" ELSE "ready"
               c == [call[r] EXCEPT !.phase = phase]
    <2>1. call'[r] = c /\ phase # "done"
        BY <1>1, <1>3 DEF CheckUnique, Become
    <2> HIDE DEF phase
    <2>2. QED
        BY <1>1, <2>1 DEF Call
<1>4. CASE StartCreate(r) \/ StartUpdate(r) \/ StartPay(r) \/ StartDelete(r)
    <2>1. \E kind, target, dto : \E phase \in {"started", "checked"} :
             call' = [call EXCEPT ![r] = NewCall(kind, target, dto, phase)]
        BY <1>4 DEF StartCreate, StartUpdate, StartPay, StartDelete, Start
    <2>2. QED
        BY <1>1, <2>1 DEF NewCall
<1>5. CASE Fail(r)
    BY <1>1, <1>5, LeftFacts DEF Fail, Phases
<1>6. ASSUME NEW q \in Requests, q # r,
             \/ StartCreate(q) \/ StartUpdate(q) \/ StartPay(q) \/ StartDelete(q)
             \/ Load(q) \/ CheckUnique(q) \/ Fail(q)
             \/ Create(q) \/ Update(q) \/ Pay(q) \/ Delete(q)
      PROVE  call'[r] = call[r]
    BY <1>6 DEF TypeInv, TypeOK, StartCreate, StartUpdate, StartPay, StartDelete,
                Start, Load, CheckUnique, Become, Fail, Create, Update, Pay, Delete, Write
<1>7. QED
    BY <1>2, <1>3, <1>4, <1>5, <1>6 DEF Next, vars

LEMMA NewPayment ==
    ASSUME TypeInv, [Next]_vars, NEW r \in Requests, call[r].phase # "done",
           call'[r].phase = "done", call'[r].kind = "pay"
    PROVE  Pay(r)
<1>1. CASE Create(r) \/ Update(r) \/ Delete(r)
    <2>1. /\ call[r] \in Call /\ call'[r] = Left(call[r], "done")
          /\ call[r].kind # "pay"
        BY <1>1 DEF Create, Update, Delete, Write, TypeInv, TypeOK
    <2>2. QED
        BY <2>1, LeftFacts DEF Phases
<1>2. QED
    BY <1>1, NewlyDone

\* The accepted payments are finite in number, and were of rows that were there.
PaymentsSound ==
    /\ \A p \in Requests : IsFiniteSet(Payments(p))
    /\ \A r \in Requests :
          call[r].phase = "done" /\ call[r].kind = "pay" =>
              call[r].target \in Requests /\ call[call[r].target].phase = "done"

TotalInv == LedgerInv /\ PaymentsSound /\ PaidIsSumOfPayments

\* The payments of p as they were: so is their total.
LEMMA TotalKept ==
    ASSUME TypeInv, [Next]_vars, NEW p \in Requests, IsFiniteSet(Payments(p)),
           Payments(p)' = Payments(p)
    PROVE  AcceptedTotal(p)' = AcceptedTotal(p)
<1>1. \A r \in Payments(p) : Paying'[r] = Paying[r]
    BY DoneStays DEF Paying, Payments
<1>2. SumFunctionOnSet(Paying', Payments(p)) = SumFunctionOnSet(Paying, Payments(p))
    BY <1>1, SumSame
<1>3. QED
    BY <1>2 DEF AcceptedTotal, Paying

\* And with one more of them.
LEMMA TotalAdds ==
    ASSUME TypeInv, TypeInv', [Next]_vars, NEW p \in Requests, IsFiniteSet(Payments(p)),
           NEW r \in Requests, r \notin Payments(p), Payments(p)' = Payments(p) \cup {r}
    PROVE  AcceptedTotal(p)' = AcceptedTotal(p) + call'[r].dto.amount
<1>1. \A q \in Payments(p) : Paying'[q] = Paying[q]
    BY DoneStays DEF Paying, Payments
<1>2. \A q \in Payments(p) \cup {r} : Paying'[q] \in Int
    <2>1. \A q \in Requests : call'[q].dto \in Dto
        BY DEF TypeInv, TypeOK, Call
    <2>2. Payments(p) \subseteq Requests
        BY DEF Payments
    <2>3. QED
        BY <2>1, <2>2, DtoFacts DEF Paying
<1>3. SumFunctionOnSet(Paying', Payments(p)) = SumFunctionOnSet(Paying, Payments(p))
    BY <1>1, SumSame
<1>4. SumFunctionOnSet(Paying', Payments(p) \cup {r})
          = SumFunctionOnSet(Paying', Payments(p)) + Paying'[r]
    BY <1>2, SumAdds
<1>5. AcceptedTotal(p)' = SumFunctionOnSet(Paying', Payments(p) \cup {r})
    BY DEF AcceptedTotal, Paying
<1>6. AcceptedTotal(p) = SumFunctionOnSet(Paying, Payments(p))
    BY DEF AcceptedTotal, Paying
<1>7. Paying'[r] = call'[r].dto.amount
    BY DEF Paying
<1>8. QED
    BY <1>3, <1>4, <1>5, <1>6, <1>7

\* A payment that was accepted stays so, and its row's creation too.
LEMMA PaymentsStay ==
    ASSUME TypeInv, PaymentsSound, [Next]_vars, NEW r \in Requests,
           call[r].phase = "done", call[r].kind = "pay"
    PROVE  /\ call'[r].target \in Requests
           /\ call'[call'[r].target].phase = "done"
<1>1. PICK t \in Requests : t = call[r].target /\ call[t].phase = "done"
    BY DEF PaymentsSound
<1>2. call'[r] = call[r] /\ call'[t] = call[t]
    BY <1>1, DoneStays
<1>3. QED
    BY <1>1, <1>2

\* A row that is new has no payments and nothing paid; one that is written by
\* anything but a payment keeps its paid amount.
LEMMA PaidUntouched ==
    ASSUME TypeInv, PaymentsSound, [Next]_vars, ~\E w \in Requests : Pay(w),
           NEW p \in Requests, payroll'[p] # None
    PROVE  \/ payroll[p] # None /\ payroll'[p].paid = payroll[p].paid
           \/ Payments(p) = {} /\ payroll'[p].paid = 0
<1>1. CASE payroll' = payroll
    BY <1>1
<1>2. ASSUME NEW w \in Requests, Create(w)
      PROVE  \/ payroll'[p] = payroll[p]
             \/ Payments(p) = {} /\ payroll'[p].paid = 0
    <2>1. /\ call[w].phase = "ready" /\ call[w].target = w
          /\ CreatedRow(w).paid = 0 /\ Write(w, CreatedRow(w))
        BY <1>2, CreateFacts
    <2>2. payroll'[w] = CreatedRow(w) /\ (p # w => payroll'[p] = payroll[p])
        BY <2>1 DEF Write, TypeInv, TypeOK
    <2>3. Payments(w) = {}
        BY <2>1 DEF Payments, PaymentsSound
    <2>4. QED
        BY <2>1, <2>2, <2>3
<1>3. ASSUME NEW w \in Requests, Update(w)
      PROVE  payroll[p] # None /\ payroll'[p].paid = payroll[p].paid
    <2>1. PICK t : /\ t = call[w].target /\ payroll[t] # None
                   /\ UpdatedRow(w).paid = payroll[t].paid /\ Write(w, UpdatedRow(w))
        BY <1>3, UpdateFacts
    <2>2. payroll' = [payroll EXCEPT ![t] = UpdatedRow(w)]
        BY <2>1 DEF Write
    <2>3. payroll'[p] = IF p = t THEN UpdatedRow(w) ELSE payroll[p]
        BY <2>2 DEF TypeInv, TypeOK
    <2>4. QED
        BY <2>1, <2>3
<1>4. ASSUME NEW w \in Requests, Delete(w)
      PROVE  payroll'[p] = payroll[p]
    BY <1>4 DEF Delete, TypeInv, TypeOK
<1>5. QED
    BY <1>1, <1>2, <1>3, <1>4, StepEffect

\* A step that records no payment.
LEMMA TotalOther ==
    ASSUME TotalInv, [Next]_vars, ~\E w \in Requests : Pay(w)
    PROVE  PaymentsSound' /\ PaidIsSumOfPayments'
<1>1. TypeInv /\ PaymentsSound /\ PaidIsSumOfPayments
    BY DEF TotalInv, LedgerInv
<1>2. \A r \in Requests : call'[r].phase = "done" /\ call'[r].kind = "pay" =>
                             call[r].phase = "done" /\ call'[r] = call[r]
    BY <1>1, NewPayment, DoneStays
<1>3. ASSUME NEW p \in Requests
      PROVE  Payments(p)' = Payments(p)
    BY <1>1, <1>2, DoneStays DEF Payments
<1>4. \A p \in Requests : AcceptedTotal(p)' = AcceptedTotal(p)
    BY <1>1, <1>3, TotalKept DEF PaymentsSound
<1>5. PaymentsSound'
    <2>1. ASSUME NEW r \in Requests, call'[r].phase = "done", call'[r].kind = "pay"
          PROVE  call'[r].target \in Requests /\ call'[call'[r].target].phase = "done"
        BY <1>1, <1>2, <2>1, PaymentsStay
    <2>2. \A p \in Requests : IsFiniteSet(Payments(p)')
        BY <1>1, <1>3 DEF PaymentsSound
    <2>3. QED
        BY <2>1, <2>2 DEF PaymentsSound
<1>6. ASSUME NEW p \in Requests, payroll'[p] # None
      PROVE  payroll'[p].paid = AcceptedTotal(p)'
    <2>1. CASE payroll[p] # None /\ payroll'[p].paid = payroll[p].paid
        <3>1. payroll[p].paid = AcceptedTotal(p)
            BY <1>1, <2>1 DEF PaidIsSumOfPayments, Rows
        <3>2. QED
            BY <1>4, <2>1, <3>1
    <2>2. CASE Payments(p) = {} /\ payroll'[p].paid = 0
        <3>1. AcceptedTotal(p) = 0
            BY <2>2, SumEmpty DEF AcceptedTotal
        <3>2. QED
            BY <1>4, <2>2, <3>1
    <2>3. QED
        BY <1>1, <1>6, <2>1, <2>2, PaidUntouched
<1>7. QED
    BY <1>5, <1>6 DEF PaidIsSumOfPayments, Rows

\* A payment: what it writes is what stood, which it had loaded, and its amount.
LEMMA TotalPay ==
    ASSUME {"pay"} \in Apart, TotalInv, [Next]_vars, TypeInv', NEW w \in Requests, Pay(w)
    PROVE  PaymentsSound' /\ PaidIsSumOfPayments'
<1>1. TypeInv /\ PaymentsSound /\ PaidIsSumOfPayments /\ PayFits(w)
    BY DEF TotalInv, LedgerInv
<1>2. PICK t \in Requests : t = call[w].target /\ call[t].phase = "done"
    BY <1>1, PayFacts DEF TypeInv, CallsSound, SoundCall, InFlightPhases
<1>3. /\ call[w].phase = "ready" /\ call[w].kind = "pay" /\ payroll[t] # None
      /\ PaidRow(w).paid = PaidTotal(w) /\ Write(w, PaidRow(w))
    BY <1>1, <1>2, PayFacts
<1>4. /\ call'[w].phase = "done" /\ call'[w].kind = "pay" /\ call'[w].target = t
      /\ \A r \in Requests : r # w => call'[r] = call[r]
      /\ payroll'[t] = PaidRow(w)
      /\ \A p \in Requests : p # t => payroll'[p] = payroll[p]
    BY <1>1, <1>2, <1>3, CallAfterWrite DEF Write, TypeInv, TypeOK
<1>5. call'[w].dto.amount = call[w].dto.amount
    <2>1. call[w] \in Call /\ call'[w] = Left(call[w], "done")
        BY <1>1, <1>3 DEF Write, TypeInv, TypeOK
    <2>2. QED
        BY <2>1, LeftAmount DEF Phases
<1>6. Payments(t)' = Payments(t) \cup {w} /\ w \notin Payments(t)
    BY <1>3, <1>4 DEF Payments
<1>7. \A p \in Requests : p # t => Payments(p)' = Payments(p)
    BY <1>2, <1>3, <1>4 DEF Payments
<1>8. PaymentsSound'
    <2>1. ASSUME NEW r \in Requests, call'[r].phase = "done", call'[r].kind = "pay"
          PROVE  call'[r].target \in Requests /\ call'[call'[r].target].phase = "done"
        <3>1. CASE r = w
            BY <1>1, <1>2, <1>4, <3>1, DoneStays
        <3>2. CASE r # w
            BY <1>1, <1>4, <2>1, <3>2, PaymentsStay
        <3>3. QED
            BY <3>1, <3>2
    <2>2. ASSUME NEW p \in Requests PROVE IsFiniteSet(Payments(p)')
        <3>1. IsFiniteSet(Payments(p))
            BY <1>1 DEF PaymentsSound
        <3>2. CASE p = t
            BY <1>6, <3>1, <3>2, FS_AddElement
        <3>3. CASE p # t
            BY <1>7, <3>1, <3>3
        <3>4. QED
            BY <3>2, <3>3
    <2>3. QED
        BY <2>1, <2>2 DEF PaymentsSound
<1>9. AcceptedTotal(t)' = AcceptedTotal(t) + call'[w].dto.amount
    BY <1>1, <1>6, TotalAdds DEF PaymentsSound
<1>10. payroll'[t].paid = payroll[t].paid + call[w].dto.amount
    BY <1>1, <1>2, <1>3, <1>4 DEF PayFits, PaidTotal
<1>11. payroll[t].paid = AcceptedTotal(t)
    BY <1>1, <1>3 DEF PaidIsSumOfPayments, Rows
<1>12. ASSUME NEW p \in Requests, payroll'[p] # None
       PROVE  payroll'[p].paid = AcceptedTotal(p)'
    <2>1. CASE p = t
        BY <1>5, <1>9, <1>10, <1>11, <2>1
    <2>2. CASE p # t
        <3>1. AcceptedTotal(p)' = AcceptedTotal(p)
            BY <1>1, <1>7, <2>2, TotalKept DEF PaymentsSound
        <3>2. payroll[p].paid = AcceptedTotal(p) /\ payroll'[p] = payroll[p]
            BY <1>1, <1>4, <1>12, <2>2 DEF PaidIsSumOfPayments, Rows
        <3>3. QED
            BY <3>1, <3>2
    <2>3. QED
        BY <2>1, <2>2
<1>13. QED
    BY <1>8, <1>12 DEF PaidIsSumOfPayments, Rows

LEMMA TotalNext ==
    ASSUME {"pay"} \in Apart, TotalInv, [Next]_vars PROVE TotalInv'
<1>1. LedgerInv' /\ TypeInv'
    BY LedgerNext DEF TotalInv, LedgerInv
<1>2. PaymentsSound' /\ PaidIsSumOfPayments'
    BY <1>1, TotalOther, TotalPay
<1>3. QED
    BY <1>1, <1>2 DEF TotalInv

LEMMA TotalInit == Init => TotalInv
<1> SUFFICES ASSUME Init PROVE TotalInv
    OBVIOUS
<1>1. \A r \in Requests : call[r].phase = "idle" /\ payroll[r] = None
    BY DEF Init, NewCall
<1>2. \A p \in Requests : Payments(p) = {}
    BY <1>1 DEF Payments
<1>3. PaymentsSound
    BY <1>1, <1>2, FS_EmptySet DEF PaymentsSound
<1>4. PaidIsSumOfPayments
    BY <1>1 DEF PaidIsSumOfPayments, Rows
<1>5. QED
    BY <1>3, <1>4, LedgerInit DEF TotalInv

\* Where payments of one payroll do not overlap each other, whatever edits and
\* deletions overlap them and whatever payments of others, the paid amount of a
\* payroll is the sum of the payments that were accepted for it.
THEOREM PaidCorrect ==
    ASSUME {"pay"} \in Apart
    PROVE  Spec => []PaidIsSumOfPayments
<1>1. TotalInv /\ [Next]_vars => TotalInv'
    BY TotalNext
<1>2. TotalInv => PaidIsSumOfPayments
    BY DEF TotalInv
<1>3. QED
    BY <1>1, <1>2, TotalInit, PTL DEF Spec

(***************************************************************************)
(* A cancelled payroll is not paid, where no edit of it runs beside one.   *)
(***************************************************************************)

\* The row a payment is about to write to is not cancelled.
PaysLive(r) ==
    call[r].phase = "ready" /\ call[r].kind = "pay" /\ payroll[call[r].target] # None =>
        payroll[call[r].target].status # "cancelled"

VoidInv == TypeInv /\ Exclusive /\ \A r \in Requests : PaysLive(r)

\* A payment that loads its row is refused or ready.
LEMMA LoadLeaves ==
    ASSUME TypeInv, NEW r \in Requests, Load(r), InFlight(r)', call'[r].kind = "pay"
    PROVE  call'[r].phase = "ready"
<1> DEFINE row == payroll[call[r].target]
           refused == row = None \/ (call[r].kind = "pay"
                                     /\ RefusesPayment(row, call[r].dto.amount))
           next == IF call[r].kind = "update" /\ NamesKey(call[r].dto)
                   THEN "checked" ELSE "ready"
           c == [call[r] EXCEPT !.phase = next, !.row = row]
<1>1. /\ call[r] \in Call
      /\ call'[r] = IF refused THEN Left(call[r], "refused") ELSE c
    BY DEF TypeInv, TypeOK, Load
<1>2. ~refused
    <2>1. Left(call[r], "refused").phase = "refused"
        BY <1>1, LeftFacts DEF Phases
    <2> HIDE DEF refused, c
    <2>2. QED
        BY <1>1, <2>1 DEF InFlight, InFlightPhases
<1>3. call'[r] = c
    BY <1>1, <1>2
<1> HIDE DEF row, next
<1>4. c.kind = call[r].kind /\ c.phase = next
    BY <1>1 DEF Call
<1>5. QED
    BY <1>3, <1>4 DEF next

LEMMA LoadFacts ==
    ASSUME TypeInv, NEW r \in Requests, Load(r), call'[r].phase = "ready"
    PROVE  /\ call'[r].kind = call[r].kind /\ call'[r].target = call[r].target
           /\ call'[r].dto = call[r].dto /\ call'[r].row = payroll[call[r].target]
           /\ call[r].kind = "pay" =>
                  /\ ~RefusesPayment(payroll[call[r].target], call[r].dto.amount)
                  /\ payroll[call[r].target].status # "cancelled"
<1> DEFINE row == payroll[call[r].target]
           refused == row = None \/ (call[r].kind = "pay"
                                     /\ RefusesPayment(row, call[r].dto.amount))
           next == IF call[r].kind = "update" /\ NamesKey(call[r].dto)
                   THEN "checked" ELSE "ready"
           c == [call[r] EXCEPT !.phase = next, !.row = row]
<1>1. /\ call[r] \in Call
      /\ call'[r] = IF refused THEN Left(call[r], "refused") ELSE c
    BY DEF TypeInv, TypeOK, Load
<1>2. ~refused
    BY <1>1, LeftFacts DEF Phases
<1>3. call'[r] = c
    BY <1>1, <1>2
<1>4. call[r].kind = "pay" =>
          ~RefusesPayment(row, call[r].dto.amount) /\ row.status # "cancelled"
    BY <1>2 DEF RefusesPayment
<1> HIDE DEF row, next
<1>5. /\ c.kind = call[r].kind /\ c.target = call[r].target
      /\ c.dto = call[r].dto /\ c.row = row
    BY <1>1 DEF Call
<1>6. QED
    BY <1>3, <1>4, <1>5 DEF row

\* A payment in flight was so before the step, has just begun or has just loaded.
LEMMA PayingFacts ==
    ASSUME TypeInv, [Next]_vars, NEW r \in Requests, InFlight(r)', call'[r].kind = "pay"
    PROVE  \/ call'[r] = call[r]
           \/ StartPay(r)
           \/ Load(r)
<1>1. CASE UNCHANGED vars
    BY <1>1 DEF vars
<1>2. ASSUME NEW q \in Requests, q # r,
             \/ StartCreate(q) \/ StartUpdate(q) \/ StartPay(q) \/ StartDelete(q)
             \/ Load(q) \/ CheckUnique(q) \/ Fail(q)
             \/ Create(q) \/ Update(q) \/ Pay(q) \/ Delete(q)
      PROVE  call'[r] = call[r]
    BY <1>2 DEF TypeInv, TypeOK, StartCreate, StartUpdate, StartPay, StartDelete,
                Start, Load, CheckUnique, Become, Fail, Create, Update, Pay, Delete, Write
<1>3. CASE StartCreate(r) \/ StartUpdate(r) \/ StartDelete(r)
    <2>1. \E kind \in {"create", "update", "delete"} : \E target, dto, phase :
             call' = [call EXCEPT ![r] = NewCall(kind, target, dto, phase)]
        BY <1>3 DEF StartCreate, StartUpdate, StartDelete, Start
    <2>2. call'[r].kind \in {"create", "update", "delete"}
        BY <2>1 DEF NewCall, TypeInv, TypeOK
    <2>3. QED
        BY <2>2
<1>4. CASE Fail(r) \/ Create(r) \/ Update(r) \/ Pay(r) \/ Delete(r)
    <2>1. call[r] \in Call
          /\ \E phase \in {"done", "refused"} : call' = [call EXCEPT ![r] = Left(call[r], phase)]
        BY <1>4 DEF Create, Update, Pay, Delete, Write, Fail, TypeInv, TypeOK
    <2>2. PICK phase \in {"done", "refused"} :
             call' = [call EXCEPT ![r] = Left(call[r], phase)]
        BY <2>1
    <2>3. Left(call[r], phase).phase = phase
        BY <2>1, LeftFacts DEF Phases
    <2>4. call'[r].phase = phase
        BY <2>2, <2>3 DEF TypeInv, TypeOK
    <2>5. QED
        BY <2>4 DEF InFlight, InFlightPhases
<1>5. CASE CheckUnique(r)
    <2> DEFINE phase == IF Taken(call[r].target, IntendedEmployee(r), IntendedMonth(r))
                        THEN "refused" ELSE "ready"
               c == [call[r] EXCEPT !.phase = phase]
    <2>1. call[r] \in Call /\ call'[r] = c /\ call[r].kind \in {"create", "update"}
        BY <1>5 DEF TypeInv, TypeOK, CallsSound, SoundCall, CheckUnique, Become
    <2> HIDE DEF phase
    <2>2. c.kind = call[r].kind
        BY <2>1 DEF Call
    <2>3. QED
        BY <2>1, <2>2
<1>6. QED
    BY <1>1, <1>2, <1>3, <1>4, <1>5 DEF Next

LEMMA ReadyFacts ==
    ASSUME TypeInv, [Next]_vars, NEW r \in Requests,
           call'[r].phase = "ready", call'[r].kind = "pay"
    PROVE  \/ call'[r] = call[r]
           \/ Load(r)
<1>1. CASE StartPay(r)
    <2>1. \E target, dto : call' = [call EXCEPT ![r] = NewCall("pay", target, dto, "started")]
        BY <1>1 DEF StartPay, Start
    <2>2. QED
        BY <2>1 DEF NewCall, TypeInv, TypeOK
<1>2. QED
    BY <1>1, PayingFacts DEF InFlight, InFlightPhases

\* What a step other than an edit does to the status of a row.
LEMMA StatusFacts ==
    ASSUME TypeInv, [Next]_vars, NEW p \in Requests,
           payroll[p] # None, payroll'[p] # None
    PROVE  \/ payroll'[p] = payroll[p]
           \/ \E w \in Requests : Update(w) /\ call[w].target = p
           \/ /\ \E w \in Requests : Pay(w) /\ call[w].target = p
              /\ payroll'[p].status # "cancelled"
<1>1. ASSUME NEW w \in Requests, Create(w) PROVE payroll'[p] = payroll[p]
    <2>1. call[w].phase = "ready" /\ call[w].target = w /\ Write(w, CreatedRow(w))
        BY <1>1, CreateFacts
    <2>2. payroll[w] = None
        BY <2>1 DEF TypeInv, CallsSound, SoundCall
    <2>3. QED
        BY <2>1, <2>2 DEF Write, TypeInv, TypeOK
<1>2. ASSUME NEW w \in Requests, Pay(w)
      PROVE  \/ payroll'[p] = payroll[p]
             \/ call[w].target = p /\ payroll'[p].status # "cancelled"
    <2> DEFINE t == call[w].target
               status == IF PaidTotal(w) >= call[w].row.net THEN "paid" ELSE "partially_paid"
    <2>1. payroll[t] \in Row /\ Write(w, PaidRow(w))
        BY <1>2, PayFacts
    <2>2. /\ PaidRow(w) = [payroll[t] EXCEPT !.paid = PaidTotal(w), !.status = status]
          /\ status # "cancelled"
        BY DEF PaidRow, PaidUp
    <2> HIDE DEF status
    <2>3. PaidRow(w).status = status
        BY <2>1, <2>2 DEF Row
    <2>4. QED
        BY <2>1, <2>2, <2>3 DEF Write, TypeInv, TypeOK
<1>3. ASSUME NEW w \in Requests, Delete(w) PROVE payroll'[p] = payroll[p]
    BY <1>3 DEF Delete, TypeInv, TypeOK
<1>4. ASSUME NEW w \in Requests, Update(w)
      PROVE  payroll'[p] = payroll[p] \/ call[w].target = p
    BY <1>4, UpdateFacts DEF Write, TypeInv, TypeOK
<1>5. QED
    BY <1>1, <1>2, <1>3, <1>4, StepEffect

LEMMA VoidNext ==
    ASSUME {"pay", "update"} \in Apart, VoidInv, [Next]_vars PROVE VoidInv'
<1>1. TypeInv' /\ Exclusive'
    BY TypeInvNext, ExclusiveStep DEF VoidInv
<1>2. ASSUME NEW r \in Requests,
             call'[r].phase = "ready", call'[r].kind = "pay", payroll'[call'[r].target] # None
      PROVE  payroll'[call'[r].target].status # "cancelled"
    <2>1. CASE Load(r)
        <3>1. call'[r].target = call[r].target /\ call'[r].kind = call[r].kind
              /\ payroll' = payroll
            BY <1>2, <2>1, LoadFacts DEF VoidInv, Load
        <3>2. QED
            BY <1>2, <2>1, <3>1, LoadFacts DEF VoidInv
    <2>2. CASE call'[r] = call[r]
        <3>1. PICK t \in Requests : t = call[r].target
            BY <1>2, <2>2 DEF VoidInv, TypeInv, CallsSound, SoundCall, InFlightPhases
        <3>2. ~\E w \in Requests : Update(w) /\ call[w].target = t
            <4>1. SUFFICES ASSUME NEW w \in Requests, Update(w), call[w].target = t PROVE FALSE
                OBVIOUS
            <4>2. /\ InFlight(w) /\ InFlight(r) /\ w # r
                  /\ {call[r].kind, call[w].kind} = {"pay", "update"}
                BY <1>2, <2>2, <3>1, <4>1, UpdateFacts DEF VoidInv, InFlight, InFlightPhases
            <4>3. QED
                BY <3>1, <4>1, <4>2 DEF VoidInv, Exclusive
        <3>3. CASE payroll[t] # None
            BY <1>2, <2>2, <3>1, <3>2, <3>3, StatusFacts DEF VoidInv, PaysLive
        <3>4. CASE payroll[t] = None
            <4>1. call[t].phase = "done"
                BY <1>2, <2>2, <3>1 DEF VoidInv, TypeInv, CallsSound, SoundCall, InFlightPhases
            <4>2. payroll'[t] = payroll[t]
                <5>1. ASSUME NEW w \in Requests, Create(w) PROVE payroll'[t] = payroll[t]
                    BY <4>1, <5>1, CreateFacts DEF VoidInv, TypeInv, TypeOK, Write
                <5>2. ASSUME NEW w \in Requests, Pay(w) PROVE payroll'[t] = payroll[t]
                    BY <3>4, <5>2, PayFacts DEF VoidInv, TypeInv, TypeOK, Write
                <5>3. ASSUME NEW w \in Requests, Delete(w) PROVE payroll'[t] = payroll[t]
                    BY <3>4, <5>3 DEF VoidInv, TypeInv, TypeOK, Delete
                <5>4. ASSUME NEW w \in Requests, Update(w) PROVE payroll'[t] = payroll[t]
                    BY <3>2, <5>4, UpdateFacts DEF VoidInv, TypeInv, TypeOK, Write
                <5>5. QED
                    BY <5>1, <5>2, <5>3, <5>4, StepEffect DEF VoidInv
            <4>3. QED
                BY <1>2, <2>2, <3>1, <3>4, <4>2
        <3>5. QED
            BY <3>3, <3>4
    <2>3. QED
        BY <1>2, <2>1, <2>2, ReadyFacts DEF VoidInv
<1>3. \A r \in Requests : PaysLive(r)'
    BY <1>2 DEF PaysLive
<1>4. QED
    BY <1>1, <1>3 DEF VoidInv

LEMMA VoidInit == Init => VoidInv
<1> SUFFICES ASSUME Init PROVE VoidInv
    OBVIOUS
<1>1. TypeInv /\ \A r \in Requests : call[r].phase = "idle"
    BY TypeInvInit DEF Init, NewCall
<1>2. QED
    BY <1>1 DEF VoidInv, Exclusive, InFlight, InFlightPhases, PaysLive

LEMMA VoidStep ==
    ASSUME VoidInv, [Next]_vars, NEW p \in Requests,
           payroll[p] # None, payroll'[p] # None, payroll[p].status = "cancelled"
    PROVE  payroll'[p].paid = payroll[p].paid
<1>1. ASSUME NEW w \in Requests, Update(w) PROVE payroll'[p].paid = payroll[p].paid
    BY <1>1, UpdateFacts DEF VoidInv, Write, TypeInv, TypeOK
<1>2. ASSUME NEW w \in Requests, Pay(w), call[w].target = p PROVE FALSE
    BY <1>2, PayFacts DEF VoidInv, PaysLive
<1>3. QED
    BY <1>1, <1>2, StatusFacts DEF VoidInv

\* Where no edit of a payroll runs beside a payment of it, a cancelled payroll
\* takes no payment, however payments overlap each other.
THEOREM CancelledCorrect ==
    ASSUME {"pay", "update"} \in Apart
    PROVE  Spec => CancelledIsNotPaid
<1>1. VoidInv /\ [Next]_vars => VoidInv'
    BY VoidNext
<1>2. VoidInv /\ [Next]_vars =>
          [\A p \in Requests :
              payroll[p] # None /\ payroll'[p] # None /\ payroll[p].status = "cancelled" =>
                  payroll'[p].paid = payroll[p].paid]_payroll
    BY VoidStep
<1>3. QED
    BY <1>1, <1>2, VoidInit, PTL DEF Spec, CancelledIsNotPaid

(***************************************************************************)
(* The calls implement PayrollLedger, where payments of one payroll do not *)
(* overlap each other.                                                     *)
(***************************************************************************)

\* A payment is of an amount the office may pay, fits what it loaded, and that is
\* what the row still says but for an edit that ran beside it.
PayStands(r) ==
    /\ InFlight(r) /\ call[r].kind = "pay" => call[r].dto.amount \in Amounts
    /\ call[r].phase = "ready" /\ call[r].kind = "pay" =>
           LET current == payroll[call[r].target]
           IN  /\ ~RefusesPayment(call[r].row, call[r].dto.amount)
               /\ current # None =>
                      \/ current = call[r].row
                      \/ {"pay", "update"} \notin Apart /\ Edited(call[r].target)

KeepsInv == LedgerInv /\ \A r \in Requests : PayStands(r)

\* What a step does to a row somebody is about to pay.
LEMMA StandsWrite ==
    ASSUME {"pay"} \in Apart, LedgerInv, [Next]_vars,
           NEW r \in Requests, call[r].phase = "ready", call[r].kind = "pay",
           call'[r] = call[r], NEW t \in Requests, t = call[r].target
    PROVE  \/ payroll'[t] \in {payroll[t], None}
           \/ {"pay", "update"} \notin Apart /\ Edited(t)' /\ payroll[t] # None
<1>1. TypeInv /\ Exclusive /\ InFlight(r) /\ call[t].phase = "done"
    BY DEF LedgerInv, InFlight, InFlightPhases, TypeInv, CallsSound, SoundCall
<1>2. ASSUME NEW w \in Requests, Create(w) PROVE payroll'[t] = payroll[t]
    BY <1>1, <1>2, CreateFacts DEF TypeInv, TypeOK, Write
<1>3. ASSUME NEW w \in Requests, Pay(w) PROVE payroll'[t] = payroll[t]
    <2>1. /\ call[w].phase = "ready" /\ call[w].kind = "pay" /\ InFlight(w)
          /\ Write(w, PaidRow(w)) /\ {"pay", "pay"} = {"pay"}
        BY <1>1, <1>3, PayFacts DEF InFlight, InFlightPhases
    <2>2. w # r
        <3>1. call'[w].phase = "done"
            BY <1>1, <2>1, CallAfterWrite DEF Write
        <3>2. QED
            BY <2>1, <3>1
    <2>3. call[w].target # t
        BY <1>1, <2>1, <2>2 DEF Exclusive
    <2>4. QED
        BY <1>1, <2>1, <2>3 DEF TypeInv, TypeOK, Write
<1>4. ASSUME NEW w \in Requests, Delete(w) PROVE payroll'[t] \in {payroll[t], None}
    BY <1>1, <1>4 DEF TypeInv, TypeOK, Delete
<1>5. ASSUME NEW w \in Requests, Update(w)
      PROVE  \/ payroll'[t] = payroll[t]
             \/ {"pay", "update"} \notin Apart /\ Edited(t)' /\ payroll[t] # None
    <2>1. /\ call[w].phase = "ready" /\ call[w].kind = "update" /\ InFlight(w) /\ w # r
          /\ payroll[call[w].target] # None /\ Write(w, UpdatedRow(w))
        BY <1>1, <1>5, UpdateFacts DEF InFlight, InFlightPhases
    <2>2. CASE call[w].target # t
        BY <1>1, <2>1, <2>2 DEF TypeInv, TypeOK, Write
    <2>3. CASE call[w].target = t
        <3>1. {call[r].kind, call[w].kind} \notin Apart
            BY <1>1, <2>1, <2>3 DEF Exclusive
        <3>2. call'[w].phase = "done" /\ call'[w].kind = "update" /\ call'[w].target = t
            BY <1>1, <2>1, <2>3, CallAfterWrite DEF Write
        <3>3. QED
            BY <2>1, <2>3, <3>1, <3>2 DEF Edited
    <2>4. QED
        BY <2>2, <2>3
<1>6. QED
    BY <1>1, <1>2, <1>3, <1>4, <1>5, StepEffect

LEMMA StandsNext ==
    ASSUME {"pay"} \in Apart, KeepsInv, [Next]_vars, NEW r \in Requests
    PROVE  PayStands(r)'
<1>1. LedgerInv /\ TypeInv /\ PayStands(r)
    BY DEF KeepsInv, LedgerInv
<1>2. ASSUME InFlight(r)', call'[r].kind = "pay"
      PROVE  call'[r].dto.amount \in Amounts
    <2>1. CASE call'[r] = call[r]
        BY <1>1, <1>2, <2>1 DEF PayStands, InFlight
    <2>2. CASE StartPay(r)
        <3>1. PICK p \in Rows, a \in Amounts :
                 Start(r, "pay", p, [Empty EXCEPT !.amount = a], "started")
            BY <2>2 DEF StartPay
        <3>2. call'[r] = NewCall("pay", p, [Empty EXCEPT !.amount = a], "started")
            BY <1>1, <3>1 DEF Start, TypeInv, TypeOK
        <3>3. QED
            BY <3>2 DEF NewCall, Empty
    <2>3. CASE Load(r)
        <3>1. InFlight(r) /\ call[r].phase = "started" /\ call[r] \in Call
            BY <1>1, <2>3 DEF Load, InFlight, InFlightPhases, TypeInv, TypeOK
        <3>2. call'[r].phase = "ready"
            BY <1>1, <1>2, <2>3, LoadLeaves
        <3>3. call[r].kind = "pay" /\ call'[r].dto = call[r].dto
            BY <1>1, <1>2, <2>3, <3>2, LoadFacts
        <3>4. QED
            BY <1>1, <3>1, <3>3 DEF PayStands
    <2>4. QED
        BY <1>1, <1>2, <2>1, <2>2, <2>3, PayingFacts
<1>3. ASSUME call'[r].phase = "ready", call'[r].kind = "pay"
      PROVE  /\ ~RefusesPayment(call'[r].row, call'[r].dto.amount)
             /\ payroll'[call'[r].target] # None =>
                    \/ payroll'[call'[r].target] = call'[r].row
                    \/ {"pay", "update"} \notin Apart /\ Edited(call[r].target)'
    <2>1. CASE Load(r)
        <3>1. payroll' = payroll /\ call[r].kind = "pay"
            BY <1>1, <1>3, <2>1, LoadFacts DEF Load
        <3>2. QED
            BY <1>1, <1>3, <2>1, <3>1, LoadFacts
    <2>2. CASE call'[r] = call[r]
        <3>1. PICK t \in Requests : t = call[r].target
            BY <1>1, <1>3, <2>2 DEF TypeInv, CallsSound, SoundCall, InFlightPhases
        <3>2. \/ payroll'[t] \in {payroll[t], None}
              \/ {"pay", "update"} \notin Apart /\ Edited(t)' /\ payroll[t] # None
            BY <1>1, <1>3, <2>2, <3>1, StandsWrite
        <3>3. /\ ~RefusesPayment(call[r].row, call[r].dto.amount)
              /\ payroll[t] # None =>
                     \/ payroll[t] = call[r].row
                     \/ {"pay", "update"} \notin Apart /\ Edited(t)
            BY <1>1, <1>3, <2>2, <3>1 DEF PayStands
        <3>4. Edited(t) => Edited(t)'
            BY <1>1, EditedStays
        <3>5. call'[r].target = t /\ call'[r].row = call[r].row /\ call'[r].dto = call[r].dto
            BY <2>2, <3>1
        <3>6. QED
            BY <3>2, <3>3, <3>4, <3>5
    <2>3. QED
        BY <1>1, <1>3, <2>1, <2>2, ReadyFacts
<1>4. QED
    BY <1>2, <1>3 DEF PayStands

LEMMA KeepsNext ==
    ASSUME {"pay"} \in Apart, KeepsInv, [Next]_vars PROVE KeepsInv'
<1>1. LedgerInv'
    BY LedgerNext DEF KeepsInv
<1>2. \A r \in Requests : PayStands(r)'
    BY StandsNext
<1>3. QED
    BY <1>1, <1>2 DEF KeepsInv

LEMMA KeepsInit == Init => KeepsInv
<1>1. Init => \A r \in Requests : PayStands(r)
    BY DEF Init, PayStands, InFlight, InFlightPhases, NewCall
<1>2. QED
    BY <1>1, LedgerInit DEF KeepsInv

\* The edited payrolls change by the edits that are accepted.
EditedRows == {p \in Requests : Edited(p)}

LEMMA EditedRowsKept ==
    ASSUME TypeInv, [Next]_vars, ~\E w \in Requests : Update(w)
    PROVE  EditedRows' = EditedRows
<1>1. ASSUME NEW r \in Requests, call'[r].phase = "done", call'[r].kind = "update"
      PROVE  call'[r] = call[r]
    <2>1. ASSUME call[r].phase # "done" PROVE FALSE
        <3>1. CASE Create(r) \/ Pay(r) \/ Delete(r)
            <4>1. /\ call[r] \in Call /\ call'[r] = Left(call[r], "done")
                  /\ call[r].kind # "update"
                BY <3>1 DEF Create, Pay, Delete, Write, TypeInv, TypeOK
            <4>2. QED
                BY <1>1, <4>1, LeftFacts DEF Phases
        <3>2. QED
            BY <1>1, <2>1, <3>1, NewlyDone
    <2>2. QED
        BY <2>1, DoneStays
<1>2. \A p \in Requests : Edited(p)' => Edited(p)
    BY <1>1 DEF Edited
<1>3. \A p \in Requests : Edited(p) => Edited(p)'
    BY EditedStays
<1>4. QED
    BY <1>2, <1>3 DEF EditedRows

LEMMA EditedRowsAdd ==
    ASSUME TypeInv, [Next]_vars, NEW w \in Requests, Update(w),
           NEW t \in Requests, t = call[w].target
    PROVE  EditedRows' = EditedRows \cup {t}
<1>1. /\ call'[w].phase = "done" /\ call'[w].kind = "update" /\ call'[w].target = t
      /\ \A r \in Requests : r # w => call'[r] = call[r]
      /\ call[w].phase = "ready"
    BY UpdateFacts, CallAfterWrite DEF Write
<1>2. \A p \in Requests : Edited(p)' <=> Edited(p) \/ p = t
    BY <1>1 DEF Edited
<1>3. QED
    BY <1>2 DEF EditedRows

\* A write leaves the other rows, and takes no other row's employee and month.
LEMMA WriteKeepsKeys ==
    ASSUME TypeInv, NEW w \in Requests, NEW new \in Row, Write(w, new),
           NEW t \in Requests, t = call[w].target
    PROVE  /\ payroll'[t] = new /\ new # None
           /\ payroll' = [payroll EXCEPT ![t] = new]
           /\ Ledger!KeyIsFree(t, new)
<1>1. payroll' = [payroll EXCEPT ![t] = new] /\ payroll'[t] = new
    BY DEF Write, TypeInv, TypeOK
<1>2. ~Taken(t, new.employee, new.month)
    BY DEF Write
<1>3. Ledger!KeyIsFree(t, new)
    BY <1>2 DEF Taken, Rows, Ledger!KeyIsFree
<1>4. QED
    BY <1>1, <1>3, NoneIsNoRow

\* It is enough that a step is one of the four of the abstract ledger on some row.
LEMMA LedgerMoves ==
    ASSUME NEW t \in Requests, NEW new, payroll'[t] = new,
           payroll' = [payroll EXCEPT ![t] = new],
           \/ Ledger!Open(t, new) \/ Ledger!Edit(t, new) \/ Ledger!Remove(t, new)
           \/ \E amount \in Amounts : Ledger!Receive(t, new, amount)
    PROVE  Ledger!Next
BY Zenon DEF Ledger!Next

LEMMA CreateOpens ==
    ASSUME KeepsInv, [Next]_vars, NEW w \in Requests, Create(w)
    PROVE  Ledger!Next
<1>1. TypeInv
    BY DEF KeepsInv, LedgerInv
<1>2. /\ call[w].phase = "ready" /\ call[w].target = w
      /\ CreatedRow(w) \in Row /\ CreatedRow(w).paid = 0 /\ Write(w, CreatedRow(w))
    BY <1>1, CreateFacts
<1>3. payroll[w] = None
    BY <1>1, <1>2 DEF TypeInv, CallsSound, SoundCall
<1>4. EditedRows' = EditedRows
    <2>1. ASSUME NEW q \in Requests, Update(q) PROVE FALSE
        <3>1. call'[q].phase = "done" /\ call[q].phase = "ready" /\ call[q].kind = "update"
            BY <1>1, <2>1, UpdateFacts, CallAfterWrite DEF Write
        <3>2. q # w => call'[q] = call[q]
            BY <1>1, <1>2, CallAfterWrite DEF Write
        <3>3. call[w].kind = "create"
            BY DEF Create
        <3>4. QED
            BY <3>1, <3>2, <3>3
    <2>2. QED
        BY <1>1, <2>1, EditedRowsKept
<1>5. /\ payroll'[w] = CreatedRow(w) /\ CreatedRow(w) # None
      /\ payroll' = [payroll EXCEPT ![w] = CreatedRow(w)]
      /\ Ledger!KeyIsFree(w, CreatedRow(w))
    BY <1>1, <1>2, WriteKeepsKeys
<1>6. Ledger!Open(w, CreatedRow(w))
    BY <1>2, <1>3, <1>4, <1>5 DEF Ledger!Open, EditedRows
<1>7. QED
    BY <1>5, <1>6, LedgerMoves

LEMMA UpdateEdits ==
    ASSUME KeepsInv, [Next]_vars, NEW w \in Requests, Update(w)
    PROVE  Ledger!Next
<1>1. TypeInv
    BY DEF KeepsInv, LedgerInv
<1>2. PICK t \in Requests : t = call[w].target
    BY <1>1, UpdateFacts DEF TypeInv, CallsSound, SoundCall, InFlightPhases
<1>3. /\ payroll[t] # None /\ UpdatedRow(w) \in Row
      /\ UpdatedRow(w).paid = payroll[t].paid /\ Write(w, UpdatedRow(w))
    BY <1>1, <1>2, UpdateFacts
<1>4. EditedRows' = EditedRows \cup {t}
    BY <1>1, <1>2, EditedRowsAdd
<1>5. /\ payroll'[t] = UpdatedRow(w) /\ UpdatedRow(w) # None
      /\ payroll' = [payroll EXCEPT ![t] = UpdatedRow(w)]
      /\ Ledger!KeyIsFree(t, UpdatedRow(w))
    BY <1>1, <1>2, <1>3, WriteKeepsKeys
<1>6. Ledger!Edit(t, UpdatedRow(w))
    BY <1>3, <1>4, <1>5 DEF Ledger!Edit, EditedRows
<1>7. QED
    BY <1>5, <1>6, LedgerMoves

LEMMA DeleteRemoves ==
    ASSUME KeepsInv, [Next]_vars, NEW w \in Requests, Delete(w)
    PROVE  Ledger!Next
<1>1. TypeInv
    BY DEF KeepsInv, LedgerInv
<1>2. PICK t \in Requests : t = call[w].target
    BY <1>1 DEF Delete, TypeInv, CallsSound, SoundCall, InFlightPhases
<1>3. /\ payroll[t] # None /\ payroll' = [payroll EXCEPT ![t] = None] /\ payroll'[t] = None
    BY <1>1, <1>2 DEF Delete, TypeInv, TypeOK
<1>4. EditedRows' = EditedRows
    <2>1. ASSUME NEW q \in Requests, Update(q) PROVE FALSE
        <3>1. payroll'[t] # None
            BY <1>1, <1>2, <1>3, <2>1, UpdateFacts, NoneIsNoRow DEF Write, TypeInv, TypeOK
        <3>2. QED
            BY <1>3, <3>1
    <2>2. QED
        BY <1>1, <2>1, EditedRowsKept
<1>5. Ledger!Remove(t, None)
    BY <1>3, <1>4 DEF Ledger!Remove, EditedRows
<1>6. QED
    BY <1>3, <1>5, LedgerMoves

\* A payment is received by the row as it stands.
LEMMA PayReceives ==
    ASSUME KeepsInv, [Next]_vars, NEW w \in Requests, Pay(w)
    PROVE  Ledger!Next
<1> DEFINE amount == call[w].dto.amount
           new == PaidRow(w)
           status == IF PaidTotal(w) >= call[w].row.net THEN "paid" ELSE "partially_paid"
<1>1. TypeInv /\ PayFits(w) /\ PayStands(w)
    BY DEF KeepsInv, LedgerInv
<1>2. PICK t \in Requests : t = call[w].target
    BY <1>1, PayFacts DEF TypeInv, CallsSound, SoundCall, InFlightPhases
<1>3. /\ call[w].phase = "ready" /\ call[w].kind = "pay" /\ InFlight(w)
      /\ payroll[t] # None /\ payroll[t] \in Row
      /\ new \in Row /\ new.paid = PaidTotal(w) /\ new.net = payroll[t].net
      /\ Write(w, new)
    BY <1>1, <1>2, PayFacts DEF InFlight, InFlightPhases
<1>4. EditedRows' = EditedRows
    <2>1. ASSUME NEW q \in Requests, Update(q) PROVE FALSE
        <3>1. call'[q].phase = "done" /\ call[q].phase = "ready" /\ call[q].kind = "update"
            BY <1>1, <2>1, UpdateFacts, CallAfterWrite DEF Write
        <3>2. q # w => call'[q] = call[q]
            BY <1>1, <1>3, CallAfterWrite DEF Write
        <3>3. QED
            BY <1>3, <3>1, <3>2
    <2>2. QED
        BY <1>1, <2>1, EditedRowsKept
<1>5. /\ payroll'[t] = new /\ new # None
      /\ payroll' = [payroll EXCEPT ![t] = new]
    BY <1>1, <1>2, <1>3, WriteKeepsKeys
<1>6. /\ amount \in Amounts
      /\ PaidTotal(w) = payroll[t].paid + amount
      /\ ~RefusesPayment(call[w].row, amount)
      /\ payroll[t] = call[w].row \/ ({"pay", "update"} \notin Apart /\ Edited(t))
    BY <1>1, <1>2, <1>3 DEF PayFits, PayStands, PaidTotal
<1>7. new = [payroll[t] EXCEPT !.paid = PaidTotal(w), !.status = status]
    BY <1>2 DEF PaidRow, PaidUp
<1>8. new.status = status /\ status \in {"paid", "partially_paid"}
    <2> HIDE DEF status, new
    <2>1. new.status = status
        BY <1>3, <1>7 DEF Row
    <2>2. status \in {"paid", "partially_paid"}
        BY DEF status
    <2>3. QED
        BY <2>1, <2>2
<1>9. new = [payroll[t] EXCEPT !.paid = @ + amount, !.status = new.status]
    <2> HIDE DEF status, new, amount
    <2>1. QED
        BY <1>6, <1>7, <1>8
<1>10. CASE payroll[t] = call[w].row
    <2>1. Ledger!Payable(payroll[t], amount)
        <3> HIDE DEF new, amount, status
        <3>1. payroll[t].net \in Int /\ payroll[t].paid \in Int
            BY <1>3 DEF Row
        <3>2. amount \in Int
            BY <1>6, PayrollAssumption
        <3>3. QED
            BY <1>6, <1>10, <3>1, <3>2 DEF RefusesPayment, Ledger!Payable
    <2>2. new.status = Ledger!Settled(new)
        <3> HIDE DEF new
        <3>1. QED
            BY <1>3, <1>8, <1>10 DEF Ledger!Settled
    <2> HIDE DEF new, amount, status
    <2>3. Ledger!Receive(t, new, amount)
        BY <1>3, <1>4, <1>5, <1>9, <2>1, <2>2 DEF Ledger!Receive, EditedRows
    <2>4. QED
        BY <1>5, <1>6, <2>3, LedgerMoves
<1>11. CASE {"pay", "update"} \notin Apart /\ Edited(t)
    <2> HIDE DEF new, amount, status
    <2>1. Ledger!Receive(t, new, amount)
        BY <1>3, <1>4, <1>5, <1>8, <1>9, <1>11 DEF Ledger!Receive, EditedRows
    <2>2. QED
        BY <1>5, <1>6, <2>1, LedgerMoves
<1>12. QED
    BY <1>6, <1>10, <1>11

LEMMA KeepsStep ==
    ASSUME KeepsInv, [Next]_vars
    PROVE  [Ledger!Next]_<<payroll, EditedRows>>
<1>1. CASE \E w \in Requests : Create(w) \/ Update(w) \/ Pay(w) \/ Delete(w)
    BY <1>1, CreateOpens, UpdateEdits, PayReceives, DeleteRemoves
<1>2. CASE ~\E w \in Requests : Create(w) \/ Update(w) \/ Pay(w) \/ Delete(w)
    <2>1. TypeInv
        BY DEF KeepsInv, LedgerInv
    <2>2. payroll' = payroll
        BY <1>2, <2>1, StepEffect
    <2>3. EditedRows' = EditedRows
        BY <1>2, <2>1, EditedRowsKept
    <2>4. QED
        BY <2>2, <2>3
<1>3. QED
    BY <1>1, <1>2

\* Where payments of one payroll do not overlap each other, the calls keep what
\* PayrollLedger promises: one payroll a month, and every step opens, edits, pays or
\* removes one, a payment by its amount, within what the row says when it lands or,
\* if edits may run beside it, on a row that was edited.
THEOREM LedgerImplemented ==
    ASSUME {"pay"} \in Apart
    PROVE  Spec => KeepsLedger
<1>1. Init => Ledger!Init
    BY DEF Init, Ledger!Init, Edited, NewCall
<1>2. KeepsInv /\ [Next]_vars => KeepsInv'
    BY KeepsNext
<1>3. KeepsInv /\ [Next]_vars => [Ledger!Next]_<<payroll, EditedRows>>
    BY KeepsStep
<1>4. QED
    BY <1>1, <1>2, <1>3, KeepsInit, PTL DEF Spec, KeepsLedger, Ledger!Spec, EditedRows

=============================================================================
