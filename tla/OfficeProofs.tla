----------------------------- MODULE OfficeProofs -----------------------------
(***************************************************************************)
(* Proofs about Reminders, composed with EmployeeLeave as in OfficeSpec,   *)
(* for any employees and leaves and any finite set of passes; about        *)
(* HttpCache for any resources, readers, tables and requests; and about    *)
(* the specification that joins the two, for any of both.                  *)
(***************************************************************************)
EXTENDS MCOffice, EmployeeLeaveProofs, FiniteSetTheorems

(***************************************************************************)
(* Reminders: the inductive invariant.                                     *)
(***************************************************************************)

\* A pass that deals with an employee found the day over, and one that is to remind of
\* the check-out found a check-in.
Sound(c) ==
    /\ c.phase \in {"day", "sent", "send"} => c.at \in Scheduled \cap over
    /\ c.phase \in {"sent", "send"} =>
           /\ c.title \in Titles
           /\ c.title = "noCheckout" => day[c.at] # "none"

PassesSound == \A p \in Passes : Sound(pass[p])

\* The reminders sent and those about to be sent; a pass decides to send only while
\* there is no notification.
SentOrSending ==
    \A e \in Employees, t \in Titles :
        reminded[e][t] + Cardinality(Sending(e, t)) <= Cardinality(Passes)

\* Whoever counts as reminded has a notification that says so.
RemindedKnown ==
    \A e \in Employees, t \in Titles : notices[e][t] = 0 => reminded[e][t] = 0

ReminderInv ==
    ReminderTypeOK /\ PassesSound /\ SentOrSending /\ RemindedKnown /\ NoticesJustified

(***************************************************************************)
(* Lemmas.                                                                 *)
(***************************************************************************)
LEMMA SendingFinite ==
    ASSUME NEW e, NEW t
    PROVE  /\ IsFiniteSet(Passes) /\ Cardinality(Passes) \in Nat
           /\ IsFiniteSet(Sending(e, t)) /\ Cardinality(Sending(e, t)) \in Nat
           /\ Cardinality(Sending(e, t)) <= Cardinality(Passes)
<1>1. IsFiniteSet(Passes) /\ Sending(e, t) \subseteq Passes
    BY ReminderAssumption DEF Sending
<1>2. QED
    BY <1>1, FS_Subset, FS_CardinalityType

\* With fewer passes about to send there is no more to come.
LEMMA FewerSending ==
    ASSUME NEW e, NEW t, Sending(e, t)' \subseteq Sending(e, t)
    PROVE  Cardinality(Sending(e, t)') <= Cardinality(Sending(e, t))
<1>1. IsFiniteSet(Sending(e, t))
    BY SendingFinite
<1>2. QED
    BY <1>1, FS_Subset

LEMMA ScheduledEmployees == Scheduled \subseteq Employees /\ "absent" \in Titles /\ "noCheckout" \in Titles
BY ReminderAssumption DEF Titles

LEMMA IdleIsPass == IdlePass \in Pass /\ Sound(IdlePass)
BY DEF IdlePass, Pass, PassPhases, Sound

LEMMA NextOneIsPass ==
    ASSUME ReminderTypeOK, NEW p \in Passes
    PROVE  /\ NextOne(p) \in Pass /\ Sound(NextOne(p))
           /\ NextOne(p).phase = "next" /\ NextOne(p).todo = pass[p].todo
<1>1. pass[p] \in Pass
    BY DEF ReminderTypeOK
<1>2. QED
    BY <1>1 DEF NextOne, IdlePass, Pass, PassPhases, Sound

(***************************************************************************)
(* The initial state.                                                      *)
(***************************************************************************)
LEMMA InitReminder == ReminderInit => ReminderInv
<1> SUFFICES ASSUME ReminderInit PROVE ReminderInv
    OBVIOUS
<1>1. ReminderTypeOK
    <2>1. over \subseteq Employees
        BY ReminderAssumption DEF ReminderInit
    <2>2. pass \in [Passes -> Pass]
        BY IdleIsPass DEF ReminderInit
    <2>3. failures \in 0 .. MaxFailures
        BY ReminderAssumption DEF ReminderInit
    <2>4. edits \in 0 .. MaxEdits
        BY ReminderAssumption DEF ReminderInit
    <2>5. {notices, reminded} \subseteq [Employees -> [Titles -> Nat]]
        BY DEF ReminderInit
    <2>6. QED
        BY <2>1, <2>2, <2>3, <2>4, <2>5 DEF ReminderInit, ReminderTypeOK
<1>2. PassesSound
    BY IdleIsPass DEF ReminderInit, PassesSound
<1>3. SentOrSending
    <2> SUFFICES ASSUME NEW e \in Employees, NEW t \in Titles
                 PROVE  reminded[e][t] + Cardinality(Sending(e, t)) <= Cardinality(Passes)
        BY DEF SentOrSending
    <2>1. reminded[e][t] = 0
        BY DEF ReminderInit
    <2>2. QED
        BY <2>1, SendingFinite
<1>4. NoticesJustified
    BY ScheduledEmployees DEF ReminderInit, NoticesJustified
<1>5. RemindedKnown
    BY DEF ReminderInit, RemindedKnown
<1>6. QED
    BY <1>1, <1>2, <1>3, <1>4, <1>5 DEF ReminderInv

(***************************************************************************)
(* The steps of a pass.                                                    *)
(***************************************************************************)

\* A pass moves on, to anything but sending.
LEMMA PassMoves ==
    ASSUME ReminderInv, NEW p \in Passes, NEW c \in Pass, Sound(c), c.phase # "send",
           pass' = [pass EXCEPT ![p] = c], over' = over, day' = day, notices' = notices,
           reminded' = reminded, edits' = edits, failures' \in 0 .. MaxFailures
    PROVE  ReminderInv'
<1>. USE DEF ReminderInv
<1>1. pass'[p] = c /\ \A q \in Passes \ {p} : pass'[q] = pass[q]
    BY DEF ReminderTypeOK
<1>2. ReminderTypeOK'
    BY DEF ReminderTypeOK
<1>3. PassesSound'
    <2>1. \A q \in Passes : pass'[q] \in {c, pass[q]}
        BY <1>1
    <2>2. QED
        BY <2>1 DEF PassesSound, Sound
<1>4. SentOrSending'
    <2> SUFFICES ASSUME NEW e \in Employees, NEW t \in Titles
                 PROVE  reminded[e][t] + Cardinality(Sending(e, t)') <= Cardinality(Passes)
        BY DEF SentOrSending
    <2>1. Sending(e, t)' \subseteq Sending(e, t)
        BY <1>1 DEF Sending
    <2>2. Cardinality(Sending(e, t)') <= Cardinality(Sending(e, t))
        BY <2>1, FewerSending
    <2>3. Cardinality(Sending(e, t)') \in Nat
        BY <2>1, SendingFinite, FS_Subset, FS_CardinalityType
    <2>4. reminded[e][t] \in Nat
        BY DEF ReminderTypeOK
    <2>5. reminded[e][t] + Cardinality(Sending(e, t)) <= Cardinality(Passes)
        BY DEF SentOrSending
    <2>6. QED
        BY <2>2, <2>3, <2>4, <2>5, SendingFinite
<1>5. NoticesJustified'
    BY DEF NoticesJustified
<1>6. RemindedKnown'
    BY DEF RemindedKnown
<1>7. QED
    BY <1>2, <1>3, <1>4, <1>5, <1>6

LEMMA StartPassKeeps ==
    ASSUME ReminderInv, NEW p \in Passes, StartPass(p)
    PROVE  ReminderInv'
<1>. DEFINE c == [IdlePass EXCEPT !.phase = "next", !.todo = {e \in Employees : AtWork(e)}]
<1>1. c \in Pass /\ Sound(c) /\ c.phase # "send"
    BY DEF IdlePass, Pass, PassPhases, Sound
<1>2. QED
    BY <1>1, PassMoves DEF StartPass, InPass, ReminderInv, ReminderTypeOK

LEMMA TakeEmployeeKeeps ==
    ASSUME ReminderInv, NEW p \in Passes, TakeEmployee(p)
    PROVE  ReminderInv'
<1>. DEFINE rest(e) == [NextOne(p) EXCEPT !.todo = @ \ {e}]
            taken(e) == [rest(e) EXCEPT !.phase = "day", !.at = e]
            c(e) == IF e \in Scheduled \cap over /\ ~OnLeave(e, Today) THEN taken(e) ELSE rest(e)
<1>1. PICK e \in pass[p].todo : InPass(p, "next", c(e)) /\ UNCHANGED <<notices, reminded>>
    BY DEF TakeEmployee
<1>2. pass[p] \in Pass /\ e \in Employees
    BY DEF ReminderInv, ReminderTypeOK, Pass
<1>3. rest(e) \in Pass /\ Sound(rest(e)) /\ rest(e).phase = "next"
    BY <1>2 DEF NextOne, IdlePass, Pass, PassPhases, Sound
<1>4. taken(e) \in Pass /\ taken(e).phase = "day" /\ taken(e).at = e
    BY <1>2 DEF NextOne, IdlePass, Pass, PassPhases
<1>5. e \in Scheduled \cap over => Sound(taken(e))
    BY <1>4 DEF Sound
<1>6. c(e) \in Pass /\ Sound(c(e)) /\ c(e).phase # "send"
    BY <1>3, <1>4, <1>5
<1>7. QED
    BY <1>1, <1>6, PassMoves DEF InPass, ReminderInv, ReminderTypeOK

LEMMA ReadDayKeeps ==
    ASSUME ReminderInv, NEW p \in Passes, ReadDay(p)
    PROVE  ReminderInv'
<1>. DEFINE due(t) == [pass[p] EXCEPT !.phase = "sent", !.title = t]
<1>1. pass[p] \in Pass /\ Sound(pass[p]) /\ pass[p].phase = "day"
    BY DEF ReminderInv, ReminderTypeOK, PassesSound, ReadDay, InPass
<1>2. ASSUME NEW t \in Titles, t = "noCheckout" => day[pass[p].at] # "none"
      PROVE  due(t) \in Pass /\ Sound(due(t)) /\ due(t).phase # "send"
    BY <1>1, <1>2 DEF Pass, PassPhases, Sound
<1>3. CASE day[pass[p].at] = "none"
    <2>1. pass' = [pass EXCEPT ![p] = due("absent")]
        BY <1>3 DEF ReadDay, InPass
    <2>2. due("absent") \in Pass /\ Sound(due("absent")) /\ due("absent").phase # "send"
        BY <1>2, ScheduledEmployees
    <2>3. QED
        BY <2>1, <2>2, PassMoves DEF ReadDay, InPass, ReminderInv, ReminderTypeOK
<1>4. CASE day[pass[p].at] = "in"
    <2>1. pass' = [pass EXCEPT ![p] = due("noCheckout")]
        BY <1>4 DEF ReadDay, InPass
    <2>2. due("noCheckout") \in Pass /\ Sound(due("noCheckout")) /\ due("noCheckout").phase # "send"
        BY <1>2, <1>4, ScheduledEmployees
    <2>3. QED
        BY <2>1, <2>2, PassMoves DEF ReadDay, InPass, ReminderInv, ReminderTypeOK
<1>5. CASE day[pass[p].at] # "none" /\ day[pass[p].at] # "in"
    <2>1. pass' = [pass EXCEPT ![p] = NextOne(p)]
        BY <1>5 DEF ReadDay, InPass
    <2>2. QED
        BY <2>1, NextOneIsPass, PassMoves DEF ReadDay, InPass, ReminderInv, ReminderTypeOK
<1>6. QED
    BY <1>3, <1>4, <1>5

LEMMA EndPassKeeps ==
    ASSUME ReminderInv, NEW p \in Passes, EndPass(p)
    PROVE  ReminderInv'
<1>1. IdlePass.phase # "send"
    BY DEF IdlePass
<1>2. QED
    BY <1>1, IdleIsPass, PassMoves DEF EndPass, InPass, ReminderInv, ReminderTypeOK

LEMMA FailPassKeeps ==
    ASSUME ReminderInv, NEW p \in Passes, FailPass(p)
    PROVE  ReminderInv'
<1>1. failures' \in 0 .. MaxFailures
    BY ReminderAssumption DEF FailPass, ReminderInv, ReminderTypeOK
<1>2. CASE pass' = [pass EXCEPT ![p] = NextOne(p)]
    BY <1>1, <1>2, NextOneIsPass, PassMoves DEF FailPass, ReminderInv
<1>3. CASE pass' = [pass EXCEPT ![p] = IdlePass]
    <2>1. IdlePass.phase # "send"
        BY DEF IdlePass
    <2>2. QED
        BY <1>1, <1>3, <2>1, IdleIsPass, PassMoves DEF FailPass
<1>4. QED
    BY <1>2, <1>3 DEF FailPass

\* A pass that decides to send finds nothing sent, so that what is about to be sent is
\* all there will be.
LEMMA FindNoticeKeeps ==
    ASSUME ReminderInv, NEW p \in Passes, FindNotice(p)
    PROVE  ReminderInv'
<1>. USE DEF ReminderInv
<1>. DEFINE c == [pass[p] EXCEPT !.phase = "send"]
<1>1. pass[p] \in Pass /\ Sound(pass[p]) /\ pass[p].phase = "sent"
    BY DEF ReminderTypeOK, PassesSound, FindNotice, InPass
<1>2. CASE notices[pass[p].at][pass[p].title] > 0
    <2>1. pass' = [pass EXCEPT ![p] = NextOne(p)]
        BY <1>2 DEF FindNotice, InPass
    <2>2. QED
        BY <2>1, NextOneIsPass, PassMoves DEF FindNotice, InPass, ReminderTypeOK
<1>3. CASE ~(notices[pass[p].at][pass[p].title] > 0)
    <2>1. pass' = [pass EXCEPT ![p] = c]
        BY <1>3 DEF FindNotice, InPass
    <2>2. c \in Pass /\ Sound(c) /\ c.at = pass[p].at /\ c.title = pass[p].title
        BY <1>1 DEF Pass, PassPhases, Sound
    <2>3. pass'[p] = c /\ \A q \in Passes \ {p} : pass'[q] = pass[q]
        BY <2>1 DEF ReminderTypeOK
    <2>4. ReminderTypeOK'
        BY <2>1, <2>2 DEF ReminderTypeOK, FindNotice, InPass
    <2>5. PassesSound'
        <3>1. \A q \in Passes : pass'[q] \in {c, pass[q]}
            BY <2>3
        <3>2. QED
            BY <2>2, <3>1 DEF PassesSound, Sound, FindNotice, InPass
    <2>6. SentOrSending'
        <3> SUFFICES ASSUME NEW e \in Employees, NEW t \in Titles
                     PROVE  reminded[e][t] + Cardinality(Sending(e, t)') <= Cardinality(Passes)
            BY DEF SentOrSending, FindNotice, InPass
        <3>1. CASE e = pass[p].at /\ t = pass[p].title
            <4>1. reminded[e][t] = 0
                BY <1>3, <3>1 DEF ReminderTypeOK, RemindedKnown
            <4>2. Sending(e, t)' \subseteq Passes
                BY DEF Sending
            <4>3. IsFiniteSet(Passes) /\ Cardinality(Passes) \in Nat
                BY SendingFinite
            <4>4. PICK those \in SUBSET Passes : those = Sending(e, t)'
                BY <4>2
            <4>5. IsFiniteSet(those) /\ Cardinality(those) <= Cardinality(Passes)
                BY <4>3, FS_Subset
            <4>6. Cardinality(those) \in Nat
                BY <4>5, FS_CardinalityType
            <4>7. QED
                BY <4>1, <4>4, <4>5, <4>6
        <3>2. CASE ~(e = pass[p].at /\ t = pass[p].title)
            <4>1. Sending(e, t)' = Sending(e, t)
                <5>1. /\ ~(pass'[p].phase = "send" /\ pass'[p].at = e /\ pass'[p].title = t)
                      /\ ~(pass[p].phase = "send" /\ pass[p].at = e /\ pass[p].title = t)
                    BY <2>2, <2>3, <3>2
                <5>2. QED
                    BY <2>3, <5>1 DEF Sending
            <4>2. QED
                BY <4>1 DEF SentOrSending
        <3>3. QED
            BY <3>1, <3>2
    <2>7. NoticesJustified'
        BY DEF NoticesJustified, FindNotice, InPass
    <2>8. RemindedKnown'
        BY DEF RemindedKnown, FindNotice, InPass
    <2>9. QED
        BY <2>4, <2>5, <2>6, <2>7, <2>8
<1>4. QED
    BY <1>2, <1>3

\* What was about to be sent has been sent.
LEMMA SendNoticeKeeps ==
    ASSUME ReminderInv, NEW p \in Passes, SendNotice(p)
    PROVE  ReminderInv'
<1>. USE DEF ReminderInv
<1>. DEFINE a == pass[p].at
            b == pass[p].title
<1>1. pass[p] \in Pass /\ Sound(pass[p]) /\ pass[p].phase = "send"
    BY DEF ReminderTypeOK, PassesSound, SendNotice, InPass
<1>2. a \in Scheduled \cap over /\ a \in Employees /\ b \in Titles
      /\ (b = "noCheckout" => day[a] # "none")
    BY <1>1, ScheduledEmployees DEF Sound
<1>3. pass'[p] = NextOne(p) /\ \A q \in Passes \ {p} : pass'[q] = pass[q]
    BY DEF SendNotice, InPass, ReminderTypeOK
<1>4. over' = over /\ day' = day /\ edits' = edits /\ failures' = failures
    BY DEF SendNotice, InPass
<1>5. ASSUME NEW e \in Employees, NEW t \in Titles
      PROVE  /\ notices[e][t] \in Nat /\ reminded[e][t] \in Nat
             /\ notices'[e][t] = IF e = a /\ t = b THEN notices[e][t] + 1 ELSE notices[e][t]
             /\ reminded'[e][t] = IF e = a /\ t = b THEN reminded[e][t] + 1 ELSE reminded[e][t]
    BY <1>2 DEF SendNotice, ReminderTypeOK
<1>6. ReminderTypeOK'
    <2>1. {notices', reminded'} \subseteq [Employees -> [Titles -> Nat]]
        BY <1>2 DEF SendNotice, ReminderTypeOK
    <2>2. pass' \in [Passes -> Pass]
        BY NextOneIsPass DEF SendNotice, InPass, ReminderTypeOK
    <2>3. QED
        BY <1>4, <2>1, <2>2 DEF ReminderTypeOK
<1>7. PassesSound'
    <2>1. \A q \in Passes : pass'[q] \in {NextOne(p), pass[q]}
        BY <1>3
    <2>2. QED
        BY <1>4, <2>1, NextOneIsPass DEF PassesSound, Sound
<1>8. SentOrSending'
    <2> SUFFICES ASSUME NEW e \in Employees, NEW t \in Titles
                 PROVE  reminded'[e][t] + Cardinality(Sending(e, t)') <= Cardinality(Passes)
        BY DEF SentOrSending
    <2>1. reminded[e][t] + Cardinality(Sending(e, t)) <= Cardinality(Passes)
        BY DEF SentOrSending
    <2>2. Sending(e, t)' = Sending(e, t) \ {p}
        BY <1>3, NextOneIsPass DEF Sending
    <2>3. CASE e = a /\ t = b
        <3>1. p \in Sending(e, t)
            BY <1>1, <2>3 DEF Sending
        <3>2. Cardinality(Sending(e, t)') = Cardinality(Sending(e, t)) - 1
            BY <2>2, <3>1, SendingFinite, FS_RemoveElement
        <3>3. QED
            BY <1>5, <2>1, <2>3, <3>2, SendingFinite
    <2>4. CASE ~(e = a /\ t = b)
        <3>1. p \notin Sending(e, t)
            BY <2>4 DEF Sending
        <3>2. Sending(e, t)' = Sending(e, t)
            BY <2>2, <3>1
        <3>3. QED
            BY <1>5, <2>1, <2>4, <3>2
    <2>5. QED
        BY <2>3, <2>4
<1>9. NoticesJustified'
    <2> SUFFICES ASSUME NEW e \in Employees
                 PROVE  /\ \A t \in Titles : reminded'[e][t] > 0 => e \in Scheduled \cap over
                        /\ reminded'[e]["noCheckout"] > 0 => day[e] # "none"
        BY <1>4 DEF NoticesJustified
    <2>1. CASE e = a
        BY <1>2, <1>5, <2>1, ScheduledEmployees DEF NoticesJustified
    <2>2. CASE e # a
        BY <1>5, <2>2, ScheduledEmployees DEF NoticesJustified
    <2>3. QED
        BY <2>1, <2>2
<1>10. RemindedKnown'
    BY <1>5 DEF RemindedKnown
<1>11. QED
    BY <1>6, <1>7, <1>8, <1>9, <1>10

(***************************************************************************)
(* The office's writes.                                                    *)
(***************************************************************************)

\* Whatever rows the office leaves: who is left without one counts as not reminded.
LEMMA OfficeWritesKeeps ==
    ASSUME ReminderInv, NEW new \in [Employees -> [Titles -> Nat]], OfficeWrites(new)
    PROVE  ReminderInv'
<1>. USE DEF ReminderInv
<1>1. /\ over' = over /\ day' = day /\ pass' = pass /\ failures' = failures
      /\ notices' = new /\ edits' \in 0 .. MaxEdits
    BY ReminderAssumption DEF OfficeWrites, ReminderTypeOK
<1>2. ASSUME NEW e \in Employees, NEW t \in Titles
      PROVE  /\ reminded[e][t] \in Nat
             /\ reminded'[e][t] = IF new[e][t] = 0 THEN 0 ELSE reminded[e][t]
    BY DEF OfficeWrites, ReminderTypeOK
<1>3. ReminderTypeOK'
    <2>1. reminded' = [e \in Employees |-> [t \in Titles |->
                          IF new[e][t] = 0 THEN 0 ELSE reminded[e][t]]]
        BY DEF OfficeWrites
    <2>2. reminded' \in [Employees -> [Titles -> Nat]]
        BY <1>2, <2>1
    <2>3. QED
        BY <1>1, <2>2 DEF ReminderTypeOK
<1>4. PassesSound'
    BY <1>1 DEF PassesSound, Sound
<1>5. SentOrSending'
    <2> SUFFICES ASSUME NEW e \in Employees, NEW t \in Titles
                 PROVE  reminded'[e][t] + Cardinality(Sending(e, t)') <= Cardinality(Passes)
        BY DEF SentOrSending
    <2>1. Sending(e, t)' = Sending(e, t)
        BY <1>1 DEF Sending
    <2>2. reminded[e][t] + Cardinality(Sending(e, t)) <= Cardinality(Passes)
        BY DEF SentOrSending
    <2>3. reminded'[e][t] \in {0, reminded[e][t]} /\ reminded[e][t] \in Nat
        BY <1>2
    <2>4. QED
        BY <2>1, <2>2, <2>3, SendingFinite
<1>6. RemindedKnown'
    BY <1>1, <1>2 DEF RemindedKnown
<1>7. NoticesJustified'
    <2>1. \A e \in Employees, t \in Titles : reminded'[e][t] > 0 => reminded[e][t] > 0
        BY <1>2
    <2>2. QED
        BY <1>1, <2>1, ScheduledEmployees DEF NoticesJustified
<1>8. QED
    BY <1>3, <1>4, <1>5, <1>6, <1>7

LEMMA NoticesKeep ==
    ASSUME ReminderInv, NEW e \in Employees, NEW t \in Titles,
           AddNotice(e, t) \/ TakeNotice(e, t) \/ MoveNotice(e, t)
    PROVE  ReminderInv'
<1>1. notices \in [Employees -> [Titles -> Nat]]
    BY DEF ReminderInv, ReminderTypeOK
<1>2. ASSUME NEW rows \in [Employees -> [Titles -> Nat]], NEW f \in Employees, NEW u \in Titles
      PROVE  Added(rows, f, u) \in [Employees -> [Titles -> Nat]]
    BY DEF Added
<1>3. notices[e][t] > 0 => Taken(notices, e, t) \in [Employees -> [Titles -> Nat]]
    <2> SUFFICES ASSUME notices[e][t] > 0
                 PROVE  Taken(notices, e, t) \in [Employees -> [Titles -> Nat]]
        OBVIOUS
    <2>1. notices[e][t] - 1 \in Nat
        BY <1>1
    <2>2. QED
        BY <1>1, <2>1 DEF Taken
<1>4. CASE AddNotice(e, t)
    <2>1. PICK new : new = Added(notices, e, t)
        OBVIOUS
    <2>2. QED
        BY <1>1, <1>2, <1>4, <2>1, OfficeWritesKeeps DEF AddNotice
<1>5. CASE TakeNotice(e, t)
    <2>1. PICK new : new = Taken(notices, e, t)
        OBVIOUS
    <2>2. QED
        BY <1>3, <1>5, <2>1, OfficeWritesKeeps DEF TakeNotice
<1>6. CASE MoveNotice(e, t)
    <2>1. PICK f \in Employees, u \in Titles :
             notices[e][t] > 0 /\ OfficeWrites(Added(Taken(notices, e, t), f, u))
        BY <1>6 DEF MoveNotice
    <2>2. PICK new : new = Added(Taken(notices, e, t), f, u)
        OBVIOUS
    <2>3. new \in [Employees -> [Titles -> Nat]]
        BY <1>2, <1>3, <2>1, <2>2
    <2>4. QED
        BY <2>1, <2>2, <2>3, OfficeWritesKeeps
<1>7. QED
    BY <1>4, <1>5, <1>6

(***************************************************************************)
(* The employees' day.                                                     *)
(***************************************************************************)

\* The end of a day is never taken back, nor is a check-in.
LEMMA DayGoesOn ==
    ASSUME ReminderInv, over \subseteq over', over' \subseteq Employees,
           day' \in [Employees -> {"none", "in", "out"}],
           \A e \in Employees : day[e] # "none" => day'[e] # "none",
           pass' = pass, notices' = notices, reminded' = reminded, edits' = edits,
           failures' = failures
    PROVE  ReminderInv'
<1>. USE DEF ReminderInv
<1>1. ReminderTypeOK'
    BY DEF ReminderTypeOK
<1>2. PassesSound'
    BY ScheduledEmployees DEF PassesSound, Sound
<1>3. SentOrSending'
    BY DEF SentOrSending, Sending
<1>4. NoticesJustified'
    BY DEF NoticesJustified
<1>5. RemindedKnown'
    BY DEF RemindedKnown
<1>6. QED
    BY <1>1, <1>2, <1>3, <1>4, <1>5

LEMMA DayKeeps ==
    ASSUME ReminderInv, NEW e \in Employees, CheckIn(e) \/ CheckOut(e) \/ DayEnds(e)
    PROVE  ReminderInv'
<1>1. CASE CheckIn(e)
    <2>1. day' \in [Employees -> {"none", "in", "out"}]
          /\ \A f \in Employees : day[f] # "none" => day'[f] # "none"
        BY <1>1 DEF CheckIn, ReminderInv, ReminderTypeOK
    <2>2. QED
        BY <1>1, <2>1, DayGoesOn DEF CheckIn, ReminderInv, ReminderTypeOK
<1>2. CASE CheckOut(e)
    <2>1. day' \in [Employees -> {"none", "in", "out"}]
          /\ \A f \in Employees : day[f] # "none" => day'[f] # "none"
        BY <1>2 DEF CheckOut, ReminderInv, ReminderTypeOK
    <2>2. QED
        BY <1>2, <2>1, DayGoesOn DEF CheckOut, ReminderInv, ReminderTypeOK
<1>3. CASE DayEnds(e)
    BY <1>3, DayGoesOn DEF DayEnds, ReminderInv, ReminderTypeOK
<1>4. QED
    BY <1>1, <1>2, <1>3

(***************************************************************************)
(* Reminders: the theorems.                                                *)
(***************************************************************************)
LEMMA NextReminder == ReminderInv /\ [OfficeNext]_officeVars => ReminderInv'
<1>. SUFFICES ASSUME ReminderInv, [OfficeNext]_officeVars PROVE ReminderInv'
    OBVIOUS
<1>1. CASE UNCHANGED reminderVars
    BY <1>1, DayGoesOn DEF reminderVars, ReminderInv, ReminderTypeOK
<1>2. ASSUME NEW p \in Passes, PassStep(p) PROVE ReminderInv'
    BY <1>2, StartPassKeeps, TakeEmployeeKeeps, ReadDayKeeps, FindNoticeKeeps,
       SendNoticeKeeps, EndPassKeeps DEF PassStep
<1>3. ASSUME NEW p \in Passes, FailPass(p) PROVE ReminderInv'
    BY <1>3, FailPassKeeps
<1>4. ASSUME NEW e \in Employees, CheckIn(e) \/ CheckOut(e) \/ DayEnds(e) PROVE ReminderInv'
    BY <1>4, DayKeeps
<1>9. ASSUME NEW e \in Employees, NEW t \in Titles,
             AddNotice(e, t) \/ TakeNotice(e, t) \/ MoveNotice(e, t)
      PROVE  ReminderInv'
    BY <1>9, NoticesKeep
<1>5. CASE ReminderNext
    BY <1>2, <1>3, <1>4, <1>5, <1>9 DEF ReminderNext
<1>6. CASE LeaveNext /\ UNCHANGED reminderVars
    BY <1>1, <1>6
<1>7. CASE UNCHANGED officeVars
    BY <1>1, <1>7 DEF officeVars, reminderVars
<1>8. QED
    BY <1>5, <1>6, <1>7 DEF OfficeNext

LEMMA ReminderImpliesBounded == ReminderInv => NoticesBounded
<1>. SUFFICES ASSUME ReminderInv, NEW e \in Employees, NEW t \in Titles
              PROVE  reminded[e][t] <= Cardinality(Passes)
    BY DEF NoticesBounded
<1>1. reminded[e][t] \in Nat
      /\ reminded[e][t] + Cardinality(Sending(e, t)) <= Cardinality(Passes)
    BY DEF ReminderInv, ReminderTypeOK, SentOrSending
<1>2. QED
    BY <1>1, SendingFinite

LEMMA OfficeInvariant == OfficeSpec => []ReminderInv
<1>1. OfficeInit => ReminderInv
    BY InitReminder DEF OfficeInit
<1>2. QED
    BY <1>1, NextReminder, PTL DEF OfficeSpec

\* notifyOnce looks for a notification and then creates it: however many employees there
\* are and whatever goes wrong, an employee gets a reminder at most as often as passes of
\* the cron overlap, until the office takes away the last notification that says so, and at
\* most as often again until it does so the next time.
THEOREM ReminderAtMostOncePerPass == OfficeSpec => []NoticesBounded
<1>1. QED
    BY OfficeInvariant, ReminderImpliesBounded, PTL

\* processEndOfShift reminds only employees whose working day was over, and of the
\* check-out only those who had checked in, though days go on while it runs.
THEOREM ReminderJustified == OfficeSpec => []NoticesJustified
<1>1. ReminderInv => NoticesJustified
    BY DEF ReminderInv
<1>2. QED
    BY <1>1, OfficeInvariant, PTL

\* Whatever passes of processEndOfShift see and wherever they are cut off, what they keep
\* and the notices they leave are well typed.
THEOREM ReminderTypeCorrect == OfficeSpec => []ReminderTypeOK
<1>1. ReminderInv => ReminderTypeOK
    BY DEF ReminderInv
<1>2. QED
    BY <1>1, OfficeInvariant, PTL

(***************************************************************************)
(* The cache: the inductive invariant.                                     *)
(***************************************************************************)

\* The tables an answer of resource p shows are as they were read.
UpToDate(p, answer) == \A t \in ReadsOf[p] : answer[t] = version[t]

\* What a request knows: which answer it is about, what it has read, and that nothing it
\* has read has changed unless it was marked.
WebCallSound(r) ==
    /\ web[r].phase # "idle" => web[r].resource \in Resources
    /\ web[r].phase \in {"looking", "read"} => web[r].reader \in Readers
    /\ web[r].phase = "read" =>
           /\ web[r].answer \in Answer
           /\ web[r].outrun \/ UpToDate(web[r].resource, web[r].answer)

CallsSound == \A r \in WebRequests : WebCallSound(r)

\* The removal by request r is still to come to key k.
Ahead(r, k) ==
    /\ web[r].resource = k[1]
    /\ \/ web[r].phase = "committed"
       \/ web[r].phase = "scanning" /\ k \in web[r].left

\* A stale answer that no change has outrun is about to be removed.
StaleIsRemoved ==
    \A k \in Stored : Fresh(k) \/ k \in outrun \/ \E r \in WebRequests : Ahead(r, k)

CacheInv == CacheTypeOK /\ CallsSound /\ StaleIsRemoved

(***************************************************************************)
(* The cache: lemmas.                                                      *)
(***************************************************************************)

\* A key names a resource and a reader.
LEMMA KeyParts ==
    ASSUME NEW k \in Keys
    PROVE  k[1] \in Resources /\ k[2] \in Readers
BY DEF Keys

LEMMA KeyOfType ==
    ASSUME NEW r \in WebRequests, WebCallSound(r), web[r].phase \in {"looking", "read"}
    PROVE  KeyOf(r) \in Keys /\ KeyOf(r)[1] = web[r].resource
BY DEF WebCallSound, KeyOf, Keys

LEMMA IdleType == IdleWebCall \in WebCall
BY DEF IdleWebCall, WebCall, WebPhases

\* Nothing is no answer.
LEMMA NothingIsNoAnswer == Nothing \notin Answer
BY CacheAssumption

\* What is stored is an answer.
LEMMA StoredAnswer ==
    ASSUME CacheTypeOK, NEW k \in Stored
    PROVE  k \in Keys /\ cached[k] \in Answer
BY DEF CacheTypeOK, Stored

(***************************************************************************)
(* The initial state.                                                      *)
(***************************************************************************)
LEMMA InitCache == CacheInit => CacheInv
<1> SUFFICES ASSUME CacheInit PROVE CacheInv
    OBVIOUS
<1>1. CacheTypeOK
    BY IdleType DEF CacheInit, CacheTypeOK, Answer
<1>2. CallsSound
    BY DEF CacheInit, CallsSound, WebCallSound, IdleWebCall
<1>3. StaleIsRemoved
    BY DEF CacheInit, StaleIsRemoved, Stored
<1>4. QED
    BY <1>1, <1>2, <1>3 DEF CacheInv

(***************************************************************************)
(* Steps that change one request and neither tables nor answers.           *)
(***************************************************************************)

\* Another request than r is where it was.
LEMMA OtherCalls ==
    ASSUME CallsSound, NEW r \in WebRequests, version' = version,
           \A q \in WebRequests \ {r} : web'[q] = web[q], WebCallSound(r)'
    PROVE  CallsSound'
BY DEF CallsSound, WebCallSound, UpToDate

\* A request that removes nothing may change while the store does not.
LEMMA StillRemoved ==
    ASSUME StaleIsRemoved, NEW r \in WebRequests,
           UNCHANGED <<version, cached, outrun>>,
           \A q \in WebRequests \ {r} : web'[q] = web[q],
           \A k \in Keys : Ahead(r, k) => Ahead(r, k)'
    PROVE  StaleIsRemoved'
BY DEF StaleIsRemoved, Stored, Fresh, Ahead

LEMMA GetKeeps ==
    ASSUME CacheInv, NEW r \in WebRequests, Get(r)
    PROVE  CacheInv'
<1>. USE DEF CacheInv
<1>1. PICK p \in Resources, i \in Readers :
          web' = [web EXCEPT ![r] = [IdleWebCall EXCEPT !.phase = "looking",
                                         !.resource = p, !.reader = i]]
    BY DEF Get
<1>2. web'[r] = [IdleWebCall EXCEPT !.phase = "looking", !.resource = p, !.reader = i]
      /\ \A q \in WebRequests \ {r} : web'[q] = web[q]
    BY <1>1 DEF CacheTypeOK
<1>3. CacheTypeOK'
    BY <1>1, IdleType DEF Get, CacheTypeOK, WebCall, IdleWebCall, WebPhases
<1>4. CallsSound'
    <2>1. WebCallSound(r)'
        BY <1>2 DEF WebCallSound, IdleWebCall
    <2>2. QED
        BY <1>2, <2>1, OtherCalls DEF Get
<1>5. StaleIsRemoved'
    <2>1. \A k \in Keys : Ahead(r, k) => Ahead(r, k)'
        BY DEF Get, Ahead
    <2>2. QED
        BY <1>2, <2>1, StillRemoved DEF Get
<1>6. QED
    BY <1>3, <1>4, <1>5

\* A request that has no removal before it ends.
LEMMA EndKeeps ==
    ASSUME CacheInv, NEW r \in WebRequests, web' = [web EXCEPT ![r] = IdleWebCall],
           UNCHANGED <<version, cached, outrun>>, \A k \in Keys : ~Ahead(r, k)
    PROVE  CacheInv'
<1>. USE DEF CacheInv
<1>1. web'[r] = IdleWebCall /\ \A q \in WebRequests \ {r} : web'[q] = web[q]
    BY DEF CacheTypeOK
<1>2. CacheTypeOK'
    BY IdleType DEF CacheTypeOK
<1>3. CallsSound'
    <2>1. WebCallSound(r)'
        BY <1>1 DEF WebCallSound, IdleWebCall
    <2>2. QED
        BY <1>1, <2>1, OtherCalls
<1>4. StaleIsRemoved'
    BY <1>1, StillRemoved
<1>5. QED
    BY <1>2, <1>3, <1>4

LEMMA ReadTablesKeeps ==
    ASSUME CacheInv, NEW r \in WebRequests, ReadTables(r)
    PROVE  CacheInv'
<1>. USE DEF CacheInv
<1>1. web[r] \in WebCall /\ web[r].resource \in Resources /\ web[r].reader \in Readers
    BY DEF ReadTables, CallsSound, WebCallSound, CacheTypeOK
<1>2. web'[r] = [web[r] EXCEPT !.phase = "read", !.answer = Shown(web[r].resource)]
      /\ \A q \in WebRequests \ {r} : web'[q] = web[q]
    BY DEF ReadTables, CacheTypeOK
<1>3. Shown(web[r].resource) \in Answer
      /\ UpToDate(web[r].resource, Shown(web[r].resource))
    BY <1>1, CacheAssumption DEF Shown, Answer, CacheTypeOK, UpToDate
<1>4. web'[r] \in WebCall /\ web'[r].answer = Shown(web[r].resource)
      /\ web'[r].resource = web[r].resource /\ web'[r].reader = web[r].reader
      /\ web'[r].phase = "read"
    BY <1>1, <1>2, <1>3 DEF WebCall, WebPhases
<1>5. CacheTypeOK'
    BY <1>2, <1>4 DEF ReadTables, CacheTypeOK
<1>6. CallsSound'
    <2>1. WebCallSound(r)'
        BY <1>1, <1>3, <1>4 DEF WebCallSound, UpToDate, ReadTables
    <2>2. QED
        BY <1>2, <2>1, OtherCalls DEF ReadTables
<1>7. StaleIsRemoved'
    <2>1. \A k \in Keys : Ahead(r, k) => Ahead(r, k)'
        BY DEF ReadTables, Ahead
    <2>2. QED
        BY <1>2, <2>1, StillRemoved DEF ReadTables
<1>8. QED
    BY <1>5, <1>6, <1>7

LEMMA StartScanKeeps ==
    ASSUME CacheInv, NEW r \in WebRequests, StartScan(r)
    PROVE  CacheInv'
<1>. USE DEF CacheInv
<1>1. web[r] \in WebCall /\ web[r].resource \in Resources
    BY DEF StartScan, CallsSound, WebCallSound, CacheTypeOK
<1>2. web'[r] = [web[r] EXCEPT !.phase = "scanning", !.left = KeysOf(web[r].resource)]
      /\ \A q \in WebRequests \ {r} : web'[q] = web[q]
    BY DEF StartScan, CacheTypeOK
<1>3. KeysOf(web[r].resource) \subseteq Keys
    BY DEF KeysOf, Stored
<1>4. web'[r] \in WebCall /\ web'[r].phase = "scanning"
      /\ web'[r].left = KeysOf(web[r].resource) /\ web'[r].resource = web[r].resource
    BY <1>1, <1>2, <1>3 DEF WebCall, WebPhases
<1>5. CacheTypeOK'
    BY <1>2, <1>4 DEF StartScan, CacheTypeOK
<1>6. CallsSound'
    <2>1. WebCallSound(r)'
        BY <1>1, <1>4 DEF WebCallSound
    <2>2. QED
        BY <1>2, <2>1, OtherCalls DEF StartScan
<1>7. StaleIsRemoved'
    <2>1. \A k \in Stored : Ahead(r, k) => Ahead(r, k)'
        BY <1>4 DEF StartScan, Ahead, KeysOf
    <2>2. \A q \in WebRequests \ {r}, k \in Stored : Ahead(q, k) => Ahead(q, k)'
        BY <1>2 DEF Ahead
    <2>3. Stored' = Stored /\ outrun' = outrun /\ \A k \in Stored : Fresh(k) => Fresh(k)'
        BY DEF StartScan, Stored, Fresh
    <2>4. QED
        BY <2>1, <2>2, <2>3 DEF StaleIsRemoved
<1>8. QED
    BY <1>5, <1>6, <1>7

(***************************************************************************)
(* Steps that change the store.                                            *)
(***************************************************************************)
LEMMA StoreKeeps ==
    ASSUME CacheInv, NEW r \in WebRequests, Store(r)
    PROVE  CacheInv'
<1>. USE DEF CacheInv
<1>. DEFINE k == KeyOf(r)
<1>1. k \in Keys /\ k[1] = web[r].resource /\ web[r].answer \in Answer
      /\ (web[r].outrun \/ UpToDate(k[1], web[r].answer))
    BY KeyOfType DEF Store, CallsSound, WebCallSound
<1>2. web'[r] = IdleWebCall /\ \A q \in WebRequests \ {r} : web'[q] = web[q]
    BY DEF Store, CacheTypeOK
<1>3. cached'[k] = web[r].answer /\ \A l \in Keys \ {k} : cached'[l] = cached[l]
    BY <1>1 DEF Store, CacheTypeOK
<1>4. CacheTypeOK'
    BY <1>1, IdleType DEF Store, CacheTypeOK
<1>5. CallsSound'
    <2>1. WebCallSound(r)'
        BY <1>2 DEF WebCallSound, IdleWebCall
    <2>2. QED
        BY <1>2, <2>1, OtherCalls DEF Store
<1>6. StaleIsRemoved'
    <2>. SUFFICES ASSUME NEW l \in Keys, l \in Stored'
                  PROVE  Fresh(l)' \/ l \in outrun' \/ \E q \in WebRequests : Ahead(q, l)'
        BY DEF StaleIsRemoved, Stored
    <2>1. CASE l = k
        <3>1. CASE web[r].outrun
            BY <2>1, <3>1 DEF Store
        <3>2. CASE ~web[r].outrun
            BY <1>1, <1>3, <2>1, <3>2 DEF Store, Fresh, UpToDate
        <3>3. QED
            BY <3>1, <3>2
    <2>2. CASE l # k
        <3>1. l \in Stored /\ cached'[l] = cached[l]
            BY <1>3, <2>2 DEF Stored
        <3>2. CASE Fresh(l)
            BY <3>1, <3>2 DEF Fresh, Store
        <3>3. CASE l \in outrun
            BY <2>2, <3>3 DEF Store
        <3>4. ASSUME NEW q \in WebRequests, Ahead(q, l) PROVE Ahead(q, l)'
            BY <1>2, <3>4 DEF Ahead, Store
        <3>5. QED
            BY <3>1, <3>2, <3>3, <3>4 DEF StaleIsRemoved
    <2>3. QED
        BY <2>1, <2>2
<1>7. QED
    BY <1>4, <1>5, <1>6

\* A key that is removed, by a scan or by its time to live, while every removal ahead of
\* another key stays ahead of it.
LEMMA RemovedKeeps ==
    ASSUME CacheInv, NEW k \in Keys, cached' = [cached EXCEPT ![k] = Nothing],
           outrun' = outrun \ {k}, version' = version,
           \A r \in WebRequests, l \in Keys \ {k} : Ahead(r, l) => Ahead(r, l)'
    PROVE  StaleIsRemoved'
<1>. SUFFICES ASSUME NEW l \in Keys, l \in Stored'
              PROVE  Fresh(l)' \/ l \in outrun' \/ \E q \in WebRequests : Ahead(q, l)'
    BY DEF StaleIsRemoved, Stored
<1>1. l # k
    BY DEF Stored, CacheInv, CacheTypeOK
<1>2. cached'[l] = cached[l] /\ l \in Stored
    BY <1>1 DEF CacheInv, CacheTypeOK, Stored
<1>3. CASE Fresh(l)
    BY <1>2, <1>3 DEF Fresh
<1>4. CASE l \in outrun
    BY <1>1, <1>4
<1>5. CASE \E q \in WebRequests : Ahead(q, l)
    BY <1>1, <1>5
<1>6. QED
    BY <1>2, <1>3, <1>4, <1>5 DEF CacheInv, StaleIsRemoved

LEMMA RemoveKeeps ==
    ASSUME CacheInv, NEW r \in WebRequests, Remove(r)
    PROVE  CacheInv'
<1>. USE DEF CacheInv
<1>1. web[r] \in WebCall /\ web[r].resource \in Resources
    BY DEF Remove, CallsSound, WebCallSound, CacheTypeOK
<1>2. PICK k \in web[r].left \cup KeysOf(web[r].resource) :
          /\ cached' = [cached EXCEPT ![k] = Nothing]
          /\ outrun' = outrun \ {k}
          /\ web' = [web EXCEPT ![r].left = @ \ {k}]
    BY DEF Remove
<1>3. k \in Keys
    BY <1>1 DEF KeysOf, Stored, WebCall
<1>4. web'[r] = [web[r] EXCEPT !.left = @ \ {k}]
      /\ \A q \in WebRequests \ {r} : web'[q] = web[q]
    BY <1>2 DEF CacheTypeOK
<1>5. web'[r] \in WebCall /\ web'[r].phase = web[r].phase /\ web'[r].left = web[r].left \ {k}
      /\ web'[r].resource = web[r].resource
    BY <1>1, <1>4 DEF WebCall
<1>6. CacheTypeOK'
    BY <1>2, <1>4, <1>5 DEF Remove, CacheTypeOK
<1>7. CallsSound'
    <2>1. WebCallSound(r)'
        BY <1>1, <1>5 DEF WebCallSound, Remove
    <2>2. QED
        BY <1>4, <2>1, OtherCalls DEF Remove
<1>8. StaleIsRemoved'
    <2>1. \A q \in WebRequests, l \in Keys \ {k} : Ahead(q, l) => Ahead(q, l)'
        BY <1>4, <1>5 DEF Ahead
    <2>2. QED
        BY <1>2, <1>3, <2>1, RemovedKeeps DEF Remove
<1>9. QED
    BY <1>6, <1>7, <1>8

LEMMA ExpireKeeps ==
    ASSUME CacheInv, NEW k \in Keys, Expire(k)
    PROVE  CacheInv'
<1>. USE DEF CacheInv
<1>1. CacheTypeOK'
    BY DEF Expire, CacheTypeOK
<1>2. CallsSound'
    BY DEF Expire, CallsSound, WebCallSound, UpToDate
<1>3. StaleIsRemoved'
    <2>1. \A r \in WebRequests, l \in Keys \ {k} : Ahead(r, l) => Ahead(r, l)'
        BY DEF Ahead, Expire
    <2>2. QED
        BY <2>1, RemovedKeeps DEF Expire
<1>4. QED
    BY <1>1, <1>2, <1>3

LEMMA LoseRemovalKeeps ==
    ASSUME CacheInv, NEW r \in WebRequests, LoseRemoval(r)
    PROVE  CacheInv'
<1>. USE DEF CacheInv
<1>1. web'[r] = IdleWebCall /\ \A q \in WebRequests \ {r} : web'[q] = web[q]
    BY DEF LoseRemoval, CacheTypeOK
<1>2. CacheTypeOK'
    BY IdleType DEF LoseRemoval, CacheTypeOK, KeysOf, Stored
<1>3. CallsSound'
    <2>1. WebCallSound(r)'
        BY <1>1 DEF WebCallSound, IdleWebCall
    <2>2. QED
        BY <1>1, <2>1, OtherCalls DEF LoseRemoval
<1>4. StaleIsRemoved'
    <2>1. \A k \in Stored : Ahead(r, k) => k \in outrun'
        BY DEF LoseRemoval, Ahead, KeysOf
    <2>2. \A q \in WebRequests \ {r}, k \in Stored : Ahead(q, k) => Ahead(q, k)'
        BY <1>1 DEF Ahead
    <2>3. Stored' = Stored /\ outrun \subseteq outrun' /\ \A k \in Stored : Fresh(k) => Fresh(k)'
        BY DEF LoseRemoval, Stored, Fresh
    <2>4. QED
        BY <2>1, <2>2, <2>3 DEF StaleIsRemoved
<1>5. QED
    BY <1>2, <1>3, <1>4

(***************************************************************************)
(* The step that changes the tables.                                       *)
(***************************************************************************)
LEMMA CommitWriteKeeps ==
    ASSUME CacheInv, NEW r \in WebRequests, NEW p \in Resources, CommitWrite(r, p)
    PROVE  CacheInv'
<1>. USE DEF CacheInv
<1>1. web'[r] = [IdleWebCall EXCEPT !.phase = "committed", !.resource = p]
    BY DEF CommitWrite
<1>2. ASSUME NEW q \in WebRequests \ {r}
      PROVE  web'[q] = IF web[q].phase = "read" /\ Shows(web[q].resource, p)
                       THEN [web[q] EXCEPT !.outrun = TRUE] ELSE web[q]
    BY DEF CommitWrite
<1>3. web'[r] \in WebCall /\ web'[r].phase = "committed" /\ web'[r].resource = p
    BY <1>1, IdleType DEF WebCall, WebPhases, IdleWebCall
<1>4. ASSUME NEW q \in WebRequests \ {r}
      PROVE  /\ web'[q] \in WebCall
             /\ web'[q].phase = web[q].phase /\ web'[q].resource = web[q].resource
             /\ web'[q].reader = web[q].reader /\ web'[q].answer = web[q].answer
             /\ web'[q].left = web[q].left
             /\ web[q].outrun => web'[q].outrun
             /\ web[q].phase = "read" /\ Shows(web[q].resource, p) => web'[q].outrun
    BY <1>2 DEF WebCall, CacheTypeOK
<1>5. \A q \in Resources : ~Shows(q, p) => \A t \in ReadsOf[q] : version'[t] = version[t]
    BY CacheAssumption DEF CommitWrite, Shows
<1>6. CacheTypeOK'
    <2>1. version' \in Answer
        BY DEF CommitWrite, CacheTypeOK, Answer
    <2>2. web' \in [WebRequests -> WebCall]
        BY <1>3, <1>4 DEF CommitWrite
    <2>3. QED
        BY <2>1, <2>2 DEF CommitWrite, CacheTypeOK, Stored
<1>7. CallsSound'
    <2>1. WebCallSound(r)'
        BY <1>3 DEF WebCallSound
    <2>2. ASSUME NEW q \in WebRequests \ {r} PROVE WebCallSound(q)'
        <3>1. WebCallSound(q)
            BY DEF CallsSound
        <3>2. CASE web[q].phase = "read" /\ ~Shows(web[q].resource, p)
            BY <1>4, <1>5, <3>1, <3>2 DEF WebCallSound, UpToDate
        <3>3. CASE web[q].phase # "read" \/ Shows(web[q].resource, p)
            BY <1>4, <3>1, <3>3 DEF WebCallSound
        <3>4. QED
            BY <3>2, <3>3
    <2>3. QED
        BY <2>1, <2>2 DEF CallsSound
<1>8. StaleIsRemoved'
    <2>. SUFFICES ASSUME NEW k \in Keys, k \in Stored'
                  PROVE  Fresh(k)' \/ k \in outrun' \/ \E q \in WebRequests : Ahead(q, k)'
        BY DEF StaleIsRemoved, Stored
    <2>1. k \in Stored /\ cached'[k] = cached[k] /\ k[1] \in Resources
        BY KeyParts DEF CommitWrite, Stored
    <2>2. CASE k[1] = p
        BY <1>3, <2>2 DEF Ahead
    <2>3. CASE k[1] # p /\ Shows(k[1], p)
        BY <2>1, <2>3 DEF CommitWrite
    <2>4. CASE ~Shows(k[1], p)
        <3>1. Fresh(k) => Fresh(k)'
            BY <1>5, <2>1, <2>4 DEF Fresh
        <3>2. outrun \subseteq outrun'
            BY DEF CommitWrite
        <3>3. ASSUME NEW q \in WebRequests, Ahead(q, k) PROVE Ahead(q, k)'
            <4>1. q # r
                BY <3>3 DEF Ahead, CommitWrite
            <4>2. QED
                BY <1>4, <3>3, <4>1 DEF Ahead
        <3>4. QED
            BY <2>1, <3>1, <3>2, <3>3 DEF StaleIsRemoved
    <2>5. QED
        BY <2>2, <2>3, <2>4
<1>9. QED
    BY <1>6, <1>7, <1>8

(***************************************************************************)
(* Every step, and the theorems.                                           *)
(***************************************************************************)
LEMMA NextCache == CacheInv /\ [CacheNext]_cacheVars => CacheInv'
<1>. SUFFICES ASSUME CacheInv, [CacheNext]_cacheVars PROVE CacheInv'
    OBVIOUS
<1>1. ASSUME NEW r \in WebRequests, WebStep(r) PROVE CacheInv'
    <2>1. CASE Get(r)
        BY <2>1, GetKeeps
    <2>2. CASE Hit(r) \/ LoseAnswer(r)
        <3>1. \A k \in Keys : ~Ahead(r, k)
            BY <2>2 DEF Hit, LoseAnswer, Ahead
        <3>2. QED
            BY <2>2, <3>1, EndKeeps DEF Hit, LoseAnswer
    <2>3. CASE EndScan(r)
        <3>1. \A k \in Keys : ~Ahead(r, k)
            BY <2>3 DEF EndScan, Ahead
        <3>2. QED
            BY <2>3, <3>1, EndKeeps DEF EndScan
    <2>4. CASE ReadTables(r)
        BY <2>4, ReadTablesKeeps
    <2>5. CASE Store(r)
        BY <2>5, StoreKeeps
    <2>6. CASE \E p \in Resources : CommitWrite(r, p)
        BY <2>6, CommitWriteKeeps
    <2>7. CASE StartScan(r)
        BY <2>7, StartScanKeeps
    <2>8. CASE Remove(r)
        BY <2>8, RemoveKeeps
    <2>9. CASE LoseRemoval(r)
        BY <2>9, LoseRemovalKeeps
    <2>10. QED
        BY <1>1, <2>1, <2>2, <2>3, <2>4, <2>5, <2>6, <2>7, <2>8, <2>9 DEF WebStep
<1>2. ASSUME NEW k \in Keys, Expire(k) PROVE CacheInv'
    BY <1>2, ExpireKeeps
<1>3. CASE UNCHANGED cacheVars
    BY <1>3 DEF CacheInv, cacheVars, CacheTypeOK, CallsSound, WebCallSound, UpToDate,
                StaleIsRemoved, Stored, Fresh, Ahead
<1>4. QED
    BY <1>1, <1>2, <1>3 DEF CacheNext

LEMMA CacheImpliesStale == CacheInv => StaleOnlyIfOutrun
BY DEF CacheInv, StaleIsRemoved, StaleOnlyIfOutrun, Ahead, Invalidating

\* The store holds answers, and nothing else, under the keys of a resource and a reader,
\* whatever Redis loses and whenever it does.
THEOREM CacheTypeCorrect == CacheSpec => []CacheTypeOK
<1>1. CacheInv => CacheTypeOK
    BY DEF CacheInv
<1>2. QED
    BY <1>1, InitCache, NextCache, PTL DEF CacheSpec

\* The interceptor serves a stale answer only if it was read before the change and stored
\* after it, was changed through another resource or outlived a lost removal, or while its
\* removal is under way: for any resources, readers and requests.
THEOREM StaleCorrect == CacheSpec => []StaleOnlyIfOutrun
<1>1. QED
    BY InitCache, NextCache, CacheImpliesStale, PTL DEF CacheSpec

(***************************************************************************)
(* The two together.                                                       *)
(***************************************************************************)

\* Each step of the joined specification is one of the leaves, of the reminders and of the
\* cache, or leaves them alone.
LEMMA NextOffice ==
    [Next]_vars => [LeaveNext]_leaveVars /\ [OfficeNext]_officeVars /\ [CacheNext]_cacheVars
<1>. SUFFICES ASSUME [Next]_vars
              PROVE  [LeaveNext]_leaveVars /\ [OfficeNext]_officeVars /\ [CacheNext]_cacheVars
    OBVIOUS
<1>1. CASE OfficeNext /\ UNCHANGED cacheVars
    <2>1. CASE ReminderNext
        BY <1>1, <2>1 DEF ReminderNext
    <2>2. CASE LeaveNext
        BY <1>1, <2>2
    <2>3. QED
        BY <1>1, <2>1, <2>2 DEF OfficeNext
<1>2. CASE CacheNext /\ UNCHANGED <<leaveVars, reminderVars>>
    BY <1>2 DEF leaveVars, reminderVars, officeVars
<1>3. CASE UNCHANGED vars
    BY <1>3 DEF vars, leaveVars, officeVars, cacheVars
<1>4. QED
    BY <1>1, <1>2, <1>3 DEF Next

LEMMA JoinedInvariant == Spec => [](RowsInv /\ ReminderInv /\ CacheInv)
<1>1. Init => RowsInv /\ ReminderInv /\ CacheInv
    BY InitRows, InitReminder, InitCache DEF Init, OfficeInit
<1>2. (RowsInv /\ ReminderInv /\ CacheInv) /\ [Next]_vars
          => (RowsInv /\ ReminderInv /\ CacheInv)'
    BY NextOffice, NextRows, NextReminder, NextCache
<1>3. QED
    BY <1>1, <1>2, PTL DEF Spec

\* The specification the model checker runs, for any employees, leaves, passes, resources and
\* readers: leaves, notices, passes and the store stay well typed, whichever part is at work.
THEOREM OfficeTypeCorrect == Spec => []OfficeTypeOK
<1>1. RowsInv /\ ReminderInv /\ CacheInv => OfficeTypeOK
    BY DEF RowsInv, ReminderInv, CacheInv, OfficeTypeOK
<1>2. QED
    BY <1>1, JoinedInvariant, PTL
\* All that the run of this specification checks of safety: reminders go out at most once for
\* each pass that may be under way, until the office takes the last notification of one
\* away, and not for nothing; and answers are stale only where a
\* change outran them.
THEOREM OfficeCorrect == Spec => [](NoticesBounded /\ NoticesJustified /\ StaleOnlyIfOutrun)
<1>1. ReminderInv => NoticesBounded /\ NoticesJustified
    BY ReminderImpliesBounded DEF ReminderInv
<1>2. QED
    BY <1>1, CacheImpliesStale, JoinedInvariant, PTL
=============================================================================
