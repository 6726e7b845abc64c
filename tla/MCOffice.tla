------------------------------- MODULE MCOffice -------------------------------
(***************************************************************************)
(* What must happen in the end: reminders with the leaves and employees    *)
(* they are about, and the store of answers.  The two share no state, so   *)
(* each behaviour is one of either, and the other part rests.              *)
(***************************************************************************)
EXTENDS Reminders, HttpCache, TLC

CONSTANTS c1, b1, e1, boss, s1, users, leaves

MCSeedCompanyOf == [b \in Branches |-> c1]

Boss == [sub |-> boss, role |-> "superadmin", company |-> None, branch |-> None]

Blank(kind) ==
    [kind |-> kind, actor |-> Boss, employee |-> Absent, company |-> Absent,
     branch |-> Absent, from |-> Absent, to |-> Absent, days |-> Absent, duration |-> "daily"]

MCLeaveInputs == {Blank("approve"), Blank("delete")}

MCStaffRows == {[company |-> c1, branch |-> b1, enabled |-> on] : on \in BOOLEAN}

MCSeedRows == {[company |-> c1, branch |-> b1, employee |-> e1, from |-> 1, to |-> 1,
                days |-> 1, duration |-> "daily", status |-> "pending"]}

MCReadsOf == (users :> {users}) @@ (leaves :> {users, leaves})
MCWritesOf == (users :> {users}) @@ (leaves :> {leaves})
MCMaxVersion == (users :> 1) @@ (leaves :> 1)

VARIABLE part       \* the part that is at work

vars == <<staff, leave, told, companyOf, moved, leaveCall,
          over, day, notices, reminded, edits, pass, failures, version, cached, outrun, web, part>>

\* The reminders start before the day has ended and anybody has come; whoever rests is
\* never due.
Init ==
    /\ OfficeInit /\ CacheInit
    /\ part \in {"reminders", "cache"}
    /\ over = {}
    /\ \A e \in Employees : day[e] = IF part = "cache" THEN "out" ELSE "none"
    /\ part = "cache" => leave[s1] = None /\ \A e \in Employees : staff[e].enabled

Next ==
    /\ UNCHANGED part
    /\ \/ part = "reminders" /\ OfficeNext /\ UNCHANGED cacheVars
       \/ part = "cache" /\ CacheNext /\ UNCHANGED <<leaveVars, reminderVars>>

\* PassFairness and CacheFairness.
Fairness ==
    /\ \A p \in Passes :
          WF_vars(part = "reminders" /\ PassStep(p) /\ UNCHANGED <<leaveVars, cacheVars, part>>)
    /\ \A r \in WebRequests :
          WF_vars(/\ part = "cache" /\ (Store(r) \/ LoseAnswer(r))
                  /\ UNCHANGED <<leaveVars, reminderVars, part>>)
    /\ \A k \in Keys :
          WF_vars(part = "cache" /\ Expire(k) /\ UNCHANGED <<leaveVars, reminderVars, part>>)

Spec == Init /\ [][Next]_vars /\ Fairness

OfficeTypeOK == LeaveTypeOK /\ ReminderTypeOK /\ CacheTypeOK
=============================================================================
