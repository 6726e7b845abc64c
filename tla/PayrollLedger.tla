--------------------------- MODULE PayrollLedger ---------------------------
(***************************************************************************)
(* What a company's payrolls promise, however many calls it takes and      *)
(* however these overlap: an employee has one payroll a month, it opens    *)
(* unpaid, and what is paid only grows, by whole payments that fit what    *)
(* the payroll says at the moment they are recorded.  Where the office may *)
(* edit a payroll while a payment of it is being checked (EditsBeside),    *)
(* the payment may be of what an edited payroll said before.               *)
(*                                                                         *)
(* An action constrains the row's next value instead of computing it: the  *)
(* module is there to be implemented, not to be run.                       *)
(***************************************************************************)
EXTENDS Integers

CONSTANTS
    None,        \* no payroll
    Payrolls,    \* identities of payrolls
    Amounts,     \* payments that may be made
    EditsBeside  \* TRUE: edits may run beside a payment of the same payroll

VARIABLES
    row,     \* row[p]: what the payroll says
    edited   \* the payrolls an edit was accepted for

Init ==
    /\ row = [p \in Payrolls |-> None]
    /\ edited = {}

\* No other payroll is of this employee and month.
KeyIsFree(p, new) ==
    \A q \in Payrolls \ {p} :
        row[q] # None => row[q].employee # new.employee \/ row[q].month # new.month

Payable(current, amount) ==
    /\ current.status # "cancelled"
    /\ current.net > 0
    /\ current.paid + amount <= current.net

Settled(new) == IF new.paid >= new.net THEN "paid" ELSE "partially_paid"

Open(p, new) ==
    /\ row[p] = None /\ new # None
    /\ KeyIsFree(p, new)
    /\ new.paid = 0
    /\ UNCHANGED edited

\* Anything may be edited but what was paid.
Edit(p, new) ==
    /\ row[p] # None /\ new # None
    /\ KeyIsFree(p, new)
    /\ new.paid = row[p].paid
    /\ edited' = edited \cup {p}

\* A payment changes the paid amount, and the status with it.
Receive(p, new, amount) ==
    /\ row[p] # None /\ new # None
    /\ new = [row[p] EXCEPT !.paid = @ + amount, !.status = new.status]
    /\ \/ Payable(row[p], amount) /\ new.status = Settled(new)
       \/ EditsBeside /\ p \in edited /\ new.status \in {"paid", "partially_paid"}
    /\ UNCHANGED edited

Remove(p, new) ==
    /\ row[p] # None /\ new = None
    /\ UNCHANGED edited

Next ==
    \E p \in Payrolls :
        LET new == row'[p]
        IN  /\ row' = [row EXCEPT ![p] = new]
            /\ \/ Open(p, new) \/ Edit(p, new) \/ Remove(p, new)
               \/ \E amount \in Amounts : Receive(p, new, amount)

Spec == Init /\ [][Next]_<<row, edited>>

=============================================================================
